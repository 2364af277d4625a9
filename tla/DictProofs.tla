----------------------------- MODULE DictProofs -----------------------------
(***************************************************************************)
(* Proofs about module Dict, for every set of keys, hash function, item    *)
(* size and capacity: its lookup table, then its array of items and its    *)
(* iterators, and that it implements module OrderedMap.                    *)
(***************************************************************************)
EXTENDS Dict, FiniteSetTheorems, TLAPS

-----------------------------------------------------------------------------
(* The inductive invariant                                                 *)

Contents == Item \cup {Tombstone}

Types ==
  /\ hash \in [Keys -> Nat]
  /\ capacity \in Nat \ {0}
  /\ data \in Seq(Contents)
  /\ old \in Seq(Contents)
  /\ lut \in [Slots -> 0 .. Len(data)]
  /\ todo \in Seq(Item)
  /\ count \in Nat /\ tombstones \in Nat
  /\ phase = "ready" <=> old = <<>>

KeyAt(p) == data[lut[p]].key

(* Every used slot leads to an item of its own.                            *)
SlotsLead ==
  /\ \A p \in Slots : lut[p] # Unused => LiveAt(lut[p])
  /\ \A p, q \in Slots : lut[p] # Unused /\ lut[p] = lut[q] => p = q

Reached ==
  \A i \in DOMAIN data : LiveAt(i) => \E p \in Slots : lut[p] = i

(* Every slot that a probe for an item passes is used.                     *)
Unbroken ==
  \A p, q \in Slots :
    lut[p] # Unused /\ Distance(KeyAt(p), q) < Distance(KeyAt(p), p) =>
      lut[q] # Unused

TableInv == SlotsLead /\ Reached /\ Unbroken

(* No key has two items, moved or not.                                     *)
KeysDistinct ==
  /\ \A i, j \in DOMAIN data :
       LiveAt(i) /\ LiveAt(j) /\ data[i].key = data[j].key => i = j
  /\ \A i, j \in DOMAIN old :
       old[i] # Tombstone /\ old[j] # Tombstone /\ old[i].key = old[j].key => i = j
  /\ \A i \in DOMAIN data, j \in DOMAIN old :
       LiveAt(i) /\ old[j] # Tombstone => data[i].key # old[j].key

(* While items move, only items are in the new array.                      *)
Compacting == phase # "ready" => \A i \in DOMAIN data : LiveAt(i)

IInv == Types /\ TableInv /\ KeysDistinct /\ Compacting /\ CountsExact

-----------------------------------------------------------------------------
(* Counting items                                                          *)

(* The items of an array are counted by a natural number.                  *)
LEMMA NumLiveType ==
  ASSUME NEW s \in Seq(Contents)
  PROVE  /\ IsFiniteSet({i \in DOMAIN s : s[i] # Tombstone})
         /\ NumLive(s) \in Nat
<1>1. IsFiniteSet(1 .. Len(s)) /\ {i \in DOMAIN s : s[i] # Tombstone} \in SUBSET (1 .. Len(s))
  BY FS_Interval
<1>2. QED
  BY <1>1, FS_Subset, FS_CardinalityType DEF NumLive

(* An empty array has no items. *)
LEMMA NumLiveEmpty == NumLive(<<>>) = 0
<1>1. {i \in DOMAIN <<>> : <<>>[i] # Tombstone} = {}
  OBVIOUS
<1>2. QED
  BY <1>1, FS_EmptySet DEF NumLive

(* A sequence without tombstones. *)
LEMMA NumLiveAll ==
  ASSUME NEW s \in Seq(Contents), \A i \in DOMAIN s : s[i] # Tombstone
  PROVE  NumLive(s) = Len(s)
<1>1. {i \in DOMAIN s : s[i] # Tombstone} = 1 .. Len(s) /\ Len(s) \in Nat
  OBVIOUS
<1>2. Cardinality(1 .. Len(s)) = Len(s)
  BY <1>1, FS_Interval
<1>3. QED
  BY <1>1, <1>2 DEF NumLive

(* An item added at the end is one more. *)
LEMMA NumLiveAppend ==
  ASSUME NEW s \in Seq(Contents), NEW x \in Item
  PROVE  NumLive(Append(s, x)) = NumLive(s) + 1
<1> DEFINE L == {i \in DOMAIN s : s[i] # Tombstone}
           M == {i \in DOMAIN Append(s, x) : Append(s, x)[i] # Tombstone}
<1>1. M = L \cup {Len(s) + 1}
  <2>1. x # Tombstone
    BY DictAssumption
  <2>2. DOMAIN Append(s, x) = 1 .. Len(s) + 1 /\ DOMAIN s = 1 .. Len(s) /\ Len(s) \in Nat
    OBVIOUS
  <2>3. \A i \in 1 .. Len(s) + 1 : Append(s, x)[i] = IF i = Len(s) + 1 THEN x ELSE s[i]
    OBVIOUS
  <2>4. QED
    BY <2>1, <2>2, <2>3
<1>2. Len(s) + 1 \notin L
  OBVIOUS
<1>3. IsFiniteSet(L)
  BY NumLiveType
<1>4. QED
  BY <1>1, <1>2, <1>3, FS_AddElement DEF NumLive

(* An item turned into a tombstone is one less. *)
LEMMA NumLiveRemove ==
  ASSUME NEW s \in Seq(Contents), NEW n \in DOMAIN s, s[n] # Tombstone
  PROVE  NumLive([s EXCEPT ![n] = Tombstone]) = NumLive(s) - 1
<1> DEFINE L == {i \in DOMAIN s : s[i] # Tombstone}
           t == [s EXCEPT ![n] = Tombstone]
           M == {i \in DOMAIN t : t[i] # Tombstone}
<1>1. M = L \ {n} /\ n \in L
  OBVIOUS
<1>2. IsFiniteSet(L)
  BY NumLiveType
<1>3. QED
  BY <1>1, <1>2, FS_RemoveElement DEF NumLive

(* Taking the first element off. *)
LEMMA NumLiveTail ==
  ASSUME NEW s \in Seq(Contents), s # <<>>
  PROVE  NumLive(Tail(s)) = NumLive(s) - (IF Head(s) # Tombstone THEN 1 ELSE 0)
<1> DEFINE L == {i \in DOMAIN s : s[i] # Tombstone}
           M == {i \in DOMAIN Tail(s) : Tail(s)[i] # Tombstone}
           f == [i \in M |-> i + 1]
<1>1. /\ Len(s) \in Nat \ {0} /\ DOMAIN s = 1 .. Len(s)
      /\ Tail(s) \in Seq(Contents)
      /\ DOMAIN Tail(s) = 1 .. Len(s) - 1
      /\ \A i \in 1 .. Len(s) - 1 : Tail(s)[i] = s[i + 1]
      /\ Head(s) = s[1]
  OBVIOUS
<1>2. M = {i \in 1 .. Len(s) - 1 : s[i + 1] # Tombstone}
  BY <1>1
<1>3. L = {i \in 1 .. Len(s) : s[i] # Tombstone}
  BY <1>1
<1>4. f \in Bijection(M, L \ {1})
  <2>1. f \in [M -> L \ {1}]
    BY <1>1, <1>2, <1>3
  <2>2. \A a, b \in M : f[a] = f[b] => a = b
    BY <1>2
  <2>3. \A b \in L \ {1} : \E a \in M : f[a] = b
    <3>1. TAKE b \in L \ {1}
    <3>2. b - 1 \in M /\ f[b - 1] = b
      BY <1>1, <1>2, <1>3
    <3>3. QED
      BY <3>2
  <2>4. QED
    <3> HIDE DEF f, M, L
    <3>1. QED
      BY <2>1, <2>2, <2>3 DEF Bijection, Injection, Surjection, IsInjective
<1>5. IsFiniteSet(M) /\ IsFiniteSet(L)
  BY <1>1, NumLiveType
<1>6. Cardinality(M) = Cardinality(L \ {1})
  BY <1>4, <1>5, FS_Bijection DEF ExistsBijection
<1>7. 1 \in L <=> Head(s) # Tombstone
  BY <1>1, <1>3
<1>8. NumLive(Tail(s)) = Cardinality(M) /\ NumLive(s) = Cardinality(L)
  BY DEF NumLive
<1>9. Cardinality(L \ {1}) = Cardinality(L) - (IF 1 \in L THEN 1 ELSE 0)
  <2>1. Cardinality(L) \in Nat
    BY <1>5, FS_CardinalityType
  <2> HIDE DEF L
  <2>2. Cardinality(L \ {1}) = IF 1 \in L THEN Cardinality(L) - 1 ELSE Cardinality(L)
    BY <1>5, FS_RemoveElement
  <2>3. QED
    BY <2>1, <2>2
<1> HIDE DEF L, M
<1>10. QED
  BY <1>6, <1>7, <1>8, <1>9

-----------------------------------------------------------------------------
(* Probing                                                                 *)

(* Two slots are never equally far from a home.                            *)
LEMMA DistanceFacts ==
  ASSUME Types, NEW k \in Keys
  PROVE  /\ \A p \in Slots : Distance(k, p) \in Nat
         /\ \A p, q \in Slots : Distance(k, p) = Distance(k, q) => p = q
<1>1. LutCapacity \in Nat \ {0} /\ hash[k] \in Nat
  BY DEF Types, LutCapacity, LutFactor
<1>2. hash[k] % LutCapacity \in 0 .. LutCapacity - 1
  BY <1>1
<1>3. QED
  BY <1>1, <1>2 DEF Distance, Slots

(* The key of an item in the array is a key.                               *)
LEMMA ItemAt ==
  ASSUME Types, NEW i \in DOMAIN data, LiveAt(i)
  PROVE  data[i] \in Item /\ data[i].key \in Keys
  BY DEF Types, LiveAt, Contents, Item

(* A used slot leads to an item whose key is a key.                        *)
LEMMA UsedSlot ==
  ASSUME Types, SlotsLead, NEW p \in Slots, lut[p] # Unused
  PROVE  lut[p] \in DOMAIN data /\ LiveAt(lut[p]) /\ KeyAt(p) \in Keys
<1>1. lut[p] \in 1 .. Len(data) /\ LiveAt(lut[p])
  BY DEF Types, SlotsLead, Unused
<1>2. lut[p] \in DOMAIN data
  BY <1>1 DEF Types
<1>3. QED
  BY <1>1, <1>2, ItemAt DEF KeyAt

(* A probe for a key in the dict ends at the slot of its item.             *)
LEMMA ProbeFinds ==
  ASSUME IInv, NEW i \in DOMAIN data, LiveAt(i), NEW p \in Slots, lut[p] = i
  PROVE  FoundAt(data[i].key, p)
<1> DEFINE k == data[i].key
<1>1. i # Unused
  BY DEF IInv, Types, Unused
<1>2. KeyAt(p) = k /\ k \in Keys
  BY ItemAt DEF IInv, KeyAt
<1>3. Stops(k, p)
  BY DEF Stops
<1>4. ASSUME NEW q \in Slots, Stops(k, q), Distance(k, q) < Distance(k, p)
      PROVE  FALSE
  <2>1. lut[q] # Unused
    BY <1>1, <1>2, <1>4 DEF IInv, TableInv, Unbroken
  <2>2. lut[q] \in DOMAIN data /\ LiveAt(lut[q]) /\ data[lut[q]].key = k
    BY <1>4, <2>1, UsedSlot DEF IInv, TableInv, Stops
  <2>3. lut[q] = i
    BY <2>2 DEF IInv, KeysDistinct
  <2>4. q = p
    BY <1>1, <2>3 DEF IInv, TableInv, SlotsLead
  <2>5. QED
    BY <1>2, <1>4, <2>4, DistanceFacts DEF IInv
<1>5. \A q \in Slots : Stops(k, q) => Distance(k, p) <= Distance(k, q)
  BY <1>2, <1>4, DistanceFacts DEF IInv
<1>6. QED
  BY <1>3, <1>5 DEF FoundAt

(* A probe that ends at an unused slot was for a key not in the dict, and  *)
(* passed used slots only.                                                 *)
LEMMA ProbeFails ==
  ASSUME IInv, NEW k \in Keys, NEW p \in Slots, FoundAt(k, p), lut[p] = Unused
  PROVE  /\ \A i \in DOMAIN data : LiveAt(i) => data[i].key # k
         /\ \A q \in Slots : Distance(k, q) < Distance(k, p) => lut[q] # Unused
<1>1. ASSUME NEW i \in DOMAIN data, LiveAt(i), data[i].key = k
      PROVE  FALSE
  <2>1. PICK q \in Slots : lut[q] = i
    BY <1>1 DEF IInv, TableInv, Reached
  <2>2. FoundAt(k, q)
    BY <1>1, <2>1, ProbeFinds
  <2>3. Distance(k, p) = Distance(k, q)
    BY <2>2, DistanceFacts DEF FoundAt, IInv
  <2>4. p = q
    BY <2>3, DistanceFacts DEF IInv
  <2>5. QED
    BY <2>1, <2>4 DEF IInv, Types, Unused
<1>2. ASSUME NEW q \in Slots, Distance(k, q) < Distance(k, p), lut[q] = Unused
      PROVE  FALSE
  <2>1. Stops(k, q)
    BY <1>2 DEF Stops
  <2>2. QED
    BY <1>2, <2>1, DistanceFacts DEF FoundAt, IInv
<1>3. QED
  BY <1>1, <1>2

-----------------------------------------------------------------------------
(* Steps on the table                                                      *)

(* An item is added behind the others, and the first slot a probe for it   *)
(* finds unused leads to it.                                               *)
LEMMA AddingKeepsTable ==
  ASSUME Types, TableInv, Types',
         NEW x \in Item, NEW p \in Slots, lut[p] = Unused,
         \A q \in Slots : Distance(x.key, q) < Distance(x.key, p) => lut[q] # Unused,
         lut' = [lut EXCEPT ![p] = Len(data) + 1],
         data' = Append(data, x),
         UNCHANGED <<hash, capacity>>
  PROVE  TableInv'
<1> DEFINE n == Len(data) + 1
<1>1. /\ n \in Nat /\ n # Unused
      /\ DOMAIN data = 1 .. Len(data) /\ DOMAIN data' = 1 .. n
      /\ data'[n] = x /\ \A i \in DOMAIN data : data'[i] = data[i]
  BY DEF Types, Unused
<1>2. Slots' = Slots /\ \A k, q : Distance(k, q)' = Distance(k, q)
  BY DEF Slots, LutCapacity, Distance
<1>3. lut'[p] = n /\ \A q \in Slots \ {p} : lut'[q] = lut[q]
  BY DEF Types
<1>4. \A q \in Slots : lut[q] # Unused => lut[q] \in DOMAIN data /\ lut[q] # n
  BY <1>1, UsedSlot DEF TableInv
<1>5. \A q \in Slots : lut[q] # Unused => KeyAt(q)' = KeyAt(q)
  BY <1>1, <1>3, <1>4 DEF KeyAt
<1>6. KeyAt(p)' = x.key
  BY <1>1, <1>3 DEF KeyAt
<1> HIDE DEF n
<1>7. SlotsLead'
  <2>1. x # Tombstone
    BY DictAssumption
  <2>2. \A q \in Slots : lut[q] # Unused => data[lut[q]] # Tombstone
    BY DEF SlotsLead, TableInv, LiveAt
  <2>3. \A q \in Slots : lut'[q] # Unused => data'[lut'[q]] # Tombstone
    BY <1>1, <1>3, <1>4, <2>1, <2>2
  <2>4. \A q, r \in Slots : lut'[q] # Unused /\ lut'[q] = lut'[r] => q = r
    BY <1>3, <1>4 DEF SlotsLead, TableInv
  <2>5. QED
    BY <1>2, <2>3, <2>4 DEF SlotsLead, LiveAt
<1>8. Reached'
  <2>1. \A i \in DOMAIN data' : LiveAt(i)' => \E q \in Slots : lut'[q] = i
    <3>1. TAKE i \in DOMAIN data'
    <3>2. CASE i = n
      BY <1>3, <3>2
    <3>3. CASE i # n
      <4>1. i \in DOMAIN data
        BY <1>1, <3>3 DEF n
      <4>2. i # Unused
        BY <4>1, <1>1 DEF Unused
      <4>3. QED
        BY <1>1, <1>3, <4>1, <4>2 DEF Reached, TableInv, LiveAt
    <3>4. QED
      BY <3>2, <3>3
  <2>2. QED
    BY <1>2, <2>1 DEF Reached
<1>9. Unbroken'
  <2>1. ASSUME NEW a \in Slots, NEW q \in Slots, lut'[a] # Unused,
               Distance(KeyAt(a)', q) < Distance(KeyAt(a)', a)
        PROVE  lut'[q] # Unused
    <3>1. CASE a = p
      BY <1>1, <1>3, <1>6, <2>1, <3>1
    <3>2. CASE a # p
      BY <1>1, <1>3, <1>5, <2>1, <3>2 DEF Unbroken, TableInv
    <3>3. QED
      BY <3>1, <3>2
  <2>2. QED
    BY <1>2, <2>1 DEF Unbroken
<1>10. QED
  BY <1>7, <1>8, <1>9 DEF TableInv

(* An item whose slot nothing was entered past is removed, and its slot    *)
(* emptied.                                                                *)
LEMMA RemovingKeepsTable ==
  ASSUME Types, TableInv,
         NEW p \in Slots, lut[p] # Unused, Unpassed(p),
         \A i, j \in DOMAIN data :
           LiveAt(i) /\ LiveAt(j) /\ data[i].key = data[j].key => i = j,
         lut' = [lut EXCEPT ![p] = Unused],
         data' = Removed(p),
         UNCHANGED <<hash, capacity>>
  PROVE  TableInv'
<1>1. Slots' = Slots /\ \A k, q : Distance(k, q)' = Distance(k, q)
  BY DEF Slots, LutCapacity, Distance
<1>2. lut'[p] = Unused /\ \A q \in Slots \ {p} : lut'[q] = lut[q]
  BY DEF Types
<1>3. /\ DOMAIN data' = DOMAIN data
      /\ \A i \in DOMAIN data \ {lut[p]} : data'[i] = data[i]
      /\ lut[p] \in DOMAIN data => data'[lut[p]] = Tombstone
  BY DEF Types, Removed
<1>4. lut[p] \in DOMAIN data
  BY UsedSlot DEF TableInv
<1>5. \A q \in Slots \ {p} : lut[q] # Unused => lut[q] \in DOMAIN data \ {lut[p]}
  BY UsedSlot DEF TableInv, SlotsLead
<1>6. \A q \in Slots \ {p} : lut[q] # Unused => KeyAt(q)' = KeyAt(q)
  BY <1>2, <1>3, <1>5 DEF KeyAt
<1>7. SlotsLead'
  <2>1. \A q \in Slots : lut'[q] # Unused => data'[lut'[q]] # Tombstone
    BY <1>2, <1>3, <1>5 DEF SlotsLead, TableInv, LiveAt
  <2>2. \A q, r \in Slots : lut'[q] # Unused /\ lut'[q] = lut'[r] => q = r
    BY <1>2 DEF SlotsLead, TableInv
  <2>3. QED
    BY <1>1, <2>1, <2>2 DEF SlotsLead, LiveAt
<1>8. Reached'
  BY <1>1, <1>2, <1>3, <1>4 DEF Reached, TableInv, LiveAt
<1>9. Unbroken'
  <2>1. ASSUME NEW a \in Slots, NEW q \in Slots, lut'[a] # Unused,
               Distance(KeyAt(a)', q) < Distance(KeyAt(a)', a)
        PROVE  lut'[q] # Unused
    <3>1. a # p /\ lut[a] # Unused
      BY <1>2, <2>1
    <3>2. Distance(KeyAt(a), q) < Distance(KeyAt(a), a) /\ lut[q] # Unused
      BY <1>6, <2>1, <3>1 DEF Unbroken, TableInv
    <3>3. Distance(KeyAt(a), a) < Distance(KeyAt(a), p)
      BY <3>1 DEF Unpassed, KeyAt
    <3>4. KeyAt(a) \in Keys
      BY <3>1, UsedSlot DEF TableInv
    <3>5. q # p
      BY <3>2, <3>3, <3>4, DistanceFacts
    <3>6. QED
      BY <1>2, <3>2, <3>5
  <2>2. QED
    BY <1>1, <2>1 DEF Unbroken
<1>10. QED
  BY <1>7, <1>8, <1>9 DEF TableInv

(* The value of an item is replaced. *)
LEMMA ReplacingKeepsTable ==
  ASSUME Types, TableInv, KeysDistinct, Compacting,
         NEW new \in Item, NEW p \in Slots, Replace(new, p),
         UNCHANGED <<hash, capacity, old, phase>>
  PROVE  TableInv' /\ KeysDistinct' /\ Compacting'
<1>1. Slots' = Slots /\ \A k, q : Distance(k, q)' = Distance(k, q)
  BY DEF Slots, LutCapacity, Distance
<1>2. lut[p] # Unused /\ lut' = lut
  BY DEF Replace
<1>3. lut[p] \in DOMAIN data /\ data[lut[p]] \in Item
  BY <1>2, UsedSlot, ItemAt DEF TableInv
<1>4. data' = [data EXCEPT ![lut[p]] = [data[lut[p]] EXCEPT !.val = new.val]]
  BY DEF Replace
<1>5. DOMAIN data' = DOMAIN data
  BY <1>4
<1>6. /\ [data[lut[p]] EXCEPT !.val = new.val] \in Item
      /\ [data[lut[p]] EXCEPT !.val = new.val].key = data[lut[p]].key
  BY <1>3 DEF Item
<1>7. data[lut[p]] # Tombstone /\ [data[lut[p]] EXCEPT !.val = new.val] # Tombstone
  BY <1>3, <1>6, DictAssumption
<1>8. \A i \in DOMAIN data :
        /\ data'[i] # Tombstone <=> data[i] # Tombstone
        /\ data'[i].key = data[i].key
  BY <1>3, <1>4, <1>6, <1>7
<1>9. \A q \in Slots : lut[q] # Unused => lut[q] \in DOMAIN data
  BY UsedSlot DEF TableInv
<1>10. SlotsLead'
  BY <1>1, <1>2, <1>8, <1>9 DEF SlotsLead, TableInv, LiveAt
<1>11. Reached'
  BY <1>1, <1>2, <1>5, <1>8 DEF Reached, TableInv, LiveAt
<1>12. Unbroken'
  BY <1>1, <1>2, <1>8, <1>9 DEF Unbroken, TableInv, KeyAt
<1>13. KeysDistinct'
  BY <1>5, <1>8 DEF KeysDistinct, LiveAt
<1>14. Compacting'
  BY <1>5, <1>8 DEF Compacting, LiveAt
<1>15. QED
  BY <1>10, <1>11, <1>12, <1>13, <1>14 DEF TableInv

(* A new table is empty. *)
LEMMA EmptyTable ==
  ASSUME NEW c \in Nat \ {0}, capacity' = c, lut' = EmptyLut(c), data' = <<>>
  PROVE  /\ TableInv'
         /\ lut' \in [Slots' -> 0 .. Len(data')]
<1>1. Slots' = 0 .. LutFactor * c - 1
  BY DEF Slots, LutCapacity, LutFactor
<1>2. \A p \in Slots' : lut'[p] = Unused
  BY <1>1 DEF EmptyLut
<1>3. lut' \in [Slots' -> 0 .. Len(data')]
  BY <1>1 DEF EmptyLut, Unused
<1>4. QED
  BY <1>2, <1>3 DEF TableInv, SlotsLead, Reached, Unbroken

-----------------------------------------------------------------------------
(* The operations preserve the invariant                                   *)

(* What BeginGrow and the removals that shrink have in common. *)
LEMMA RebuildKeepsInv ==
  ASSUME IInv,
         NEW items \in Seq(Contents), items # <<>>,
         NEW c \in Nat \ {0}, NEW kind, kind # "ready",
         Rebuild(items, c, kind),
         \A i, j \in DOMAIN items :
           items[i] # Tombstone /\ items[j] # Tombstone /\ items[i].key = items[j].key
             => i = j,
         count' \in Nat, count' = NumLive(items),
         tombstones' \in Nat,
         todo' \in Seq(Item),
         UNCHANGED hash
  PROVE  IInv'
<1>1. /\ capacity' = c /\ old' = items /\ data' = <<>>
      /\ lut' = EmptyLut(c) /\ phase' = kind
  BY DEF Rebuild
<1>2. TableInv' /\ lut' \in [Slots' -> 0 .. Len(data')]
  BY <1>1, EmptyTable
<1>3. data' \in Seq(Contents)
  BY <1>1
<1>4. Types'
  BY <1>1, <1>2, <1>3 DEF IInv, Types
<1>5. KeysDistinct'
  BY <1>1 DEF KeysDistinct
<1>6. Compacting'
  BY <1>1 DEF Compacting
<1>7. CountsExact'
  <2>1. NumLive(data)' = NumLive(<<>>) /\ NumLive(old)' = NumLive(items)
    BY <1>1 DEF NumLive
  <2>2. QED
    BY <1>1, <2>1, NumLiveEmpty DEF CountsExact
<1>8. QED
  BY <1>2, <1>4, <1>5, <1>6, <1>7 DEF IInv

(* Between operations every item is in the array.                          *)
LEMMA ReadyCounts ==
  ASSUME IInv, phase = "ready"
  PROVE  /\ count = NumLive(data) /\ NumLive(old) = 0
         /\ count + tombstones = Len(data)
<1>1. old = <<>>
  BY DEF IInv, Types
<1>2. NumLive(old) = 0
  BY <1>1, NumLiveEmpty
<1>3. NumLive(data) \in Nat
  BY NumLiveType DEF IInv, Types
<1>4. QED
  BY <1>2, <1>3 DEF IInv, CountsExact

(* Growing a full dict. *)
LEMMA GrowKeepsInv ==
  ASSUME IInv, phase = "ready", Full, Grow,
         UNCHANGED <<hash, count, tombstones, todo>>
  PROVE  IInv'
<1>1. old = <<>> /\ capacity > 0
  BY DEF IInv, Types
<1>2. Len(data) = capacity /\ data # <<>> /\ data \in Seq(Contents)
  BY <1>1 DEF IInv, Types, CountsExact, Full, Effective
<1>3. count = NumLive(data)
  BY ReadyCounts
<1>4. GrowFactor * capacity \in Nat \ {0}
  BY <1>1 DEF IInv, Types, GrowFactor
<1>5. \A i, j \in DOMAIN data :
        data[i] # Tombstone /\ data[j] # Tombstone /\ data[i].key = data[j].key => i = j
  BY DEF IInv, KeysDistinct, LiveAt
<1>6. Rebuild(data, GrowFactor * capacity, "growing")
  BY DEF Grow
<1>7. count' \in Nat /\ tombstones' \in Nat /\ todo' \in Seq(Item)
  BY DEF IInv, Types
<1>8. QED
  BY <1>2, <1>3, <1>4, <1>5, <1>6, <1>7, RebuildKeepsInv

(* One round of the loops of np_dict_grow and np_dict_shrink.              *)
LEMMA MoveItemKeepsInv == IInv /\ MoveItem => IInv'
<1> SUFFICES ASSUME IInv, MoveItem PROVE IInv'
  OBVIOUS
<1> DEFINE x == Head(old)
<1>1. phase # "ready" /\ old # <<>> /\ old \in Seq(Contents) /\ data \in Seq(Contents)
  BY DEF IInv, Types, MoveItem
<1>2. /\ x \in Contents /\ x = old[1] /\ 1 \in DOMAIN old
      /\ Tail(old) \in Seq(Contents)
      /\ \A i \in DOMAIN Tail(old) : i + 1 \in DOMAIN old /\ Tail(old)[i] = old[i + 1]
      /\ \A i \in DOMAIN Tail(old) : i \in Nat /\ i + 1 # 1
  BY <1>1
<1>3. /\ old' = Tail(old)
      /\ UNCHANGED <<hash, count, capacity, todo>>
      /\ tombstones' \in Nat
      /\ phase' = IF Tail(old) = <<>> THEN "ready" ELSE phase
  BY DEF MoveItem, types, TombstonesAfterMoving, IInv, Types
<1>4. NumLive(old)' = NumLive(Tail(old))
  BY <1>3 DEF NumLive
<1>5. NumLive(Tail(old)) \in Nat /\ NumLive(old) \in Nat /\ NumLive(data) \in Nat
  BY <1>1, <1>2, NumLiveType
<1>6. NumLive(Tail(old)) = NumLive(old) - (IF x # Tombstone THEN 1 ELSE 0)
  BY <1>1, NumLiveTail
<1>7. count = NumLive(data) + NumLive(old)
  BY DEF IInv, CountsExact
<1>8. CASE x # Tombstone
  <2>1. PICK p \in Slots :
          /\ FreeAt(x.key, p)
          /\ lut' = [lut EXCEPT ![p] = Len(data) + 1]
          /\ data' = Append(data, x)
    BY <1>8 DEF MoveItem
  <2>2. x \in Item /\ x.key \in Keys
    BY <1>2, <1>8 DEF Contents, Item
  <2>3. data' \in Seq(Contents) /\ Len(data') = Len(data) + 1
    BY <1>1, <1>2, <2>1
  <2>4. Slots' = Slots
    BY <1>3 DEF Slots, LutCapacity
  <2>5. Types'
    <3>1. lut' \in [Slots' -> 0 .. Len(data')]
      BY <1>1, <2>1, <2>3, <2>4 DEF IInv, Types
    <3>2. phase' = "ready" <=> old' = <<>>
      BY <1>1, <1>3
    <3>3. QED
      BY <1>2, <1>3, <2>3, <3>1, <3>2 DEF IInv, Types
  <2>6. TableInv'
    <3>1. lut[p] = Unused
      BY <2>1 DEF FreeAt
    <3>2. \A q \in Slots : Distance(x.key, q) < Distance(x.key, p) => lut[q] # Unused
      BY <2>1, <2>2, DistanceFacts DEF FreeAt, IInv
    <3>3. QED
      BY <1>3, <2>1, <2>2, <2>5, <3>1, <3>2, AddingKeepsTable DEF IInv
  <2>7. /\ DOMAIN data' = 1 .. Len(data) + 1 /\ DOMAIN data = 1 .. Len(data)
        /\ data'[Len(data) + 1] = x
        /\ \A i \in DOMAIN data : data'[i] = data[i]
        /\ Len(data) \in Nat
    BY <1>1, <2>1
  <2>8. KeysDistinct'
    <3>1. \A i \in DOMAIN data : LiveAt(i) => data[i].key # x.key
      BY <1>2, <1>8 DEF IInv, KeysDistinct
    <3>2. \A i \in DOMAIN Tail(old) :
            Tail(old)[i] # Tombstone => Tail(old)[i].key # x.key
      BY <1>2, <1>8 DEF IInv, KeysDistinct
    <3>3. \A i, j \in DOMAIN data' :
            data'[i] # Tombstone /\ data'[j] # Tombstone /\ data'[i].key = data'[j].key
              => i = j
      BY <2>7, <3>1 DEF IInv, KeysDistinct, LiveAt
    <3>4. \A i, j \in DOMAIN Tail(old) :
            Tail(old)[i] # Tombstone /\ Tail(old)[j] # Tombstone
              /\ Tail(old)[i].key = Tail(old)[j].key => i = j
      <4>1. TAKE i, j \in DOMAIN Tail(old)
      <4>2. HAVE Tail(old)[i] # Tombstone /\ Tail(old)[j] # Tombstone
                 /\ Tail(old)[i].key = Tail(old)[j].key
      <4>3. i + 1 = j + 1
        BY <1>2, <4>2 DEF IInv, KeysDistinct
      <4>4. QED
        BY <1>2, <4>3
    <3>5. \A i \in DOMAIN data', j \in DOMAIN Tail(old) :
            data'[i] # Tombstone /\ Tail(old)[j] # Tombstone =>
              data'[i].key # Tail(old)[j].key
      BY <1>2, <2>7, <3>2 DEF IInv, KeysDistinct, LiveAt
    <3>6. QED
      BY <1>3, <3>3, <3>4, <3>5 DEF KeysDistinct, LiveAt
  <2>9. \A i \in DOMAIN data' : data'[i] # Tombstone
    BY <1>1, <1>8, <2>7 DEF IInv, Compacting, LiveAt
  <2>10. Compacting'
    BY <2>9 DEF Compacting, LiveAt
  <2>11. CountsExact'
    <3>1. NumLive(data)' = NumLive(data) + 1
      BY <1>1, <2>1, <2>2, NumLiveAppend DEF NumLive
    <3>2. count' = NumLive(data)' + NumLive(old)'
      BY <1>3, <1>4, <1>5, <1>6, <1>7, <1>8, <3>1
    <3>3. ASSUME phase' = "ready" PROVE count' + tombstones' = Len(data')
      <4>1. old' = <<>> /\ tombstones' = 0
        BY <1>1, <1>3, <3>3 DEF MoveItem, TombstonesAfterMoving
      <4>2. NumLive(old)' = 0
        BY <4>1, NumLiveEmpty DEF NumLive
      <4>3. NumLive(data)' = Len(data')
        BY <2>3, <2>9, NumLiveAll DEF NumLive
      <4>4. QED
        BY <1>5, <2>3, <3>1, <3>2, <4>1, <4>2, <4>3
    <3>4. QED
      BY <3>2, <3>3 DEF CountsExact
  <2>12. QED
    BY <2>5, <2>6, <2>8, <2>10, <2>11 DEF IInv
<1>9. CASE x = Tombstone
  <2>1. UNCHANGED <<lut, data>>
    BY <1>9 DEF MoveItem
  <2>2. Types'
    <3>1. phase' = "ready" <=> old' = <<>>
      BY <1>1, <1>3
    <3>2. Slots' = Slots
      BY <1>3 DEF Slots, LutCapacity
    <3>3. QED
      BY <1>2, <1>3, <2>1, <3>1, <3>2 DEF IInv, Types
  <2>3. TableInv'
    BY <1>3, <2>1 DEF IInv, TableInv, SlotsLead, Reached, Unbroken, LiveAt, KeyAt,
                      Distance, Slots, LutCapacity
  <2>4. KeysDistinct'
    <3>1. \A i, j \in DOMAIN Tail(old) :
            Tail(old)[i] # Tombstone /\ Tail(old)[j] # Tombstone
              /\ Tail(old)[i].key = Tail(old)[j].key => i = j
      <4>1. TAKE i, j \in DOMAIN Tail(old)
      <4>2. HAVE Tail(old)[i] # Tombstone /\ Tail(old)[j] # Tombstone
                 /\ Tail(old)[i].key = Tail(old)[j].key
      <4>3. i + 1 = j + 1
        BY <1>2, <4>2 DEF IInv, KeysDistinct
      <4>4. QED
        BY <1>2, <4>3
    <3>2. \A i \in DOMAIN data, j \in DOMAIN Tail(old) :
            LiveAt(i) /\ Tail(old)[j] # Tombstone => data[i].key # Tail(old)[j].key
      BY <1>2 DEF IInv, KeysDistinct
    <3>3. QED
      BY <1>3, <2>1, <3>1, <3>2 DEF IInv, KeysDistinct, LiveAt
  <2>5. Compacting'
    BY <1>1, <2>1 DEF IInv, Compacting, LiveAt
  <2>6. CountsExact'
    <3>1. NumLive(data)' = NumLive(data)
      BY <2>1 DEF NumLive
    <3>2. count' = NumLive(data)' + NumLive(old)'
      BY <1>3, <1>4, <1>5, <1>6, <1>7, <1>9, <3>1
    <3>3. ASSUME phase' = "ready" PROVE count' + tombstones' = Len(data')
      <4>1. old' = <<>> /\ tombstones' = 0
        BY <1>1, <1>3, <3>3 DEF MoveItem, TombstonesAfterMoving
      <4>2. NumLive(old)' = 0
        BY <4>1, NumLiveEmpty DEF NumLive
      <4>3. \A i \in DOMAIN data : data[i] # Tombstone
        BY <1>1 DEF IInv, Compacting, LiveAt
      <4>4. NumLive(data) = Len(data)
        BY <1>1, <4>3, NumLiveAll
      <4>5. QED
        BY <1>1, <1>5, <2>1, <3>1, <3>2, <4>1, <4>2, <4>4
    <3>4. QED
      BY <3>2, <3>3 DEF CountsExact
  <2>7. QED
    BY <2>2, <2>3, <2>4, <2>5, <2>6 DEF IInv
<1>10. QED
  BY <1>8, <1>9

(* A new key is entered. *)
LEMMA EnterKeepsInv ==
  ASSUME IInv, phase = "ready", NEW new \in Item, NEW p \in Slots,
         FoundAt(new.key, p), Enter(new, p),
         todo' \in Seq(Item),
         UNCHANGED <<hash, tombstones, capacity, old, phase>>
  PROVE  IInv'
<1>1. /\ data \in Seq(Contents) /\ old = <<>> /\ Len(data) \in Nat
      /\ new \in Contents /\ new.key \in Keys /\ new # Tombstone
  BY DictAssumption DEF IInv, Types, Contents, Item
<1>2. /\ lut[p] = Unused
      /\ lut' = [lut EXCEPT ![p] = Len(data) + 1]
      /\ data' = Append(data, new)
      /\ count' = count + 1
  BY ReadyCounts DEF Enter, EnteredIndex, Effective
<1>3. /\ data' \in Seq(Contents) /\ Len(data') = Len(data) + 1
      /\ DOMAIN data' = 1 .. Len(data) + 1 /\ DOMAIN data = 1 .. Len(data)
      /\ data'[Len(data) + 1] = new
      /\ \A i \in DOMAIN data : data'[i] = data[i]
  BY <1>1, <1>2
<1>4. Types'
  <2>1. Slots' = Slots
    BY DEF Slots, LutCapacity
  <2>2. lut' \in [Slots' -> 0 .. Len(data')]
    BY <1>1, <1>2, <1>3, <2>1 DEF IInv, Types
  <2>3. QED
    BY <1>2, <1>3, <2>2 DEF IInv, Types
<1>5. /\ \A i \in DOMAIN data : LiveAt(i) => data[i].key # new.key
      /\ \A q \in Slots : Distance(new.key, q) < Distance(new.key, p) => lut[q] # Unused
  BY <1>1, <1>2, ProbeFails
<1>6. TableInv'
  BY <1>2, <1>4, <1>5, AddingKeepsTable DEF IInv
<1>7. KeysDistinct'
  <2>1. \A i, j \in DOMAIN data' :
          data'[i] # Tombstone /\ data'[j] # Tombstone /\ data'[i].key = data'[j].key
            => i = j
    BY <1>3, <1>5 DEF IInv, KeysDistinct, LiveAt
  <2>2. DOMAIN old' = {}
    BY <1>1
  <2>3. QED
    BY <2>1, <2>2 DEF KeysDistinct, LiveAt
<1>8. Compacting'
  BY DEF Compacting
<1>9. CountsExact'
  <2>1. NumLive(data)' = NumLive(data) + 1 /\ NumLive(old)' = NumLive(old)
    BY <1>1, <1>2, NumLiveAppend DEF NumLive
  <2>2. NumLive(data) \in Nat
    BY <1>1, NumLiveType
  <2>3. count' = NumLive(data)' + NumLive(old)'
    BY <1>2, <2>1, <2>2, ReadyCounts
  <2>4. count' + tombstones' = Len(data')
    <3>1. count \in Nat /\ tombstones \in Nat /\ tombstones' = tombstones
      BY DEF IInv, Types
    <3>2. count + tombstones = Len(data)
      BY ReadyCounts
    <3>3. QED
      BY <1>1, <1>2, <1>3, <3>1, <3>2
  <2>5. QED
    BY <2>3, <2>4 DEF CountsExact
<1>10. QED
  BY <1>4, <1>6, <1>7, <1>8, <1>9 DEF IInv

(* The value of a key is replaced. *)
LEMMA ReplaceKeepsInv ==
  ASSUME IInv, phase = "ready", NEW new \in Item, NEW p \in Slots,
         Replace(new, p),
         todo' \in Seq(Item),
         UNCHANGED <<hash, tombstones, capacity, old, phase>>
  PROVE  IInv'
<1>1. TableInv' /\ KeysDistinct' /\ Compacting'
  BY ReplacingKeepsTable DEF IInv
<1>2. lut[p] # Unused /\ lut' = lut /\ count' = count
  BY DEF Replace
<1>3. lut[p] \in DOMAIN data /\ data[lut[p]] \in Item /\ data \in Seq(Contents)
  BY <1>2, UsedSlot, ItemAt DEF IInv, Types, TableInv
<1> DEFINE x == [data[lut[p]] EXCEPT !.val = new.val]
<1>4. x \in Item /\ x \in Contents /\ x # Tombstone /\ data[lut[p]] # Tombstone
  BY <1>3, DictAssumption DEF Item, Contents
<1>5. data' = [data EXCEPT ![lut[p]] = x]
  BY DEF Replace
<1> HIDE DEF x
<1>6. /\ data' \in Seq(Contents) /\ Len(data') = Len(data) /\ DOMAIN data' = DOMAIN data
      /\ \A i \in DOMAIN data : data'[i] # Tombstone <=> data[i] # Tombstone
  BY <1>3, <1>4, <1>5
<1>7. Types'
  <2>1. Slots' = Slots
    BY DEF Slots, LutCapacity
  <2>2. QED
    BY <1>2, <1>6, <2>1 DEF IInv, Types
<1>8. CountsExact'
  <2>1. {i \in DOMAIN data' : data'[i] # Tombstone} = {i \in DOMAIN data : data[i] # Tombstone}
    BY <1>6
  <2>2. NumLive(data)' = NumLive(data) /\ NumLive(old)' = NumLive(old)
    BY <2>1 DEF NumLive
  <2>3. QED
    BY <1>2, <1>6, <2>2 DEF IInv, CountsExact
<1>9. QED
  BY <1>1, <1>7, <1>8 DEF IInv

(* np_dict_set_item, once the dict has grown. *)
LEMMA SetItemKeepsInv == IInv /\ SetItem => IInv'
<1> SUFFICES ASSUME IInv, SetItem PROVE IInv'
  OBVIOUS
<1>1. /\ phase = "ready" /\ todo # <<>>
      /\ UNCHANGED <<hash, tombstones, capacity, old, phase>>
  BY DEF SetItem, Busy, types
<1>2. Head(todo) \in Item /\ todo' \in Seq(Item)
  <2>1. todo \in Seq(Item)
    BY DEF IInv, Types
  <2>2. QED
    BY <1>1, <2>1 DEF SetItem
<1>3. PICK p \in Slots :
        /\ FoundAt(Head(todo).key, p)
        /\ Enter(Head(todo), p) \/ Replace(Head(todo), p)
  BY DEF SetItem
<1>4. CASE Enter(Head(todo), p)
  BY <1>1, <1>2, <1>3, <1>4, EnterKeepsInv
<1>5. CASE Replace(Head(todo), p)
  BY <1>1, <1>2, <1>5, ReplaceKeepsInv
<1>6. QED
  BY <1>3, <1>4, <1>5

(* A careful program removes an item. *)
LEMMA RemoveAtKeepsInv ==
  ASSUME IInv, Careful, phase = "ready", NEW p \in Slots,
         lut[p] # Unused, RemoveAt(p),
         UNCHANGED <<hash, todo>>
  PROVE  IInv'
<1>1. lut[p] \in DOMAIN data /\ data[lut[p]] # Tombstone /\ data \in Seq(Contents)
  BY UsedSlot DEF IInv, Types, TableInv, LiveAt
<1>2. /\ Removed(p) = [data EXCEPT ![lut[p]] = Tombstone]
      /\ Removed(p) \in Seq(Contents)
      /\ DOMAIN Removed(p) = DOMAIN data /\ Len(Removed(p)) = Len(data)
      /\ Removed(p) # <<>>
      /\ \A i \in DOMAIN data : Removed(p)[i] = IF i = lut[p] THEN Tombstone ELSE data[i]
  <2>1. Tombstone \in Contents
    BY DEF Contents
  <2>2. QED
    BY <1>1, <2>1 DEF Removed
<1>3. NumLive(Removed(p)) = NumLive(data) - 1 /\ NumLive(Removed(p)) \in Nat
  BY <1>1, <1>2, NumLiveRemove, NumLiveType
<1>4. count' = NumLive(Removed(p)) /\ count' \in Nat
  BY <1>3, ReadyCounts DEF RemoveAt
<1>5. tombstones' = tombstones + 1 /\ tombstones' \in Nat
  BY DEF RemoveAt, IInv, Types
<1>6. \A i, j \in DOMAIN data :
        LiveAt(i) /\ LiveAt(j) /\ data[i].key = data[j].key => i = j
  BY DEF IInv, KeysDistinct
<1>7. \A i, j \in DOMAIN Removed(p) :
        Removed(p)[i] # Tombstone /\ Removed(p)[j] # Tombstone
          /\ Removed(p)[i].key = Removed(p)[j].key => i = j
  BY <1>2, <1>6 DEF LiveAt
<1>8. todo' \in Seq(Item)
  BY DEF IInv, Types
<1>9. CASE Rebuild(Removed(p), Smaller, "shrinking")
  <2>1. Smaller \in Nat \ {0}
    BY DictAssumption DEF Smaller, IInv, Types
  <2>2. QED
    BY <1>2, <1>4, <1>5, <1>7, <1>8, <1>9, <2>1, RebuildKeepsInv
<1>10. CASE /\ Unpassed(p)
            /\ data' = Removed(p)
            /\ lut' = [lut EXCEPT ![p] = Unused]
            /\ UNCHANGED <<capacity, room, old, phase>>
  <2>1. TableInv'
    BY <1>6, <1>10, RemovingKeepsTable DEF IInv
  <2>2. Types'
    <3>1. Slots' = Slots
      BY <1>10 DEF Slots, LutCapacity
    <3>2. lut' \in [Slots' -> 0 .. Len(data')]
      BY <1>1, <1>2, <1>10, <3>1 DEF IInv, Types, Unused
    <3>3. QED
      BY <1>2, <1>4, <1>5, <1>8, <1>10, <3>2 DEF IInv, Types
  <2>3. KeysDistinct'
    <3>1. DOMAIN old' = {}
      BY <1>10 DEF IInv, Types
    <3>2. QED
      BY <1>7, <1>10, <3>1 DEF KeysDistinct, LiveAt
  <2>4. Compacting'
    BY <1>10 DEF Compacting
  <2>5. CountsExact'
    <3>1. NumLive(data)' = NumLive(Removed(p)) /\ NumLive(old)' = 0
      BY <1>10, ReadyCounts DEF NumLive
    <3>2. count' = count - 1
      BY DEF RemoveAt
    <3>3. count \in Nat /\ tombstones \in Nat
      BY DEF IInv, Types
    <3>4. count + tombstones = Len(data)
      BY ReadyCounts
    <3>5. count' + tombstones' = Len(data')
      BY <1>2, <1>5, <1>10, <3>2, <3>3, <3>4
    <3>6. QED
      BY <1>4, <3>1, <3>5 DEF CountsExact
  <2>6. QED
    BY <2>1, <2>2, <2>3, <2>4, <2>5 DEF IInv
<1>11. QED
  BY <1>9, <1>10 DEF RemoveAt

(* np_dict_clear leaves an empty dict of the smallest capacity.            *)
LEMMA ClearKeepsInv == IInv /\ Clear => IInv'
<1> SUFFICES ASSUME IInv, Clear PROVE IInv'
  OBVIOUS
<1>1. /\ phase = "ready" /\ phase' = phase /\ old = <<>> /\ old' = old
      /\ data' = <<>> /\ count' = 0 /\ tombstones' = 0
      /\ capacity' = MinCapacity /\ lut' = EmptyLut(MinCapacity)
      /\ hash' = hash /\ todo' = todo
  BY DEF Clear, Idle, types, IInv, Types
<1>2. TableInv' /\ lut' \in [Slots' -> 0 .. Len(data')]
  BY <1>1, EmptyTable, DictAssumption
<1>3. Types'
  BY <1>1, <1>2, DictAssumption DEF IInv, Types
<1>4. KeysDistinct' /\ Compacting'
  BY <1>1 DEF KeysDistinct, Compacting
<1>5. CountsExact'
  BY <1>1, NumLiveEmpty DEF CountsExact, NumLive
<1>6. QED
  BY <1>2, <1>3, <1>4, <1>5 DEF IInv

(* Whatever leaves the table alone. *)
LEMMA SameTable ==
  ASSUME IInv,
         UNCHANGED <<hash, data, lut, count, tombstones, capacity, old, phase>>,
         todo' \in Seq(Item)
  PROVE  IInv'
<1>1. Types'
  BY DEF IInv, Types, Slots, LutCapacity
<1>2. TableInv'
  BY DEF IInv, TableInv, SlotsLead, Reached, Unbroken, LiveAt, KeyAt, Distance,
         Slots, LutCapacity
<1>3. KeysDistinct' /\ Compacting' /\ CountsExact'
  BY DEF IInv, KeysDistinct, Compacting, CountsExact, LiveAt, NumLive
<1>4. QED
  BY <1>1, <1>2, <1>3 DEF IInv

(* A new dict. *)
LEMMA InitInv == Init => IInv
<1> SUFFICES ASSUME Init PROVE IInv
  OBVIOUS
<1>1. /\ data = <<>> /\ old = <<>> /\ todo = <<>> /\ phase = "ready"
      /\ count = 0 /\ tombstones = 0 /\ capacity = MinCapacity
      /\ lut = EmptyLut(MinCapacity) /\ hash \in [Keys -> Nat]
  BY DictAssumption DEF Init
<1>2. Slots = 0 .. LutFactor * MinCapacity - 1
  BY <1>1 DEF Slots, LutCapacity
<1>3. lut \in [Slots -> 0 .. Len(data)] /\ \A p \in Slots : lut[p] = Unused
  BY <1>1, <1>2 DEF EmptyLut, Unused
<1>4. Types
  BY <1>1, <1>3, DictAssumption DEF Types
<1>5. TableInv
  BY <1>1, <1>3 DEF TableInv, SlotsLead, Reached, Unbroken
<1>6. KeysDistinct /\ Compacting
  BY <1>1 DEF KeysDistinct, Compacting
<1>7. CountsExact
  BY <1>1, NumLiveEmpty DEF CountsExact
<1>8. QED
  BY <1>4, <1>5, <1>6, <1>7 DEF IInv

(* np_dict_pop_val and np_dict_del of a key in the dict.                   *)
LEMMA RemovalKeepsInv ==
  ASSUME IInv, Careful, NEW k \in Keys, Pop(k) \/ Del(k)
  PROVE  IInv'
<1>1. /\ phase = "ready" /\ UNCHANGED <<hash, todo>>
      /\ \E p \in Slots : lut[p] # Unused /\ RemoveAt(p)
  BY DEF Pop, Del, Idle, types
<1>2. PICK p \in Slots : lut[p] # Unused /\ RemoveAt(p)
  BY <1>1
<1>3. QED
  BY <1>1, <1>2, RemoveAtKeepsInv

(* Every step of a careful program keeps the invariant.                    *)
LEMMA NextKeepsInv == Careful /\ IInv /\ [Next]_vars => IInv'
<1> SUFFICES ASSUME Careful, IInv, [Next]_vars PROVE IInv'
  OBVIOUS
<1>0. todo \in Seq(Item)
  BY DEF IInv, Types
<1>1. CASE UNCHANGED vars
  BY <1>0, <1>1, SameTable DEF vars, types, table
<1>2. ASSUME NEW k \in Keys, OnKey(k) PROVE IInv'
  <2>1. CASE GetItem(k)
    BY <1>0, <2>1, SameTable DEF GetItem, types, table
  <2>2. CASE GetAbsent(k)
    BY <1>0, <2>2, SameTable DEF GetAbsent, Fail, types, table
  <2>3. CASE Pop(k) \/ Del(k)
    BY <2>3, RemovalKeepsInv
  <2>4. CASE PopAbsent(k)
    BY <1>0, <2>4, SameTable DEF PopAbsent, Fail, types, table
  <2>5. CASE DelAbsent(k)
    BY <1>0, <2>5, SameTable DEF DelAbsent, Fail, types, table
  <2>6. QED
    BY <1>2, <2>1, <2>2, <2>3, <2>4, <2>5 DEF OnKey
<1>3. ASSUME NEW new \in Assignments, CallSetItem(new) PROVE IInv'
  <2>1. todo' \in Seq(Item)
    BY <1>3, DictAssumption DEF CallSetItem
  <2>2. QED
    BY <1>3, <2>1, SameTable DEF CallSetItem, types, table
<1>4. ASSUME NEW items \in Others, Update(items) PROVE IInv'
  <2>1. todo' \in Seq(Item)
    BY <1>4, DictAssumption DEF Update
  <2>2. QED
    BY <1>4, <2>1, SameTable DEF Update, types, table
<1>5. CASE UpdateSelf
  <2>1. CASE Grow /\ UNCHANGED <<hash, count, tombstones, todo>>
    <3>1. phase = "ready" /\ Full
      BY <1>5 DEF UpdateSelf, Idle
    <3>2. QED
      BY <2>1, <3>1, GrowKeepsInv
  <2>2. CASE UNCHANGED <<types, table, todo>>
    BY <1>0, <2>2, SameTable DEF types, table
  <2>3. QED
    BY <1>5, <2>1, <2>2 DEF UpdateSelf, types
<1>6. CASE SetItem
  BY <1>6, SetItemKeepsInv
<1>7. CASE EnterOutside
  BY <1>0, <1>7, SameTable DEF EnterOutside, types, table
<1>8. CASE BeginGrow
  BY <1>8, GrowKeepsInv DEF BeginGrow, Busy, types
<1>9. CASE MoveItem
  BY <1>9, MoveItemKeepsInv
<1>10. CASE MoveOutside
  BY <1>0, <1>10, SameTable DEF MoveOutside, types, table
<1>11. CASE Clear
  BY <1>11, ClearKeepsInv
<1>12. CASE Copy
  BY <1>0, <1>12, SameTable DEF Copy, types
<1>13. CASE Iterate \/ ItemsNext \/ Exhausted
  BY <1>0, <1>13, SameTable DEF Iterate, ItemsNext, Exhausted, types, table
<1>14. QED
  BY <1>1, <1>2, <1>3, <1>4, <1>5, <1>6, <1>7, <1>8, <1>9, <1>10, <1>11, <1>12, <1>13
     DEF Next

-----------------------------------------------------------------------------
(* Theorems                                                                *)

(* The table, the array and the counters fit together after every step of  *)
(* a program that removes only what no other key was entered past.         *)
THEOREM DictInvariant == ASSUME Careful PROVE Spec => []IInv
<1>1. Init => IInv
  BY InitInv
<1>2. IInv /\ [Next]_vars => IInv'
  BY NextKeepsInv
<1>3. QED
  BY <1>1, <1>2, PTL DEF Spec

(* In such a program np_dict_find_lut_location finds every key that was    *)
(* set and not removed, whatever the hashes and however the dict grows and *)
(* shrinks.                                                                *)
THEOREM KeysStayFound == ASSUME Careful PROVE Spec => []KeysFound
<1>1. IInv => KeysFound
  <2>1. SUFFICES ASSUME IInv, NEW i \in DOMAIN data, LiveAt(i)
                 PROVE  \E p \in Slots : lut[p] = i /\ FoundAt(data[i].key, p)
    BY DEF KeysFound
  <2>2. PICK p \in Slots : lut[p] = i
    BY <2>1 DEF IInv, TableInv, Reached
  <2>3. QED
    BY <2>1, <2>2, ProbeFinds
<1>2. QED
  BY <1>1, DictInvariant, PTL

(* count and tombstone_count are what the array holds, through every       *)
(* removal, compaction and resize.                                         *)
THEOREM CountsStayExact == ASSUME Careful PROVE Spec => []CountsExact
<1>1. IInv => CountsExact
  BY DEF IInv
<1>2. QED
  BY <1>1, DictInvariant, PTL

-----------------------------------------------------------------------------
(***************************************************************************)
(* The array: the items and the iterators stay inside the array and its    *)
(* allocation.                                                             *)
(***************************************************************************)

-----------------------------------------------------------------------------
(* The allocation                                                          *)

(* What was allocated never exceeds what the capacity says, and has room   *)
(* for the array.                                                          *)
Sizes ==
  /\ itemSize \in ItemSizes
  /\ capacity >= MinCapacity
  /\ room \in 0 .. capacity
  /\ Len(data) <= room

(* The types that the invariant of the table leaves out.                   *)
OtherTypes ==
  /\ hash \in Hashes
  /\ phase \in {"ready", "growing", "shrinking"}
  /\ iter \in [yielded : Nat, at : Nat]
  /\ result \in Item \cup {None, KeyError}
  /\ status \in {"running", "undefined"}

(* Growing and shrinking allocate PointerSize bytes for an item, which is  *)
(* no more than it takes.                                                  *)
LEMMA RoomAfterRebuild ==
  ASSUME NEW P \in Nat, NEW c \in Nat, NEW n \in Nat \ {0}, P <= n
  PROVE  (P * c) \div n \in 0 .. c
<1> DEFINE q == (P * c) \div n
<1>1. P * c \in Nat /\ P * c <= n * c
  BY SMT
<1>2. q \in Nat /\ n * q <= P * c
  BY <1>1, SMT
<1> HIDE DEF q
<1>3. n * q <= n * c
  BY <1>1, <1>2, SMT
<1>4. q <= c
  BY <1>2, <1>3, SMT
<1>5. q \in 0 .. c
  BY <1>2, <1>4
<1>6. QED
  BY <1>5 DEF q

LEMMA RebuildKeepsSizes ==
  ASSUME Sizes, NEW items, NEW kind, NEW c \in Nat, c >= MinCapacity,
         Rebuild(items, c, kind), UNCHANGED itemSize
  PROVE  Sizes'
<1>1. itemSize \in Nat \ {0} /\ PointerSize \in Nat /\ PointerSize <= itemSize
  BY DictAssumption DEF Sizes
<1>2. (PointerSize * c) \div itemSize \in 0 .. c
  BY <1>1, RoomAfterRebuild
<1>3. room' = (PointerSize * c) \div itemSize /\ capacity' = c /\ data' = <<>>
  BY DEF Rebuild
<1>4. Len(data') = 0
  BY <1>3
<1>5. room' \in 0 .. c
  BY <1>2, <1>3
<1>6. QED
  BY <1>3, <1>4, <1>5 DEF Sizes

LEMMA GrowKeepsSizes ==
  ASSUME IInv, Sizes, Grow, UNCHANGED itemSize
  PROVE  Sizes'
<1>1. GrowFactor * capacity \in Nat /\ GrowFactor * capacity >= MinCapacity
  BY DictAssumption DEF IInv, Types, Sizes, GrowFactor
<1>2. Rebuild(data, GrowFactor * capacity, "growing")
  BY DEF Grow
<1>3. QED
  BY <1>1, <1>2, RebuildKeepsSizes

LEMMA RemoveAtKeepsSizes ==
  ASSUME IInv, Sizes, NEW p \in Slots, lut[p] # Unused, RemoveAt(p),
         UNCHANGED itemSize
  PROVE  Sizes'
<1>1. CASE Rebuild(Removed(p), Smaller, "shrinking")
  <2>1. Smaller \in Nat /\ Smaller >= MinCapacity
    BY DictAssumption DEF Smaller, IInv, Types
  <2>2. QED
    BY <1>1, <2>1, RebuildKeepsSizes
<1>2. CASE data' = Removed(p) /\ UNCHANGED <<capacity, room>>
  <2>1. data \in Seq(Contents) /\ lut[p] \in DOMAIN data
    BY UsedSlot DEF IInv, Types, TableInv
  <2>2. Tombstone \in Contents
    BY DEF Contents
  <2>3. Len(Removed(p)) = Len(data)
    BY <2>1, <2>2 DEF Removed
  <2>4. QED
    BY <1>2, <2>3 DEF Sizes
<1>3. QED
  BY <1>1, <1>2 DEF RemoveAt

LEMMA MoveItemKeepsSizes ==
  ASSUME IInv, Sizes, MoveItem
  PROVE  Sizes'
<1>1. UNCHANGED <<itemSize, capacity, room>> /\ old \in Seq(Contents) /\ data \in Seq(Contents)
  BY DEF MoveItem, types, IInv, Types
<1>2. CASE Head(old) # Tombstone
  <2>1. Len(data) < room /\ data' = Append(data, Head(old))
    BY <1>2 DEF MoveItem, MovesInside
  <2>2. Len(data') = Len(data) + 1 /\ Len(data) \in Nat
    BY <1>1, <2>1
  <2>3. QED
    BY <1>1, <2>1, <2>2 DEF Sizes, IInv, Types
<1>3. CASE Head(old) = Tombstone
  BY <1>1, <1>3 DEF MoveItem, Sizes
<1>4. QED
  BY <1>2, <1>3

LEMMA SetItemKeepsSizes ==
  ASSUME IInv, Sizes, SetItem
  PROVE  Sizes'
<1>1. UNCHANGED <<itemSize, capacity, room>> /\ data \in Seq(Contents) /\ phase = "ready"
  BY DEF SetItem, Busy, types, IInv, Types
<1>2. PICK p \in Slots : Enter(Head(todo), p) \/ Replace(Head(todo), p)
  BY DEF SetItem
<1>3. CASE Enter(Head(todo), p)
  <2>1. Effective < room /\ Effective = Len(data) /\ data' = Append(data, Head(todo))
    BY <1>1, <1>3, ReadyCounts DEF Enter, Effective
  <2>2. Len(data') = Len(data) + 1 /\ Len(data) \in Nat
    BY <1>1, <2>1
  <2>3. QED
    BY <1>1, <2>1, <2>2 DEF Sizes, IInv, Types
<1>4. CASE Replace(Head(todo), p)
  <2>1. lut[p] \in DOMAIN data
    BY <1>4, UsedSlot DEF IInv, TableInv, Replace
  <2>2. Len(data') = Len(data)
    BY <1>1, <1>4, <2>1 DEF Replace
  <2>3. QED
    BY <1>1, <2>2 DEF Sizes
<1>5. QED
  BY <1>2, <1>3, <1>4

LEMMA NextKeepsSizes == IInv /\ Sizes /\ [Next]_vars => Sizes'
<1> SUFFICES ASSUME IInv, Sizes, [Next]_vars PROVE Sizes'
  OBVIOUS
<1>1. CASE UNCHANGED <<itemSize, capacity, room, data>>
  BY <1>1 DEF Sizes
<1>2. ASSUME NEW k \in Keys, OnKey(k) PROVE Sizes'
  <2>1. CASE Pop(k) \/ Del(k)
    <3>1. PICK p \in Slots : lut[p] # Unused /\ RemoveAt(p)
      BY <2>1 DEF Pop, Del
    <3>2. UNCHANGED itemSize
      BY <2>1 DEF Pop, Del, types
    <3>3. QED
      BY <3>1, <3>2, RemoveAtKeepsSizes
  <2>2. CASE ~(Pop(k) \/ Del(k))
    BY <1>1, <1>2, <2>2 DEF OnKey, GetItem, GetAbsent, PopAbsent, DelAbsent, Fail, types, table
  <2>3. QED
    BY <2>1, <2>2
<1>3. CASE UpdateSelf
  <2>1. UNCHANGED itemSize
    BY <1>3 DEF UpdateSelf, types
  <2>2. CASE Grow
    BY <2>1, <2>2, GrowKeepsSizes
  <2>3. CASE UNCHANGED table
    BY <1>1, <2>1, <2>3 DEF table
  <2>4. QED
    BY <1>3, <2>2, <2>3 DEF UpdateSelf
<1>4. CASE SetItem
  BY <1>4, SetItemKeepsSizes
<1>5. CASE BeginGrow
  <2>1. Grow /\ UNCHANGED itemSize
    BY <1>5 DEF BeginGrow, types
  <2>2. QED
    BY <2>1, GrowKeepsSizes
<1>6. CASE MoveItem
  BY <1>6, MoveItemKeepsSizes
<1>7. CASE Clear
  <2>1. data' = <<>> /\ capacity' = MinCapacity /\ room' = MinCapacity /\ itemSize' = itemSize
    BY <1>7 DEF Clear, types
  <2>2. Len(data') = 0
    BY <2>1
  <2>3. QED
    BY <2>1, <2>2, DictAssumption DEF Sizes
<1>8. CASE Copy
  <2>1. UNCHANGED <<itemSize, capacity, data>> /\ (room' = capacity \/ room' = room)
    BY <1>8 DEF Copy, types
  <2>2. capacity \in Nat /\ Len(data) \in Nat
    BY DEF IInv, Types
  <2>3. QED
    BY <2>1, <2>2 DEF Sizes
<1>9. CASE UNCHANGED vars \/ EnterOutside \/ MoveOutside \/ Iterate \/ ItemsNext \/ Exhausted
  BY <1>1, <1>9 DEF vars, EnterOutside, MoveOutside, Iterate, ItemsNext, Exhausted, types, table
<1>10. ASSUME NEW new \in Assignments, CallSetItem(new) PROVE Sizes'
  BY <1>1, <1>10 DEF CallSetItem, types, table
<1>11. ASSUME NEW items \in Others, Update(items) PROVE Sizes'
  BY <1>1, <1>11 DEF Update, types, table
<1>12. QED
  BY <1>2, <1>3, <1>4, <1>5, <1>6, <1>7, <1>8, <1>9, <1>10, <1>11 DEF Next

-----------------------------------------------------------------------------
(* The other types                                                         *)

LEMMA NextKeepsOtherTypes == IInv /\ OtherTypes /\ [Next]_vars => OtherTypes'
<1> SUFFICES ASSUME IInv, OtherTypes, [Next]_vars PROVE OtherTypes'
  OBVIOUS
<1>1. hash' = hash
  BY DEF Next, vars, types, OnKey, GetItem, GetAbsent, Pop, PopAbsent, Del, DelAbsent, Fail,
         CallSetItem, Update, UpdateSelf, SetItem, EnterOutside, BeginGrow, MoveItem,
         MoveOutside, Clear, Copy, Iterate, ItemsNext, Exhausted
<1>2. status' \in {"running", "undefined"}
  BY DEF Next, vars, OtherTypes, OnKey, GetItem, GetAbsent, Pop, PopAbsent, Del, DelAbsent, Fail,
         CallSetItem, Update, UpdateSelf, SetItem, EnterOutside, BeginGrow, MoveItem,
         MoveOutside, Clear, Copy, Iterate, ItemsNext, Exhausted
<1>3. phase' \in {"ready", "growing", "shrinking"}
  BY DEF Next, vars, table, OtherTypes, OnKey, GetItem, GetAbsent, Pop, PopAbsent, Del,
         DelAbsent, Fail, RemoveAt, Rebuild, Grow,
         CallSetItem, Update, UpdateSelf, SetItem, EnterOutside, BeginGrow, MoveItem,
         MoveOutside, Clear, Copy, Iterate, ItemsNext, Exhausted
<1>4. iter' \in [yielded : Nat, at : Nat]
  <2>1. CASE Iterate
    BY <2>1 DEF Iterate
  <2>2. CASE ItemsNext
    <3>1. PICK i \in DOMAIN data : iter' = [yielded |-> iter.yielded + 1, at |-> i + 1]
      BY <2>2 DEF ItemsNext
    <3>2. i \in Nat
      BY DEF IInv, Types
    <3>3. QED
      BY <3>1, <3>2 DEF OtherTypes
  <2>3. CASE Exhausted
    BY <2>3 DEF Exhausted, NotIterating
  <2>4. CASE iter' = iter
    BY <2>4 DEF OtherTypes
  <2>5. QED
    BY <2>1, <2>2, <2>3, <2>4
       DEF Next, vars, OnKey, GetItem, GetAbsent, Pop, PopAbsent, Del, DelAbsent, Fail,
           CallSetItem, Update, UpdateSelf, SetItem, EnterOutside, BeginGrow, MoveItem,
           MoveOutside, Clear, Copy
<1>5. result' \in Item \cup {None, KeyError}
  <2>1. ASSUME NEW p \in Slots, lut[p] # Unused PROVE data[lut[p]] \in Item
    BY <2>1, UsedSlot, ItemAt DEF IInv, TableInv
  <2>2. ASSUME NEW i \in DOMAIN data, NextLive(i) PROVE data[i] \in Item
    BY <2>2, ItemAt DEF IInv, NextLive
  <2>3. ASSUME NEW k \in Keys, OnKey(k) PROVE result' \in Item \cup {None, KeyError}
    BY <2>1, <2>3 DEF OtherTypes, OnKey, GetItem, GetAbsent, Pop, PopAbsent, Del, DelAbsent, Fail
  <2>4. CASE ItemsNext
    BY <2>2, <2>4 DEF ItemsNext
  <2>5. QED
    BY <2>3, <2>4
       DEF Next, vars, OtherTypes, CallSetItem, Update, UpdateSelf, SetItem, EnterOutside,
           BeginGrow, MoveItem, MoveOutside, Clear, Copy, Iterate, Exhausted
<1>6. QED
  BY <1>1, <1>2, <1>3, <1>4, <1>5 DEF OtherTypes
-----------------------------------------------------------------------------
(* The iterator                                                            *)

Iterating == iter # NotIterating

(* The items an iterator has in front of it.                               *)
Ahead == {i \in DOMAIN data : LiveAt(i) /\ i >= iter.at}

PositionRight ==
  /\ iter.at \in 1 .. Len(data) + 1
  /\ iter.yielded <= count
  /\ count - iter.yielded = Cardinality(Ahead)

(* A loop over a careful program's dict sees it grow only without          *)
(* tombstones: every item stays at its index.                              *)
PositionKept ==
  /\ tombstones = 0
  /\ \A i \in DOMAIN old : old[i] # Tombstone
  /\ iter.at = iter.yielded + 1
  /\ iter.yielded <= count

(* Such a loop sets only keys that the dict has.                           *)
SetsPresent ==
  todo # <<>> =>
    /\ Len(todo) = 1
    /\ ~(phase = "ready" /\ Full /\ tombstones > 0)
    /\ \/ \E i \in DOMAIN data : LiveAt(i) /\ data[i].key = Head(todo).key
       \/ \E j \in DOMAIN old : old[j] # Tombstone /\ old[j].key = Head(todo).key

IterInv ==
  Iterating =>
    /\ phase = "ready" => PositionRight
    /\ phase # "ready" => PositionKept
    /\ SetsPresent

(* The indices of a sequence of n elements. *)
LEMMA IndexSet ==
  ASSUME NEW n \in Nat
  PROVE  IsFiniteSet(1 .. n) /\ Cardinality(1 .. n) = n
<1>1. IsFiniteSet(1 .. n)
  BY FS_Interval
<1>2. Cardinality(1 .. n) = n
  BY FS_Interval
<1>3. QED
  BY <1>1, <1>2

(* As many items as there are indices: no tombstone.                       *)
LEMMA AllLive ==
  ASSUME NEW s \in Seq(Contents), NumLive(s) = Len(s)
  PROVE  \A i \in DOMAIN s : s[i] # Tombstone
<1> DEFINE L == {i \in DOMAIN s : s[i] # Tombstone}
<1>1. DOMAIN s = 1 .. Len(s) /\ Len(s) \in Nat /\ L \subseteq 1 .. Len(s)
  OBVIOUS
<1>2. IsFiniteSet(1 .. Len(s)) /\ Cardinality(1 .. Len(s)) = Len(s)
  BY <1>1, IndexSet
<1>3. Cardinality(L) = Len(s)
  BY DEF NumLive
<1> HIDE DEF L
<1>4. L = 1 .. Len(s)
  BY <1>1, <1>2, <1>3, FS_Subset
<1>5. QED
  BY <1>1, <1>4 DEF L

(* Without tombstones the items ahead are the indices ahead.               *)
LEMMA AheadWithoutTombstones ==
  ASSUME data \in Seq(Contents), \A i \in DOMAIN data : LiveAt(i),
         iter.at \in 1 .. Len(data) + 1
  PROVE  Cardinality(Ahead) = Len(data) + 1 - iter.at
<1>1. DOMAIN data = 1 .. Len(data) /\ Len(data) \in Nat
  OBVIOUS
<1>2. Ahead = iter.at .. Len(data)
  BY <1>1 DEF Ahead
<1>3. Cardinality(iter.at .. Len(data)) = Len(data) + 1 - iter.at
  <2>1. iter.at \in Int /\ Len(data) \in Int
    BY <1>1
  <2>2. Cardinality(iter.at .. Len(data))
          = IF iter.at > Len(data) THEN 0 ELSE Len(data) - iter.at + 1
    BY <2>1, FS_Interval
  <2>3. QED
    BY <2>2, <1>1
<1>4. QED
  BY <1>2, <1>3

(* Growing during a loop. *)
LEMMA BeginGrowKeepsIterator ==
  ASSUME IInv, OtherTypes, IterInv, BeginGrow
  PROVE  IterInv'
<1> SUFFICES ASSUME Iterating PROVE PositionKept' /\ SetsPresent'
  BY DEF BeginGrow, Grow, Rebuild, Iterating, IterInv
<1>1. /\ phase = "ready" /\ Full /\ todo # <<>> /\ old = <<>>
      /\ old' = data /\ data' = <<>> /\ phase' = "growing"
      /\ UNCHANGED <<count, tombstones, todo, iter>>
  BY DEF BeginGrow, Busy, Grow, Rebuild, IInv, Types
<1>2. PositionRight /\ SetsPresent
  BY <1>1 DEF IterInv
<1>3. tombstones = 0 /\ count \in Nat /\ data \in Seq(Contents)
  BY <1>1, <1>2 DEF SetsPresent, IInv, Types
<1>4. count = Len(data) /\ NumLive(data) = Len(data)
  BY <1>1, <1>3, ReadyCounts
<1>5. \A i \in DOMAIN data : data[i] # Tombstone
  BY <1>3, <1>4, AllLive
<1>6. Cardinality(Ahead) = Len(data) + 1 - iter.at
  BY <1>2, <1>3, <1>5, AheadWithoutTombstones DEF LiveAt, PositionRight
<1>7. iter.at = iter.yielded + 1
  <2>1. iter.at \in Nat /\ iter.yielded \in Nat
    BY DEF OtherTypes
  <2>2. QED
    BY <1>2, <1>3, <1>4, <1>6, <2>1 DEF PositionRight
<1>8. PositionKept'
  BY <1>1, <1>2, <1>3, <1>5, <1>7 DEF PositionKept, PositionRight
<1>9. SetsPresent'
  BY <1>1, <1>2 DEF SetsPresent, LiveAt
<1>10. QED
  BY <1>8, <1>9

(* Moving an item during a loop. *)
LEMMA MoveItemKeepsIterator ==
  ASSUME IInv, IInv', OtherTypes, IterInv, MoveItem
  PROVE  IterInv'
<1> SUFFICES ASSUME Iterating PROVE IterInv'
  BY DEF MoveItem, Iterating, IterInv
<1>1. /\ phase # "ready" /\ old \in Seq(Contents) /\ old # <<>> /\ data \in Seq(Contents)
      /\ UNCHANGED <<count, iter, todo>>
  BY DEF MoveItem, IInv, Types
<1>2. PositionKept /\ SetsPresent
  BY <1>1 DEF IterInv
<1>3. /\ Head(old) = old[1] /\ 1 \in DOMAIN old
      /\ DOMAIN Tail(old) = 1 .. Len(old) - 1
      /\ \A i \in 1 .. Len(old) - 1 : Tail(old)[i] = old[i + 1] /\ i + 1 \in DOMAIN old
      /\ \A j \in DOMAIN old : j = 1 \/ j - 1 \in DOMAIN Tail(old)
  BY <1>1
<1>4. Head(old) # Tombstone /\ Head(old) \in Contents
  BY <1>1, <1>2, <1>3 DEF PositionKept
<1>5. data' = Append(data, Head(old)) /\ old' = Tail(old)
  BY <1>4 DEF MoveItem
<1>6. /\ Len(data) \in Nat /\ DOMAIN data = 1 .. Len(data)
      /\ DOMAIN data' = 1 .. Len(data) + 1
      /\ \A i \in DOMAIN data : data'[i] = data[i] /\ i \in DOMAIN data'
      /\ Len(data) + 1 \in DOMAIN data' /\ data'[Len(data) + 1] = old[1]
  BY <1>1, <1>3, <1>4, <1>5
<1>7. \A i \in DOMAIN data' : data'[i] # Tombstone
  <2>1. \A i \in DOMAIN data : data[i] # Tombstone
    BY <1>1 DEF IInv, Compacting, LiveAt
  <2>2. QED
    BY <1>3, <1>4, <1>6, <2>1
<1>8. \A i \in DOMAIN old' : old'[i] # Tombstone
  BY <1>2, <1>3, <1>5 DEF PositionKept
<1>9. tombstones' = 0
  BY <1>2 DEF MoveItem, PositionKept, TombstonesAfterMoving
<1>10. SetsPresent'
  <2>1. ASSUME todo # <<>>
        PROVE  \/ \E i \in DOMAIN data' : data'[i] # Tombstone /\ data'[i].key = Head(todo).key
               \/ \E j \in DOMAIN old' : old'[j] # Tombstone /\ old'[j].key = Head(todo).key
    <3>1. CASE \E i \in DOMAIN data : LiveAt(i) /\ data[i].key = Head(todo).key
      BY <1>6, <3>1 DEF LiveAt
    <3>2. CASE \E j \in DOMAIN old : old[j] # Tombstone /\ old[j].key = Head(todo).key
      <4>1. PICK j \in DOMAIN old : old[j] # Tombstone /\ old[j].key = Head(todo).key
        BY <3>2
      <4>2. CASE j = 1
        BY <1>3, <1>4, <1>6, <4>1, <4>2
      <4>3. CASE j - 1 \in DOMAIN Tail(old)
        <5>1. Tail(old)[j - 1] = old[j]
          BY <1>1, <1>3, <4>1, <4>3
        <5>2. QED
          BY <1>5, <4>1, <4>3, <5>1
      <4>4. QED
        BY <1>3, <4>1, <4>2, <4>3
    <3>3. QED
      BY <1>2, <2>1, <3>1, <3>2 DEF SetsPresent
  <2>2. QED
    BY <1>1, <1>2, <1>9, <2>1 DEF SetsPresent, LiveAt
<1>11. CASE phase' # "ready"
  BY <1>1, <1>2, <1>8, <1>9, <1>10, <1>11 DEF IterInv, PositionKept
<1>12. CASE phase' = "ready"
  <2>1. count' = Len(data') /\ count' \in Nat /\ data' \in Seq(Contents)
    <3>1. count' + tombstones' = Len(data') /\ count' \in Nat /\ data' \in Seq(Contents)
      BY <1>12 DEF IInv, Types, CountsExact
    <3>2. QED
      BY <1>9, <3>1
  <2>2. iter'.at = iter'.yielded + 1 /\ iter'.yielded <= count' /\ iter'.yielded \in Nat
    BY <1>1, <1>2 DEF PositionKept, OtherTypes
  <2>3. iter'.at \in 1 .. Len(data') + 1
    BY <2>1, <2>2
  <2>4. Cardinality(Ahead') = Len(data') + 1 - iter'.at
    <3>1. DOMAIN data' = 1 .. Len(data') /\ Len(data') \in Nat
      BY <2>1
    <3>2. Ahead' = iter'.at .. Len(data')
      BY <1>7, <2>3, <3>1 DEF Ahead, LiveAt
    <3>3. Cardinality(iter'.at .. Len(data'))
            = IF iter'.at > Len(data') THEN 0 ELSE Len(data') - iter'.at + 1
      <4>1. iter'.at \in Int /\ Len(data') \in Int
        BY <2>3, <3>1
      <4>2. QED
        BY <4>1, FS_Interval
    <3>4. QED
      BY <2>3, <3>1, <3>2, <3>3
  <2>5. PositionRight'
    BY <2>1, <2>2, <2>3, <2>4 DEF PositionRight
  <2>6. QED
    BY <1>10, <1>12, <2>5 DEF IterInv
<1>13. QED
  BY <1>11, <1>12

(* A loop only replaces values: the items ahead stay where they are.       *)
LEMMA SetItemKeepsIterator ==
  ASSUME IInv, OtherTypes, IterInv, SetItem
  PROVE  IterInv'
<1> SUFFICES ASSUME Iterating PROVE IterInv'
  BY DEF SetItem, Iterating, IterInv
<1>1. /\ phase = "ready" /\ phase' = "ready" /\ todo # <<>> /\ todo' = Tail(todo)
      /\ old = <<>> /\ todo \in Seq(Item)
      /\ UNCHANGED <<iter, tombstones>>
  BY DEF SetItem, Busy, IInv, Types
<1>2. PositionRight /\ SetsPresent
  BY <1>1 DEF IterInv
<1>3. PICK p \in Slots : /\ FoundAt(Head(todo).key, p)
                         /\ Enter(Head(todo), p) \/ Replace(Head(todo), p)
  BY DEF SetItem
<1>4. Head(todo).key \in Keys /\ Head(todo) \in Item
  <2>1. Head(todo) \in Item
    BY <1>1
  <2>2. QED
    BY <2>1 DEF Item
<1>5. PICK i \in DOMAIN data : LiveAt(i) /\ data[i].key = Head(todo).key
  BY <1>1, <1>2 DEF SetsPresent
<1>6. lut[p] # Unused
  BY <1>3, <1>4, <1>5, ProbeFails
<1>7. Replace(Head(todo), p)
  BY <1>3, <1>6 DEF Enter
<1>8. lut[p] \in DOMAIN data /\ data[lut[p]] \in Item /\ data \in Seq(Contents)
  BY <1>6, UsedSlot, ItemAt DEF IInv, Types, TableInv
<1> DEFINE x == [data[lut[p]] EXCEPT !.val = Head(todo).val]
<1>9. x \in Item /\ x # Tombstone /\ data[lut[p]] # Tombstone
  BY <1>4, <1>8, DictAssumption DEF Item
<1>10. data' = [data EXCEPT ![lut[p]] = x] /\ count' = count
  BY <1>7 DEF Replace
<1> HIDE DEF x
<1>11. /\ DOMAIN data' = DOMAIN data /\ Len(data') = Len(data)
       /\ \A j \in DOMAIN data : data'[j] # Tombstone <=> data[j] # Tombstone
  BY <1>8, <1>9, <1>10
<1>12. Ahead' = Ahead
  BY <1>1, <1>11 DEF Ahead, LiveAt
<1>13. PositionRight'
  BY <1>1, <1>2, <1>10, <1>11, <1>12 DEF PositionRight
<1>14. todo' = <<>>
  BY <1>1, <1>2 DEF SetsPresent
<1>15. QED
  BY <1>1, <1>13, <1>14 DEF IterInv, SetsPresent

(* A loop begins with everything ahead. *)
LEMMA IterateKeepsIterator ==
  ASSUME IInv, Iterate
  PROVE  IterInv'
<1>1. /\ phase = "ready" /\ todo = <<>> /\ iter' = [yielded |-> 0, at |-> 1]
      /\ UNCHANGED <<data, count, phase, todo>> /\ data \in Seq(Contents) /\ count \in Nat
  BY DEF Iterate, Idle, table, IInv, Types
<1>2. DOMAIN data = 1 .. Len(data) /\ Len(data) \in Nat
  BY <1>1
<1>3. Ahead' = {i \in DOMAIN data : data[i] # Tombstone}
  BY <1>1, <1>2 DEF Ahead, LiveAt
<1>4. count = Cardinality({i \in DOMAIN data : data[i] # Tombstone})
  BY <1>1, ReadyCounts DEF NumLive
<1>5. PositionRight'
  BY <1>1, <1>2, <1>3, <1>4 DEF PositionRight
<1>6. QED
  BY <1>1, <1>5 DEF IterInv, SetsPresent

(* The next item is the first of those ahead. *)
LEMMA ItemsNextKeepsIterator ==
  ASSUME IInv, OtherTypes, IterInv, ItemsNext
  PROVE  IterInv'
<1>1. /\ phase = "ready" /\ todo = <<>> /\ Iterating /\ iter.yielded # count
      /\ UNCHANGED <<data, count, phase, todo>> /\ data \in Seq(Contents) /\ count \in Nat
  BY DEF ItemsNext, Idle, table, Iterating, IInv, Types
<1>2. PICK i \in DOMAIN data : NextLive(i) /\ iter' = [yielded |-> iter.yielded + 1, at |-> i + 1]
  BY DEF ItemsNext
<1>3. PositionRight
  BY <1>1 DEF IterInv
<1>4. /\ DOMAIN data = 1 .. Len(data) /\ Len(data) \in Nat
      /\ iter.at \in Nat /\ iter.yielded \in Nat
  BY <1>1 DEF OtherTypes
<1>5. i \in Ahead /\ Ahead' = Ahead \ {i}
  <2>1. i \in Ahead
    BY <1>2 DEF NextLive, Ahead
  <2>2. \A j \in Ahead : j = i \/ j >= i + 1
    BY <1>2, <1>3, <1>4 DEF NextLive, Ahead, PositionRight
  <2>3. Ahead' = {j \in DOMAIN data : LiveAt(j) /\ j >= i + 1}
    BY <1>1, <1>2 DEF Ahead, LiveAt
  <2>4. \A j \in DOMAIN data : j >= i + 1 => j >= iter.at /\ j # i
    BY <1>2, <1>4 DEF NextLive
  <2>5. QED
    BY <2>1, <2>2, <2>3, <2>4 DEF Ahead
<1>6. IsFiniteSet(Ahead) /\ Cardinality(Ahead) \in Nat
  <2>1. IsFiniteSet(1 .. Len(data)) /\ Ahead \subseteq 1 .. Len(data)
    BY <1>4, FS_Interval DEF Ahead
  <2>2. QED
    BY <2>1, FS_Subset, FS_CardinalityType
<1>7. Cardinality(Ahead') = Cardinality(Ahead) - 1
  BY <1>5, <1>6, FS_RemoveElement
<1>8. PositionRight'
  BY <1>1, <1>2, <1>3, <1>4, <1>6, <1>7 DEF PositionRight
<1>9. QED
  BY <1>1, <1>8 DEF IterInv, SetsPresent

(* A loop of a careful program sets a key of the dict.                     *)
LEMMA CallSetItemKeepsIterator ==
  ASSUME IInv, IterInv, Careful, NEW new \in Assignments, CallSetItem(new)
  PROVE  IterInv'
<1> SUFFICES ASSUME Iterating PROVE IterInv'
  BY DEF CallSetItem, Iterating, IterInv
<1>1. /\ phase = "ready" /\ todo' = <<new>> /\ UNCHANGED <<table, iter>>
      /\ \E i \in DOMAIN data : LiveAt(i) /\ data[i].key = new.key
      /\ ~(Full /\ tombstones > 0)
  BY DEF CallSetItem, Idle, MaySet, Iterating
<1>2. PositionRight
  BY <1>1 DEF IterInv
<1>3. Len(todo') = 1 /\ Head(todo') = new
  BY <1>1
<1>4. PositionRight'
  BY <1>1, <1>2 DEF PositionRight, Ahead, LiveAt, table
<1>5. SetsPresent'
  BY <1>1, <1>3 DEF SetsPresent, LiveAt, table, Full, Effective
<1>6. QED
  BY <1>1, <1>4, <1>5 DEF IterInv, table

(* Whatever leaves the iterator and what it looks at alone.                *)
LEMMA SameIterator ==
  ASSUME IterInv, UNCHANGED <<data, count, tombstones, capacity, old, phase, todo, iter>>
  PROVE  IterInv'
BY DEF IterInv, Iterating, PositionRight, PositionKept, SetsPresent, Ahead, LiveAt,
       Full, Effective

LEMMA NextKeepsIterator ==
  ASSUME Careful, IInv, IInv', OtherTypes, IterInv, [Next]_vars
  PROVE  IterInv'
<1>1. CASE iter' = NotIterating
  BY <1>1 DEF IterInv, Iterating
<1>2. ASSUME NEW k \in Keys, OnKey(k) PROVE IterInv'
  <2>1. CASE Pop(k) \/ Del(k)
    BY <1>1, <2>1 DEF Pop, Del
  <2>2. CASE ~(Pop(k) \/ Del(k))
    BY <1>2, <2>2, SameIterator
       DEF OnKey, GetItem, GetAbsent, PopAbsent, DelAbsent, Fail, table
  <2>3. QED
    BY <2>1, <2>2
<1>3. ASSUME NEW new \in Assignments, CallSetItem(new) PROVE IterInv'
  BY <1>3, CallSetItemKeepsIterator
<1>4. ASSUME NEW items \in Others, Update(items) PROVE IterInv'
  BY <1>1, <1>4 DEF Update
<1>5. CASE UpdateSelf \/ Clear \/ Copy \/ Exhausted
  BY <1>1, <1>5 DEF UpdateSelf, Clear, Copy, Exhausted
<1>6. CASE SetItem
  BY <1>6, SetItemKeepsIterator
<1>7. CASE BeginGrow
  BY <1>7, BeginGrowKeepsIterator
<1>8. CASE MoveItem
  BY <1>8, MoveItemKeepsIterator
<1>9. CASE Iterate
  BY <1>9, IterateKeepsIterator
<1>10. CASE ItemsNext
  BY <1>10, ItemsNextKeepsIterator
<1>11. CASE UNCHANGED vars \/ EnterOutside \/ MoveOutside
  BY <1>11, SameIterator DEF vars, EnterOutside, MoveOutside, table
<1>12. QED
  BY <1>2, <1>3, <1>4, <1>5, <1>6, <1>7, <1>8, <1>9, <1>10, <1>11 DEF Next

-----------------------------------------------------------------------------
(* Theorems                                                                *)

BoundsInv == IInv /\ Sizes /\ OtherTypes /\ IterInv

(* The array stays inside its allocation and an iterator inside the array  *)
(* (np_dict_set_item, np_dict_grow, np_dict_shrink, np_dict_items_next).   *)
THEOREM BoundsInvariant == ASSUME Careful PROVE Spec => []BoundsInv
<1>1. Init => BoundsInv
  <2> SUFFICES ASSUME Init PROVE Sizes /\ OtherTypes /\ IterInv
    BY InitInv DEF BoundsInv
  <2>1. Len(<<>>) = 0
    OBVIOUS
  <2>2. Sizes
    BY <2>1, DictAssumption DEF Init, Sizes
  <2>3. OtherTypes /\ IterInv
    BY DEF Init, OtherTypes, IterInv, Iterating, NotIterating
  <2>4. QED
    BY <2>2, <2>3
<1>2. BoundsInv /\ [Next]_vars => BoundsInv'
  BY NextKeepsInv, NextKeepsSizes, NextKeepsOtherTypes, NextKeepsIterator DEF BoundsInv
<1>3. QED
  BY <1>1, <1>2, PTL DEF Spec

(* Every variable of the dict keeps its type, and the array fits what was  *)
(* allocated for it.                                                       *)
THEOREM DictTypes == ASSUME Careful PROVE Spec => []TypeOK
<1>1. BoundsInv => TypeOK
  <2> SUFFICES ASSUME BoundsInv PROVE TypeOK
    OBVIOUS
  <2>1. Types /\ Sizes /\ OtherTypes
    BY DEF BoundsInv, IInv
  <2>2. QED
    BY <2>1 DEF TypeOK, Types, Sizes, OtherTypes, Contents
<1>2. QED
  BY <1>1, BoundsInvariant, PTL

(* np_dict_set_item puts an item outside only an allocation that is        *)
(* smaller than the capacity: with the full size, the dict grows in time.  *)
THEOREM DictGrowsInTime == ASSUME Careful PROVE Spec => GrowsInTime
<1>1. BoundsInv /\ [Next]_vars => [EnterOutside => room < capacity]_vars
  <2> SUFFICES ASSUME BoundsInv, EnterOutside PROVE room < capacity
    OBVIOUS
  <2>1. phase = "ready" /\ Effective # capacity /\ Effective >= room
    BY DEF EnterOutside, Busy, Full
  <2>2. Effective = Len(data) /\ Len(data) \in Nat /\ capacity \in Nat
    BY <2>1, ReadyCounts DEF Effective, BoundsInv, IInv, Types
  <2>3. room \in 0 .. capacity /\ Len(data) <= room
    BY DEF BoundsInv, Sizes
  <2>4. QED
    BY <2>1, <2>2, <2>3
<1>2. QED
  BY <1>1, BoundsInvariant, PTL DEF Spec, GrowsInTime

(* The search of np_dict_items_next for the next item ends in the array,   *)
(* also in a loop that replaces values and makes the dict grow: the items  *)
(* it has not yielded are those at and behind its position.                *)
THEOREM IteratorsFindRest == ASSUME Careful PROVE Spec => []IteratorFindsRest
<1>1. BoundsInv => IteratorFindsRest
  BY DEF BoundsInv, IterInv, Iterating, PositionRight, Ahead, IteratorFindsRest
<1>2. QED
  BY <1>1, BoundsInvariant, PTL

-----------------------------------------------------------------------------
(* The items of an array, without the tombstones                           *)

Living(s) == {i \in DOMAIN s : s[i] # Tombstone}

LEMMA LivingFacts ==
  ASSUME NEW s \in Seq(Contents)
  PROVE  /\ DOMAIN s = 1 .. Len(s) /\ Len(s) \in Nat
         /\ Living(s) \subseteq 1 .. Len(s)
         /\ IsFiniteSet(Living(s))
         /\ NumLive(s) = Cardinality(Living(s)) /\ NumLive(s) \in Nat
         /\ \A i \in Living(s) : i \in Nat \ {0} /\ s[i] \in Item
         /\ \A i \in Nat : /\ IsFiniteSet({j \in 1 .. i : s[j] # Tombstone})
                           /\ Rank(s, i) \in Nat
<1>1. DOMAIN s = 1 .. Len(s) /\ Len(s) \in Nat /\ \A i \in 1 .. Len(s) : s[i] \in Contents
  OBVIOUS
<1>2. \A i \in Living(s) : i \in Nat \ {0} /\ s[i] \in Item
  BY <1>1 DEF Living, Contents
<1>3. Living(s) \subseteq 1 .. Len(s)
  BY <1>1 DEF Living
<1>4. IsFiniteSet(Living(s)) /\ NumLive(s) = Cardinality(Living(s)) /\ NumLive(s) \in Nat
  BY NumLiveType DEF Living, NumLive
<1>5. ASSUME NEW i \in Nat
      PROVE  IsFiniteSet({j \in 1 .. i : s[j] # Tombstone}) /\ Rank(s, i) \in Nat
  <2>1. IsFiniteSet(1 .. i) /\ {j \in 1 .. i : s[j] # Tombstone} \in SUBSET (1 .. i)
    BY IndexSet
  <2>2. IsFiniteSet({j \in 1 .. i : s[j] # Tombstone})
    BY <2>1, FS_Subset
  <2>3. QED
    BY <2>2, FS_CardinalityType DEF Rank
<1>6. QED
  BY <1>1, <1>2, <1>3, <1>4, <1>5

(* The items are counted off in their order. *)
LEMMA RankGrows ==
  ASSUME NEW s \in Seq(Contents), NEW i \in Living(s), NEW j \in Living(s), i < j
  PROVE  Rank(s, i) < Rank(s, j)
<1> DEFINE I == {m \in 1 .. i : s[m] # Tombstone}
           J == {m \in 1 .. j : s[m] # Tombstone}
<1>1. i \in Nat \ {0} /\ j \in Nat \ {0} /\ s[j] # Tombstone
  BY LivingFacts DEF Living
<1>2. I \in SUBSET J /\ j \in J /\ j \notin I
  BY <1>1
<1>3. IsFiniteSet(J) /\ Rank(s, i) \in Nat /\ Rank(s, j) \in Nat
  BY <1>1, LivingFacts
<1>4. Rank(s, i) = Cardinality(I) /\ Rank(s, j) = Cardinality(J)
  BY DEF Rank
<1> HIDE DEF I, J
<1>5. Cardinality(I) <= Cardinality(J) /\ Cardinality(I) # Cardinality(J)
  BY <1>2, <1>3, FS_Subset
<1>6. QED
  BY <1>3, <1>4, <1>5

LEMMA RankRange ==
  ASSUME NEW s \in Seq(Contents), NEW i \in Living(s)
  PROVE  Rank(s, i) \in 1 .. NumLive(s)
<1> DEFINE I == {m \in 1 .. i : s[m] # Tombstone}
<1>1. i \in 1 .. Len(s) /\ Len(s) \in Nat /\ s[i] # Tombstone /\ DOMAIN s = 1 .. Len(s)
  BY LivingFacts DEF Living
<1>2. I \in SUBSET Living(s) /\ I # {}
  BY <1>1 DEF Living
<1>3. /\ IsFiniteSet(Living(s)) /\ Rank(s, i) = Cardinality(I) /\ Rank(s, i) \in Nat
      /\ NumLive(s) = Cardinality(Living(s)) /\ NumLive(s) \in Nat
  BY <1>1, LivingFacts DEF Rank
<1> HIDE DEF I
<1>4. IsFiniteSet(I) /\ Cardinality(I) <= Cardinality(Living(s))
  BY <1>2, <1>3, FS_Subset
<1>5. Cardinality(I) # 0
  BY <1>2, <1>4, FS_EmptySet
<1>6. QED
  BY <1>3, <1>4, <1>5

LEMMA RankInjective ==
  ASSUME NEW s \in Seq(Contents), NEW i \in Living(s), NEW j \in Living(s),
         Rank(s, i) = Rank(s, j)
  PROVE  i = j
<1>1. i \in Nat /\ j \in Nat /\ Rank(s, i) \in Nat /\ Rank(s, j) \in Nat
  BY LivingFacts
<1>2. ~(i < j) /\ ~(j < i)
  BY <1>1, RankGrows
<1>3. QED
  BY <1>1, <1>2

(* Every number up to the number of items is the rank of one.              *)
LEMMA RankReached ==
  ASSUME NEW s \in Seq(Contents), NEW n \in 1 .. NumLive(s)
  PROVE  \E i \in Living(s) : Rank(s, i) = n
<1> DEFINE f == [i \in Living(s) |-> Rank(s, i)]
           N == 1 .. NumLive(s)
<1>1. f \in [Living(s) -> N]
  BY RankRange
<1>2. \A i, j \in Living(s) : f[i] = f[j] => i = j
  BY RankInjective
<1>3. IsFiniteSet(N) /\ Cardinality(N) = Cardinality(Living(s))
  BY LivingFacts, IndexSet
<1>4. f \in Surjection(Living(s), N)
  <2> HIDE DEF f, N
  <2>1. f \in Injection(Living(s), N)
    BY <1>1, <1>2 DEF Injection, IsInjective
  <2>2. QED
    BY <1>3, <2>1, FS_Injection
<1>5. \E i \in Living(s) : f[i] = n
  <2> HIDE DEF f
  <2>1. QED
    BY <1>4 DEF Surjection
<1>6. QED
  BY <1>5

(* What a sequence of items has to be to be those of an array.             *)
LEMMA LiveFacts ==
  ASSUME NEW s \in Seq(Contents)
  PROVE  /\ Live(s) \in Seq(Item)
         /\ Len(Live(s)) = NumLive(s)
         /\ DOMAIN Live(s) = 1 .. NumLive(s)
         /\ \A i \in Living(s) : Live(s)[Rank(s, i)] = s[i]
<1>1. NumLive(s) \in Nat
  BY LivingFacts
<1>2. ASSUME NEW i \in Living(s)
      PROVE  Live(s)[Rank(s, i)] = s[i]
  <2>1. Rank(s, i) \in 1 .. NumLive(s)
    BY RankRange
  <2>2. i = CHOOSE j \in DOMAIN s : s[j] # Tombstone /\ Rank(s, j) = Rank(s, i)
    <3>1. \A j \in DOMAIN s : s[j] # Tombstone /\ Rank(s, j) = Rank(s, i) => j = i
      BY RankInjective DEF Living
    <3>2. i \in DOMAIN s /\ s[i] # Tombstone
      BY DEF Living
    <3>3. QED
      BY <3>1, <3>2
  <2>3. QED
    BY <2>1, <2>2 DEF Live
<1>3. \A n \in 1 .. NumLive(s) : Live(s)[n] \in Item
  <2>1. TAKE n \in 1 .. NumLive(s)
  <2>2. PICK i \in Living(s) : Rank(s, i) = n
    BY RankReached
  <2>3. Live(s)[n] = s[i] /\ s[i] \in Item
    BY <1>2, <2>2, LivingFacts
  <2>4. QED
    BY <2>3
<1>4. Live(s) = [n \in 1 .. NumLive(s) |-> Live(s)[n]]
  BY DEF Live
<1> DEFINE t == Live(s)
<1> HIDE DEF t
<1>5. t = [n \in 1 .. NumLive(s) |-> t[n]] /\ \A n \in 1 .. NumLive(s) : t[n] \in Item
  BY <1>3, <1>4 DEF t
<1>6. t \in [1 .. NumLive(s) -> Item]
  BY <1>5
<1>7. t \in Seq(Item) /\ Len(t) = NumLive(s) /\ DOMAIN t = 1 .. NumLive(s)
  BY <1>1, <1>6
<1>8. QED
  BY <1>2, <1>7 DEF t

LEMMA LiveIs ==
  ASSUME NEW s \in Seq(Contents), NEW t \in Seq(Item), Len(t) = NumLive(s),
         \A i \in Living(s) : t[Rank(s, i)] = s[i]
  PROVE  Live(s) = t
<1>1. /\ Live(s) \in Seq(Item) /\ Len(Live(s)) = Len(t)
      /\ \A i \in Living(s) : Live(s)[Rank(s, i)] = s[i]
  BY LiveFacts
<1>2. ASSUME NEW n \in 1 .. Len(t) PROVE Live(s)[n] = t[n]
  <2>1. PICK i \in Living(s) : Rank(s, i) = n
    BY <1>2, RankReached
  <2>2. QED
    BY <1>1, <2>1
<1> DEFINE u == Live(s)
<1> HIDE DEF u
<1>3. u \in Seq(Item) /\ Len(u) = Len(t) /\ \A n \in 1 .. Len(t) : u[n] = t[n]
  BY <1>1, <1>2 DEF u
<1>4. u = t
  BY <1>3
<1>5. QED
  BY <1>4 DEF u

(* An item entered behind the others comes last.                           *)
LEMMA LiveAppend ==
  ASSUME NEW s \in Seq(Contents), NEW x \in Item
  PROVE  Live(Append(s, x)) = Append(Live(s), x)
<1> DEFINE t == Append(s, x)
           n == Len(s) + 1
<1>1. /\ t \in Seq(Contents) /\ Len(t) = n /\ DOMAIN t = 1 .. n /\ t[n] = x
      /\ \A i \in 1 .. Len(s) : t[i] = s[i]
      /\ Len(s) \in Nat /\ DOMAIN s = 1 .. Len(s)
  BY DEF Contents
<1>2. x # Tombstone
  BY DictAssumption
<1> HIDE DEF t
<1>3. Living(t) = Living(s) \cup {n}
  BY <1>1, <1>2 DEF Living
<1>4. NumLive(t) = NumLive(s) + 1 /\ NumLive(s) \in Nat
  BY NumLiveAppend, NumLiveType DEF t
<1>5. ASSUME NEW i \in Living(s) PROVE Rank(t, i) = Rank(s, i)
  <2>1. {j \in 1 .. i : t[j] # Tombstone} = {j \in 1 .. i : s[j] # Tombstone}
    BY <1>1, LivingFacts
  <2>2. QED
    BY <2>1 DEF Rank
<1>6. Rank(t, n) = NumLive(t)
  BY <1>1 DEF Rank, NumLive
<1> DEFINE L == Live(s)
<1>7. /\ L \in Seq(Item) /\ Len(L) = NumLive(s) /\ DOMAIN L = 1 .. NumLive(s)
      /\ \A i \in Living(s) : L[Rank(s, i)] = s[i]
  BY LiveFacts
<1> HIDE DEF L
<1>8. Append(L, x) \in Seq(Item) /\ Len(Append(L, x)) = NumLive(t)
  BY <1>4, <1>7
<1>9. ASSUME NEW i \in Living(t) PROVE Append(L, x)[Rank(t, i)] = t[i]
  <2>1. CASE i = n
    BY <1>1, <1>4, <1>6, <1>7, <2>1
  <2>2. CASE i \in Living(s)
    <3>1. Rank(s, i) \in 1 .. NumLive(s)
      BY <2>2, RankRange
    <3>2. Append(L, x)[Rank(s, i)] = L[Rank(s, i)]
      BY <1>7, <3>1
    <3>3. t[i] = s[i]
      BY <1>1, <2>2, LivingFacts
    <3>4. QED
      BY <1>5, <1>7, <2>2, <3>2, <3>3
  <2>3. QED
    BY <1>3, <2>1, <2>2
<1>10. Live(t) = Append(L, x)
  BY <1>1, <1>8, <1>9, LiveIs
<1>11. QED
  BY <1>10 DEF t, L

(* An item replaced keeps its place. *)
LEMMA LiveReplace ==
  ASSUME NEW s \in Seq(Contents), NEW i \in Living(s), NEW x \in Item
  PROVE  Live([s EXCEPT ![i] = x]) = [Live(s) EXCEPT ![Rank(s, i)] = x]
<1> DEFINE t == [s EXCEPT ![i] = x]
<1>1. /\ t \in Seq(Contents) /\ DOMAIN t = DOMAIN s /\ t[i] = x
      /\ \A j \in DOMAIN s : j # i => t[j] = s[j]
  BY DEF Contents, Living
<1>2. x # Tombstone /\ s[i] # Tombstone
  BY DictAssumption DEF Living
<1> HIDE DEF t
<1>3. \A j \in DOMAIN s : t[j] # Tombstone <=> s[j] # Tombstone
  BY <1>1, <1>2
<1>4. Living(t) = Living(s)
  BY <1>1, <1>3 DEF Living
<1>5. NumLive(t) = NumLive(s)
  BY <1>1, <1>4, LivingFacts
<1>6. ASSUME NEW j \in Living(s) PROVE Rank(t, j) = Rank(s, j)
  <2>1. {m \in 1 .. j : t[m] # Tombstone} = {m \in 1 .. j : s[m] # Tombstone}
    BY <1>3, LivingFacts
  <2>2. QED
    BY <2>1 DEF Rank
<1> DEFINE L == Live(s)
           r == Rank(s, i)
<1>7. /\ L \in Seq(Item) /\ Len(L) = NumLive(s) /\ DOMAIN L = 1 .. NumLive(s)
      /\ \A j \in Living(s) : L[Rank(s, j)] = s[j]
      /\ r \in DOMAIN L
  BY LiveFacts, RankRange
<1>8. ASSUME NEW j \in Living(s), Rank(s, j) = r PROVE j = i
  BY <1>8, RankInjective
<1>9. ASSUME NEW j \in Living(s) PROVE Rank(s, j) \in DOMAIN L
  BY <1>7, RankRange
<1> HIDE DEF L, r
<1>10. [L EXCEPT ![r] = x] \in Seq(Item) /\ Len([L EXCEPT ![r] = x]) = NumLive(t)
  BY <1>5, <1>7
<1>11. ASSUME NEW j \in Living(t) PROVE [L EXCEPT ![r] = x][Rank(t, j)] = t[j]
  <2>1. j \in Living(s) /\ j \in DOMAIN s
    BY <1>4 DEF Living
  <2>2. CASE Rank(s, j) = r
    BY <1>1, <1>6, <1>7, <1>8, <2>1, <2>2
  <2>3. CASE Rank(s, j) # r
    <3>1. j # i
      BY <2>3 DEF r
    <3>2. QED
      BY <1>1, <1>6, <1>7, <1>9, <2>1, <2>3, <3>1
  <2>4. QED
    BY <2>2, <2>3
<1>12. Live(t) = [L EXCEPT ![r] = x]
  BY <1>1, <1>10, <1>11, LiveIs
<1>13. QED
  BY <1>12 DEF t, L, r

(* An item turned into a tombstone is taken out. *)
LEMMA LiveRemove ==
  ASSUME NEW s \in Seq(Contents), NEW i \in Living(s)
  PROVE  Live([s EXCEPT ![i] = Tombstone]) = Map!Without(Live(s), Rank(s, i))
<1> DEFINE t == [s EXCEPT ![i] = Tombstone]
<1>1. /\ t \in Seq(Contents) /\ DOMAIN t = DOMAIN s /\ t[i] = Tombstone
      /\ \A j \in DOMAIN s : j # i => t[j] = s[j]
      /\ i \in DOMAIN s /\ s[i] # Tombstone
  BY DEF Contents, Living
<1> HIDE DEF t
<1>2. Living(t) = Living(s) \ {i}
  BY <1>1 DEF Living
<1>3. NumLive(t) = NumLive(s) - 1 /\ NumLive(s) \in Nat
  BY <1>1, NumLiveRemove, NumLiveType DEF t
<1>4. ASSUME NEW j \in Living(t), j < i PROVE Rank(t, j) = Rank(s, j)
  <2>1. j \in Nat /\ i \in Nat /\ i <= Len(s) /\ DOMAIN s = 1 .. Len(s) /\ Len(s) \in Nat
    BY <1>1, <1>2, LivingFacts
  <2>2. {m \in 1 .. j : t[m] # Tombstone} = {m \in 1 .. j : s[m] # Tombstone}
    BY <1>1, <1>4, <2>1
  <2>3. QED
    BY <2>2 DEF Rank
<1>5. ASSUME NEW j \in Living(t), i < j PROVE Rank(t, j) = Rank(s, j) - 1
  <2> DEFINE S == {m \in 1 .. j : s[m] # Tombstone}
  <2>1. /\ j \in Nat /\ i \in Nat \ {0} /\ j <= Len(s) /\ DOMAIN s = 1 .. Len(s)
        /\ Len(s) \in Nat
    BY <1>1, <1>2, LivingFacts
  <2>2. {m \in 1 .. j : t[m] # Tombstone} = S \ {i} /\ i \in S
    BY <1>1, <1>5, <2>1
  <2>3. IsFiniteSet(S) /\ Rank(s, j) = Cardinality(S) /\ Rank(t, j) = Cardinality(S \ {i})
    BY <2>1, <2>2, LivingFacts DEF Rank
  <2> HIDE DEF S
  <2>4. QED
    BY <2>2, <2>3, FS_RemoveElement
<1> DEFINE L == Live(s)
           r == Rank(s, i)
           W == Map!Without(L, r)
<1>6. /\ L \in Seq(Item) /\ Len(L) = NumLive(s) /\ DOMAIN L = 1 .. NumLive(s)
      /\ \A j \in Living(s) : L[Rank(s, j)] = s[j]
      /\ r \in 1 .. NumLive(s)
  BY LiveFacts, RankRange
<1>7. ASSUME NEW j \in Living(s)
      PROVE  /\ Rank(s, j) \in 1 .. NumLive(s)
             /\ j < i => Rank(s, j) < r
             /\ i < j => r < Rank(s, j)
  BY RankRange, RankGrows
<1> HIDE DEF L, r
<1>8. W = [j \in 1 .. Len(L) - 1 |-> IF j < r THEN L[j] ELSE L[j + 1]]
  BY DEF Map!Without
<1> HIDE DEF W
<1>9. W \in Seq(Item) /\ Len(W) = NumLive(t)
  <2>1. \A j \in 1 .. Len(L) - 1 : L[j] \in Item /\ L[j + 1] \in Item
    BY <1>3, <1>6
  <2>2. W \in [1 .. NumLive(s) - 1 -> Item] /\ NumLive(s) - 1 \in Nat
    BY <1>3, <1>6, <1>8, <2>1
  <2>3. QED
    BY <1>3, <2>2
<1>10. ASSUME NEW j \in Living(t) PROVE W[Rank(t, j)] = t[j]
  <2>1. /\ j \in Living(s) /\ j # i /\ t[j] = s[j]
        /\ j \in Nat /\ i \in Nat /\ r \in Nat
    <3>1. j \in Living(s) /\ j # i
      BY <1>2
    <3>2. t[j] = s[j]
      BY <1>1, <3>1 DEF Living
    <3>3. QED
      BY <1>6, <3>1, <3>2, LivingFacts
  <2>2. CASE j < i
    <3>1. Rank(t, j) = Rank(s, j) /\ Rank(s, j) < r /\ Rank(s, j) \in 1 .. Len(L) - 1
      BY <1>3, <1>4, <1>6, <1>7, <2>1, <2>2
    <3>2. QED
      BY <1>6, <1>8, <2>1, <3>1
  <2>3. CASE i < j
    <3>1. /\ Rank(t, j) = Rank(s, j) - 1 /\ ~(Rank(s, j) - 1 < r)
          /\ Rank(s, j) - 1 \in 1 .. Len(L) - 1 /\ Rank(s, j) - 1 + 1 = Rank(s, j)
      BY <1>3, <1>5, <1>6, <1>7, <2>1, <2>3
    <3>2. QED
      BY <1>6, <1>8, <2>1, <3>1
  <2>4. QED
    BY <2>1, <2>2, <2>3
<1>11. Live(t) = W
  BY <1>1, <1>9, <1>10, LiveIs
<1>12. QED
  BY <1>11 DEF t, L, r, W

(* An array without one of its tombstones has the same items.              *)
LEMMA LiveSkip ==
  ASSUME NEW s \in Seq(Contents), NEW m \in DOMAIN s, s[m] = Tombstone,
         NEW t \in Seq(Contents), Len(t) = Len(s) - 1,
         \A i \in DOMAIN t : t[i] = IF i < m THEN s[i] ELSE s[i + 1]
  PROVE  Live(t) = Live(s)
<1> DEFINE At(i) == IF i < m THEN i ELSE i + 1
           S(n) == {j \in 1 .. n : s[j] # Tombstone}
           T(n) == {j \in 1 .. n : t[j] # Tombstone}
<1>1. /\ DOMAIN s = 1 .. Len(s) /\ DOMAIN t = 1 .. Len(t) /\ Len(s) \in Nat /\ Len(t) \in Nat
      /\ m \in 1 .. Len(s)
      /\ \A i \in 1 .. Len(t) : t[i] = s[At(i)] /\ At(i) \in 1 .. Len(s) /\ At(i) \in Nat
  OBVIOUS
<1>2. ASSUME NEW n \in 0 .. Len(t)
      PROVE  Cardinality(T(n)) = Cardinality(S(At(n)))
  <2> DEFINE g == [j \in T(n) |-> At(j)]
  <2>1. ASSUME NEW j \in T(n) PROVE At(j) \in S(At(n))
    BY <1>1
  <2>2. \A j, k \in T(n) : At(j) = At(k) => j = k
    BY <1>1
  <2>3. ASSUME NEW k \in S(At(n)) PROVE \E j \in T(n) : At(j) = k
    <3>1. k # m /\ k \in 1 .. At(n) /\ s[k] # Tombstone
      BY <2>3
    <3>2. CASE k < m
      <4>1. k \in 1 .. n /\ At(k) = k
        BY <1>1, <3>1, <3>2
      <4>2. k \in T(n)
        BY <1>1, <3>1, <4>1
      <4>3. QED
        BY <4>1, <4>2
    <3>3. CASE m < k
      <4>1. k - 1 \in 1 .. n /\ At(k - 1) = k
        BY <1>1, <3>1, <3>3
      <4>2. k - 1 \in T(n)
        BY <1>1, <3>1, <4>1
      <4>3. QED
        BY <4>1, <4>2
    <3>4. QED
      BY <1>1, <3>1, <3>2, <3>3
  <2>4. \A j \in T(n) : g[j] = At(j)
    OBVIOUS
  <2>5. g \in [T(n) -> S(At(n))]
    BY <2>1
  <2>6. IsFiniteSet(T(n))
    <3>1. n \in Nat
      BY <1>1
    <3>2. QED
      BY <3>1, LivingFacts
  <2> HIDE DEF g, T, S, At
  <2>7. g \in Bijection(T(n), S(At(n)))
    BY <2>2, <2>3, <2>4, <2>5 DEF Bijection, Injection, Surjection, IsInjective
  <2>8. QED
    BY <2>6, <2>7, FS_Bijection DEF ExistsBijection
<1>3. \A n \in 0 .. Len(t) : Rank(t, n) = Rank(s, At(n))
  BY <1>2 DEF Rank
<1>4. NumLive(t) = NumLive(s)
  <2>1. NumLive(t) = Cardinality(T(Len(t))) /\ NumLive(s) = Cardinality(S(Len(s)))
    BY <1>1 DEF NumLive
  <2>2. S(Len(s)) = S(At(Len(t)))
    BY <1>1
  <2>3. QED
    BY <1>1, <1>2, <2>1, <2>2
<1>5. ASSUME NEW i \in Living(t) PROVE Live(s)[Rank(t, i)] = t[i]
  <2>1. i \in 1 .. Len(t) /\ t[i] # Tombstone
    BY <1>1 DEF Living
  <2>2. At(i) \in Living(s) /\ t[i] = s[At(i)] /\ Rank(t, i) = Rank(s, At(i))
    BY <1>1, <1>3, <2>1 DEF Living
  <2> HIDE DEF At
  <2>3. QED
    BY <2>2, LiveFacts
<1>6. Live(s) \in Seq(Item) /\ Len(Live(s)) = NumLive(t)
  BY <1>4, LiveFacts
<1>7. QED
  BY <1>5, <1>6, LiveIs

-----------------------------------------------------------------------------
(* The dict as a map                                                       *)

Entries == Live(data \o old)
Cursor == IF iter = NotIterating THEN 0 ELSE iter.yielded + 1

LEMMA EntriesNext == Entries' = Live(data' \o old')
  BY DEF Entries, Live, NumLive, Rank

LEMMA ReadyEntries ==
  ASSUME IInv, phase = "ready"
  PROVE  data \in Seq(Contents) /\ old = <<>> /\ Entries = Live(data)
<1>1. data \in Seq(Contents) /\ old = <<>>
  BY DEF IInv, Types
<1>2. data \o old = data
  BY <1>1
<1>3. QED
  BY <1>1, <1>2 DEF Entries

(* Moving an item from one array to the other.                             *)
LEMMA MoveLive ==
  ASSUME NEW a \in Seq(Contents), NEW b \in Seq(Contents), b # <<>>
  PROVE  Append(a, Head(b)) \o Tail(b) = a \o b
<1>1. Len(b) \in Nat \ {0} /\ Head(b) = b[1] /\ b[1] \in Contents
  OBVIOUS
<1>2. Tail(b) \in Seq(Contents) /\ Len(Tail(b)) = Len(b) - 1
      /\ \A i \in 1 .. Len(b) - 1 : Tail(b)[i] = b[i + 1]
  BY <1>1
<1> DEFINE c == Append(a, Head(b))
           t == Tail(b)
<1>3. c \in Seq(Contents) /\ Len(c) = Len(a) + 1 /\ c[Len(a) + 1] = b[1]
      /\ \A i \in 1 .. Len(a) : c[i] = a[i]
  BY <1>1
<1> HIDE DEF c, t
<1>4. /\ c \o t \in Seq(Contents) /\ a \o b \in Seq(Contents)
      /\ Len(c \o t) = Len(a) + Len(b) /\ Len(a \o b) = Len(a) + Len(b)
      /\ Len(a) \in Nat
  BY <1>1, <1>2, <1>3 DEF t
<1>5. ASSUME NEW i \in 1 .. Len(a) + Len(b) PROVE (c \o t)[i] = (a \o b)[i]
  <2>1. CASE i \in 1 .. Len(a)
    BY <1>2, <1>3, <1>4, <2>1 DEF t
  <2>2. CASE i = Len(a) + 1
    <3>1. (c \o t)[i] = c[i]
      BY <1>2, <1>3, <1>4, <2>2 DEF t
    <3>2. (a \o b)[i] = b[1]
      BY <1>1, <1>4, <2>2
    <3>3. QED
      BY <1>3, <2>2, <3>1, <3>2
  <2>3. CASE i > Len(a) + 1
    <3>1. (c \o t)[i] = t[i - (Len(a) + 1)] /\ i - (Len(a) + 1) \in 1 .. Len(b) - 1
      <4>1. t \in Seq(Contents) /\ Len(t) = Len(b) - 1 /\ c \in Seq(Contents) /\ Len(c) = Len(a) + 1
        BY <1>2, <1>3 DEF t
      <4>2. i \in Len(c) + 1 .. Len(c) + Len(t) /\ i - Len(c) \in 1 .. Len(t)
        BY <1>1, <1>4, <2>3, <4>1
      <4>3. (c \o t)[i] = t[i - Len(c)]
        BY <4>1, <4>2
      <4>4. QED
        BY <4>1, <4>2, <4>3
    <3>2. t[i - (Len(a) + 1)] = b[i - (Len(a) + 1) + 1]
      BY <1>2, <3>1 DEF t
    <3>3. (a \o b)[i] = b[i - Len(a)] /\ i - (Len(a) + 1) + 1 = i - Len(a)
      BY <1>1, <1>4, <1>5, <2>3
    <3>4. QED
      BY <3>1, <3>2, <3>3
  <2>4. QED
    BY <1>1, <1>4, <1>5, <2>1, <2>2, <2>3
<1> DEFINE u == c \o t
           v == a \o b
<1> HIDE DEF u, v
<1>6. u \in Seq(Contents) /\ v \in Seq(Contents) /\ Len(u) = Len(v) /\ \A i \in 1 .. Len(v) : u[i] = v[i]
  BY <1>4, <1>5 DEF u, v
<1>7. u = v
  BY <1>6
<1>8. QED
  BY <1>7 DEF u, v, c, t

(* Leaving a tombstone behind. *)
LEMMA MoveTombstone ==
  ASSUME NEW a \in Seq(Contents), NEW b \in Seq(Contents), b # <<>>, Head(b) = Tombstone
  PROVE  Live(a \o Tail(b)) = Live(a \o b)
<1>1. Len(a) \in Nat /\ Len(b) \in Nat \ {0} /\ b[1] = Tombstone
  OBVIOUS
<1>2. Tail(b) \in Seq(Contents) /\ Len(Tail(b)) = Len(b) - 1
      /\ \A i \in 1 .. Len(b) - 1 : Tail(b)[i] = b[i + 1]
  BY <1>1
<1> DEFINE s == a \o b
           t == a \o Tail(b)
           m == Len(a) + 1
<1>3. /\ s \in Seq(Contents) /\ Len(s) = Len(a) + Len(b) /\ DOMAIN s = 1 .. Len(a) + Len(b)
      /\ \A i \in 1 .. Len(a) : s[i] = a[i]
      /\ \A i \in 1 .. Len(b) : s[Len(a) + i] = b[i]
  BY <1>1
<1>4. /\ t \in Seq(Contents) /\ Len(t) = Len(a) + Len(b) - 1
      /\ DOMAIN t = 1 .. Len(a) + Len(b) - 1
      /\ \A i \in 1 .. Len(a) : t[i] = a[i]
      /\ \A i \in 1 .. Len(b) - 1 : t[Len(a) + i] = b[i + 1]
  BY <1>1, <1>2
<1> HIDE DEF s, t
<1>5. m \in DOMAIN s /\ s[m] = Tombstone
  BY <1>1, <1>3
<1>6. \A i \in DOMAIN t : t[i] = IF i < m THEN s[i] ELSE s[i + 1]
  <2>1. TAKE i \in DOMAIN t
  <2>2. CASE i < m
    BY <1>1, <1>3, <1>4, <2>1, <2>2
  <2>3. CASE ~(i < m)
    <3>1. i - Len(a) \in 1 .. Len(b) - 1 /\ Len(a) + (i - Len(a)) = i
      BY <1>1, <1>4, <2>1, <2>3
    <3>2. i - Len(a) + 1 \in 1 .. Len(b) /\ Len(a) + (i - Len(a) + 1) = i + 1
      BY <1>1, <3>1
    <3>3. t[i] = b[i - Len(a) + 1]
      BY <1>4, <3>1
    <3>4. s[i + 1] = b[i - Len(a) + 1]
      BY <1>3, <3>2
    <3>5. QED
      BY <2>3, <3>3, <3>4
  <2>4. QED
    BY <2>2, <2>3
<1>7. Len(t) = Len(s) - 1
  BY <1>1, <1>3, <1>4
<1>8. Live(t) = Live(s)
  BY <1>3, <1>4, <1>5, <1>6, <1>7, LiveSkip
<1>9. QED
  BY <1>8 DEF s, t

(* np_dict_grow and np_dict_shrink leave the map as it is.                 *)
LEMMA MoveItemSame ==
  ASSUME IInv, MoveItem
  PROVE  Entries' = Entries
<1>1. data \in Seq(Contents) /\ old \in Seq(Contents) /\ old # <<>> /\ old' = Tail(old)
  BY DEF MoveItem, IInv, Types
<1>2. CASE Head(old) # Tombstone
  <2>1. data' = Append(data, Head(old))
    BY <1>2 DEF MoveItem
  <2>2. data' \o old' = data \o old
    BY <1>1, <2>1, MoveLive
  <2>3. QED
    BY <2>2, EntriesNext DEF Entries
<1>3. CASE Head(old) = Tombstone
  <2>1. data' = data
    BY <1>3 DEF MoveItem
  <2>2. Live(data' \o old') = Live(data \o old)
    BY <1>1, <1>3, <2>1, MoveTombstone
  <2>3. QED
    BY <2>2, EntriesNext DEF Entries
<1>4. QED
  BY <1>2, <1>3

LEMMA GrowSame ==
  ASSUME IInv, phase = "ready", Grow
  PROVE  Entries' = Entries
<1>1. data \in Seq(Contents) /\ Entries = Live(data)
  BY ReadyEntries
<1>2. data' = <<>> /\ old' = data
  BY DEF Grow, Rebuild
<1>3. data' \o old' = data
  BY <1>1, <1>2
<1>4. QED
  BY <1>1, <1>3, EntriesNext

-----------------------------------------------------------------------------
(* Steps                                                                   *)

(* A probe that ends at a used slot leads to the entry of the key.         *)
LEMMA FoundEntry ==
  ASSUME IInv, phase = "ready", NEW k \in Keys, NEW p \in Slots,
         FoundAt(k, p), lut[p] # Unused
  PROVE  /\ lut[p] \in Living(data) /\ data[lut[p]] \in Item /\ data[lut[p]].key = k
         /\ Rank(data, lut[p]) \in DOMAIN Entries
         /\ Entries[Rank(data, lut[p])] = data[lut[p]]
         /\ Map!Holds(k, Rank(data, lut[p]))
<1>1. /\ lut[p] \in Living(data) /\ data[lut[p]] \in Item
  BY UsedSlot, ItemAt DEF IInv, TableInv, Living, LiveAt
<1>2. data[lut[p]].key = k
  BY DEF FoundAt, Stops
<1>3. data \in Seq(Contents) /\ Entries = Live(data)
  BY ReadyEntries
<1>4. /\ Rank(data, lut[p]) \in DOMAIN Live(data)
      /\ Live(data)[Rank(data, lut[p])] = data[lut[p]]
  BY <1>1, <1>3, RankRange, LiveFacts
<1>5. /\ Rank(data, lut[p]) \in DOMAIN Entries
      /\ Entries[Rank(data, lut[p])] = data[lut[p]]
  BY <1>3, <1>4
<1>6. Map!Holds(k, Rank(data, lut[p]))
  BY <1>2, <1>5 DEF Map!Holds, Entries
<1>7. QED
  BY <1>1, <1>2, <1>5, <1>6

(* Every entry is an item of the array. *)
LEMMA EntryFrom ==
  ASSUME IInv, phase = "ready", NEW n \in DOMAIN Entries
  PROVE  \E i \in DOMAIN data : LiveAt(i) /\ Entries[n] = data[i]
<1>1. data \in Seq(Contents) /\ Entries = Live(data)
  BY ReadyEntries
<1>2. n \in 1 .. NumLive(data)
  BY <1>1, LiveFacts
<1>3. PICK i \in Living(data) : Rank(data, i) = n
  BY <1>1, <1>2, RankReached
<1>4. Live(data)[n] = data[i]
  BY <1>1, <1>3, LiveFacts
<1>5. QED
  BY <1>1, <1>3, <1>4 DEF Living, LiveAt

(* A key that the probe does not find has no entry. *)
LEMMA AbsentEntry ==
  ASSUME IInv, phase = "ready", NEW k \in Keys,
         \A i \in DOMAIN data : LiveAt(i) => data[i].key # k
  PROVE  ~Map!Has(k)
<1>1. \A n \in DOMAIN Entries : Entries[n].key # k
  BY EntryFrom
<1>2. QED
  BY <1>1 DEF Map!Has, Map!Holds, Entries

LEMMA AbsentFacts ==
  ASSUME IInv, phase = "ready", NEW k \in Keys, Absent(k)
  PROVE  ~Map!Has(k)
<1>1. CASE count = 0
  <2>1. data \in Seq(Contents) /\ NumLive(data) = 0
    BY <1>1, ReadyCounts, ReadyEntries
  <2>2. Living(data) = {}
    BY <2>1, LivingFacts, FS_EmptySet
  <2>3. QED
    BY <2>2, AbsentEntry DEF Living, LiveAt
<1>2. CASE \E p \in Slots : FoundAt(k, p) /\ lut[p] = Unused
  BY <1>2, ProbeFails, AbsentEntry
<1>3. QED
  BY <1>1, <1>2 DEF Absent

(* np_dict_set_item, once the dict has grown, sets a key of the map.       *)
LEMMA SetItemIsSet ==
  ASSUME BoundsInv, SetItem
  PROVE  \E k \in Keys, v \in Vals : Map!Set(k, v)
<1>1. /\ IInv /\ OtherTypes /\ IterInv
      /\ phase = "ready" /\ todo # <<>> /\ todo \in Seq(Item)
      /\ result' = None /\ old' = old /\ iter' = iter
  BY DEF BoundsInv, IInv, Types, SetItem, Busy
<1>2. PICK p \in Slots : /\ FoundAt(Head(todo).key, p)
                         /\ Enter(Head(todo), p) \/ Replace(Head(todo), p)
  BY DEF SetItem
<1> DEFINE new == Head(todo)
<1>3. new \in Item
  BY <1>1
<1> HIDE DEF new
<1>4. /\ new.key \in Keys /\ new.val \in Vals
      /\ new = [key |-> new.key, val |-> new.val]
  BY <1>3 DEF Item
<1>5. data \in Seq(Contents) /\ old = <<>> /\ Entries = Live(data)
  BY <1>1, ReadyEntries
<1>6. Entries' = Live(data') /\ Cursor' = Cursor
  <2>1. ASSUME data' \in Seq(Contents) PROVE data' \o old' = data'
    BY <1>1, <1>5, <2>1
  <2>2. data' \in Seq(Contents)
    <3>1. IInv'
      BY <1>1, SetItemKeepsInv
    <3>2. QED
      BY <3>1 DEF IInv, Types
  <2>3. QED
    BY <1>1, <2>1, <2>2, EntriesNext DEF Cursor
<1>7. CASE Enter(new, p)
  <2>1. \A i \in DOMAIN data : LiveAt(i) => data[i].key # new.key
    BY <1>1, <1>2, <1>4, <1>7, ProbeFails DEF Enter, new
  <2>2. ~Map!Has(new.key)
    BY <1>1, <1>4, <2>1, AbsentEntry
  <2>3. iter = NotIterating
    <3>1. SUFFICES ASSUME Iterating PROVE FALSE
      BY DEF Iterating
    <3>2. SetsPresent
      BY <1>1, <3>1 DEF IterInv
    <3>3. QED
      BY <1>1, <1>5, <2>1, <3>2 DEF SetsPresent, new
  <2>4. Entries' = Append(Entries, new)
    BY <1>3, <1>5, <1>6, <1>7, LiveAppend DEF Enter
  <2>5. Map!Set(new.key, new.val)
    BY <1>1, <1>4, <1>6, <2>2, <2>3, <2>4 DEF Map!Set, Entries, Cursor
  <2>6. QED
    BY <1>4, <2>5
<1>8. CASE Replace(new, p)
  <2> DEFINE r == Rank(data, lut[p])
             x == [data[lut[p]] EXCEPT !.val = new.val]
  <2>1. /\ lut[p] \in Living(data) /\ data[lut[p]] \in Item
        /\ r \in DOMAIN Entries /\ Entries[r] = data[lut[p]]
        /\ Map!Holds(new.key, r)
    BY <1>1, <1>2, <1>4, <1>8, FoundEntry DEF Replace, new
  <2>2. x \in Item
    BY <1>4, <2>1 DEF Item
  <2>3. data' = [data EXCEPT ![lut[p]] = x]
    BY <1>8 DEF Replace
  <2>4. [Entries EXCEPT ![r] = x] = [Entries EXCEPT ![r].val = new.val]
    BY <2>1
  <2> HIDE DEF x
  <2>5. Entries' = [Entries EXCEPT ![r] = x]
    BY <1>5, <1>6, <2>1, <2>2, <2>3, LiveReplace
  <2> HIDE DEF r
  <2>6. Map!Set(new.key, new.val)
    BY <1>1, <1>6, <2>1, <2>4, <2>5 DEF Map!Set, Map!Holds, Entries, Cursor
  <2>7. QED
    BY <1>4, <2>6
<1>9. QED
  BY <1>2, <1>7, <1>8 DEF new

(* Removing the item of a key deletes the key from the map.                *)
LEMMA RemoveAtEntries ==
  ASSUME IInv, IInv', phase = "ready", NEW k \in Keys, NEW p \in Slots,
         FoundAt(k, p), lut[p] # Unused, RemoveAt(p)
  PROVE  Entries' = Map!Without(Entries, Rank(data, lut[p]))
<1>1. lut[p] \in Living(data)
  BY FoundEntry
<1>2. data \in Seq(Contents) /\ old = <<>> /\ Entries = Live(data)
  BY ReadyEntries
<1>3. Removed(p) = [data EXCEPT ![lut[p]] = Tombstone]
  BY DEF Removed
<1>4. Live(Removed(p)) = Map!Without(Entries, Rank(data, lut[p]))
  BY <1>1, <1>2, <1>3, LiveRemove
<1>5. data' \in Seq(Contents) /\ old' \in Seq(Contents)
  BY DEF IInv, Types
<1>6. data' \o old' = Removed(p)
  <2>1. CASE Rebuild(Removed(p), Smaller, "shrinking")
    <3>1. data' = <<>> /\ old' = Removed(p)
      BY <2>1 DEF Rebuild
    <3>2. QED
      BY <1>5, <3>1
  <2>2. CASE data' = Removed(p) /\ old' = old
    BY <1>2, <1>5, <2>2
  <2>3. QED
    BY <2>1, <2>2 DEF RemoveAt
<1>7. QED
  BY <1>4, <1>6, EntriesNext

LEMMA PopIsDelete ==
  ASSUME IInv, IInv', NEW k \in Keys, Pop(k)
  PROVE  Map!Delete(k, TRUE)
<1>1. PICK p \in Slots : /\ FoundAt(k, p) /\ lut[p] # Unused /\ RemoveAt(p)
                         /\ result' = data[lut[p]]
  BY DEF Pop
<1>2. phase = "ready" /\ iter = NotIterating /\ iter' = iter
  BY DEF Pop, Idle
<1> DEFINE r == Rank(data, lut[p])
<1>3. r \in DOMAIN Entries /\ Entries[r] = data[lut[p]] /\ Map!Holds(k, r)
  BY <1>1, <1>2, FoundEntry
<1>4. Entries' = Map!Without(Entries, r)
  BY <1>1, <1>2, RemoveAtEntries
<1> HIDE DEF r
<1>5. QED
  BY <1>1, <1>2, <1>3, <1>4 DEF Map!Delete, Entries, Cursor

LEMMA DelIsDelete ==
  ASSUME IInv, IInv', NEW k \in Keys, Del(k)
  PROVE  Map!Delete(k, FALSE)
<1>1. PICK p \in Slots : FoundAt(k, p) /\ lut[p] # Unused /\ RemoveAt(p)
  BY DEF Del
<1>2. phase = "ready" /\ iter = NotIterating /\ iter' = iter /\ result' = None
  BY DEF Del, Idle
<1> DEFINE r == Rank(data, lut[p])
<1>3. r \in DOMAIN Entries /\ Map!Holds(k, r)
  BY <1>1, <1>2, FoundEntry
<1>4. Entries' = Map!Without(Entries, r)
  BY <1>1, <1>2, RemoveAtEntries
<1> HIDE DEF r
<1>5. QED
  BY <1>1, <1>2, <1>3, <1>4 DEF Map!Delete, Entries, Cursor

LEMMA SameEntries ==
  ASSUME UNCHANGED <<data, old>>
  PROVE  Entries' = Entries
<1>1. data' \o old' = data \o old
  OBVIOUS
<1>2. QED
  BY <1>1, EntriesNext DEF Entries

LEMMA SameMap ==
  ASSUME Entries' = Entries, UNCHANGED <<result, iter>>
  PROVE  UNCHANGED Map!vars
<1>1. Cursor' = Cursor
  BY DEF Cursor
<1>2. QED
  BY <1>1 DEF Map!vars, Entries, Cursor

(* np_dict_get_val and the failures of get, pop and del. *)
LEMMA GetIsGet ==
  ASSUME IInv, NEW k \in Keys, GetItem(k)
  PROVE  Map!Get(k)
<1>1. PICK p \in Slots : FoundAt(k, p) /\ lut[p] # Unused /\ result' = data[lut[p]]
  BY DEF GetItem
<1>2. phase = "ready" /\ UNCHANGED <<data, old, iter>>
  BY DEF GetItem, Idle, table
<1> DEFINE r == Rank(data, lut[p])
<1>3. r \in DOMAIN Entries /\ Entries[r] = data[lut[p]] /\ Map!Holds(k, r)
  BY <1>1, <1>2, FoundEntry
<1>4. Entries' = Entries /\ Cursor' = Cursor
  BY <1>2, SameEntries DEF Cursor
<1> HIDE DEF r
<1>5. QED
  BY <1>1, <1>3, <1>4 DEF Map!Get, Entries, Cursor

LEMMA FailIsGet ==
  ASSUME IInv, NEW k \in Keys, Idle, Absent(k), Fail
  PROVE  Map!Get(k)
<1>1. ~Map!Has(k)
  BY AbsentFacts DEF Idle
<1>2. Entries' = Entries /\ Cursor' = Cursor
  BY SameEntries DEF Fail, table, Cursor
<1>3. QED
  BY <1>1, <1>2 DEF Map!Get, Fail, Entries, Cursor

LEMMA ClearIsClear ==
  ASSUME IInv, Clear
  PROVE  Map!Clear
<1>1. /\ iter = NotIterating /\ iter' = iter /\ result' = None /\ data' = <<>>
      /\ old' = old /\ old = <<>>
  BY DEF Clear, Idle, IInv, Types
<1>2. data' \o old' = <<>> /\ <<>> \in Seq(Contents)
  BY <1>1
<1>3. Entries' = <<>>
  <2>1. Live(<<>>) \in Seq(Item) /\ Len(Live(<<>>)) = 0
    BY <1>2, LiveFacts, NumLiveEmpty
  <2> DEFINE L == Live(<<>>)
  <2> HIDE DEF L
  <2>2. L \in Seq(Item) /\ Len(L) = 0
    BY <2>1 DEF L
  <2>3. L = <<>>
    BY <2>2
  <2>4. QED
    BY <1>2, <2>3, EntriesNext DEF L
<1>4. QED
  BY <1>1, <1>3 DEF Map!Clear, Entries, Cursor

LEMMA IterateIsIterate ==
  ASSUME Iterate
  PROVE  Map!Iterate
<1>1. /\ iter = NotIterating /\ iter' = [yielded |-> 0, at |-> 1]
      /\ UNCHANGED <<data, old, result>>
  BY DEF Iterate, table
<1>2. Entries' = Entries
  BY <1>1, SameEntries
<1>3. iter' # NotIterating /\ iter'.yielded = 0
  BY <1>1 DEF NotIterating
<1>4. QED
  BY <1>1, <1>2, <1>3 DEF Map!Iterate, Entries, Cursor

(* The item np_dict_items_next yields is the entry at the cursor.          *)
LEMMA ItemsNextIsNext ==
  ASSUME BoundsInv, ItemsNext
  PROVE  Map!NextEntry
<1>1. /\ IInv /\ OtherTypes /\ phase = "ready" /\ iter # NotIterating
      /\ UNCHANGED <<data, old>> /\ PositionRight
  BY DEF BoundsInv, ItemsNext, Idle, table, IterInv, Iterating
<1>2. PICK i \in DOMAIN data :
        /\ NextLive(i) /\ result' = data[i]
        /\ iter' = [yielded |-> iter.yielded + 1, at |-> i + 1]
  BY DEF ItemsNext
<1>3. data \in Seq(Contents) /\ Entries = Live(data) /\ Entries' = Entries
  BY <1>1, ReadyEntries, SameEntries
<1>4. /\ DOMAIN data = 1 .. Len(data) /\ Len(data) \in Nat
      /\ iter.at \in Nat /\ iter.yielded \in Nat /\ count \in Nat
  BY <1>1, <1>3 DEF OtherTypes, IInv, Types
<1>5. i \in Living(data)
  BY <1>2 DEF NextLive, LiveAt, Living
<1> DEFINE B == {j \in 1 .. i : data[j] # Tombstone}
           R == Ahead \ {i}
<1>6. /\ i \in Ahead /\ B \cap R = {} /\ B \cup R = Living(data)
  <2>1. i \in Ahead
    BY <1>2 DEF NextLive, Ahead
  <2>2. \A j \in R : j > i /\ j \in Living(data)
    BY <1>2, <1>3, <1>4 DEF NextLive, Ahead, Living, LiveAt
  <2>3. \A j \in Living(data) : j \in B \/ j \in R
    BY <1>1, <1>2, <1>4, <1>5 DEF NextLive, Ahead, Living, LiveAt, PositionRight
  <2>4. \A j \in B : j <= i /\ j \in Living(data)
    BY <1>4 DEF Living
  <2>5. QED
    BY <1>4, <2>1, <2>2, <2>3, <2>4
<1>7. IsFiniteSet(B) /\ Rank(data, i) = Cardinality(B) /\ Rank(data, i) \in Nat
  BY <1>3, <1>4, LivingFacts DEF Rank
<1>8. IsFiniteSet(Ahead) /\ Cardinality(Ahead) \in Nat
  <2>1. IsFiniteSet(1 .. Len(data)) /\ Ahead \in SUBSET (1 .. Len(data))
    BY <1>4, IndexSet DEF Ahead
  <2>2. QED
    BY <2>1, FS_Subset, FS_CardinalityType
<1>9. IsFiniteSet(R) /\ Cardinality(R) = Cardinality(Ahead) - 1
  BY <1>6, <1>8, FS_RemoveElement
<1>10. Cardinality(Living(data)) = Cardinality(B) + Cardinality(R)
  <2> HIDE DEF B, R
  <2>1. Cardinality(B \cup R) = Cardinality(B) + Cardinality(R) - Cardinality(B \cap R)
    BY <1>7, <1>9, FS_Union
  <2>2. Cardinality(B \cap R) = 0
    BY <1>6, FS_EmptySet
  <2>3. Cardinality(B) \in Nat /\ Cardinality(R) \in Nat
    BY <1>7, <1>9, FS_CardinalityType
  <2>4. Cardinality(Living(data)) = Cardinality(B \cup R)
    BY <1>6
  <2>5. QED
    BY <2>1, <2>2, <2>3, <2>4
<1>11. count = Cardinality(Living(data))
  BY <1>1, <1>3, ReadyCounts, LivingFacts
<1> HIDE DEF B, R
<1>12. Rank(data, i) = iter.yielded + 1
  <2>1. count - iter.yielded = Cardinality(Ahead)
    BY <1>1 DEF PositionRight
  <2>2. count = Rank(data, i) + (Cardinality(Ahead) - 1)
    BY <1>7, <1>9, <1>10, <1>11
  <2>3. /\ count \in Nat /\ iter.yielded \in Nat
        /\ Rank(data, i) \in Nat /\ Cardinality(Ahead) \in Nat
    BY <1>4, <1>7, <1>8
  <2>4. \A c, y, n, a \in Nat : c - y = a /\ c = n + (a - 1) => n = y + 1
    OBVIOUS
  <2>5. QED
    BY <2>1, <2>2, <2>3, <2>4
<1>13. Rank(data, i) \in DOMAIN Entries /\ Entries[Rank(data, i)] = data[i]
  BY <1>3, <1>5, RankRange, LiveFacts
<1>14. Cursor = Rank(data, i) /\ Cursor' = Cursor + 1
  <2>1. iter' # NotIterating /\ iter'.yielded = iter.yielded + 1
    BY <1>2, <1>4 DEF NotIterating
  <2>2. QED
    BY <1>1, <1>12, <2>1 DEF Cursor
<1>15. Cursor \in DOMAIN Entries /\ result' = Entries[Cursor]
  BY <1>2, <1>13, <1>14
<1>16. QED
  BY <1>3, <1>14, <1>15 DEF Map!NextEntry, Entries, Cursor

LEMMA ExhaustedIsExhausted ==
  ASSUME BoundsInv, Exhausted
  PROVE  Map!Exhausted
<1>1. /\ IInv /\ OtherTypes /\ phase = "ready" /\ iter # NotIterating
      /\ iter.yielded = count /\ iter' = NotIterating /\ result' = None
      /\ UNCHANGED <<data, old>>
  BY DEF BoundsInv, Exhausted, Idle, table
<1>2. data \in Seq(Contents) /\ Entries = Live(data) /\ Entries' = Entries
  BY <1>1, ReadyEntries, SameEntries
<1>3. Len(Entries) = count /\ count \in Nat
  BY <1>1, <1>2, LiveFacts, ReadyCounts DEF IInv, Types
<1>4. Cursor = count + 1 /\ Cursor' = 0
  BY <1>1 DEF Cursor
<1>5. Cursor > Len(Entries)
  BY <1>3, <1>4
<1>6. QED
  BY <1>1, <1>2, <1>4, <1>5 DEF Map!Exhausted, Entries, Cursor

LEMMA InitIsInit == Init => Map!Init
<1> SUFFICES ASSUME Init PROVE Map!Init
  OBVIOUS
<1>1. data = <<>> /\ old = <<>> /\ iter = NotIterating /\ result = None
  BY DEF Init
<1>2. data \o old = <<>> /\ <<>> \in Seq(Contents)
  BY <1>1
<1> DEFINE L == Live(<<>>)
<1>3. L \in Seq(Item) /\ Len(L) = 0
  BY <1>2, LiveFacts, NumLiveEmpty
<1> HIDE DEF L
<1>4. L = <<>>
  BY <1>3
<1>5. Live(data \o old) = <<>>
  BY <1>2, <1>4 DEF L
<1>6. QED
  BY <1>1, <1>5 DEF Map!Init

(* Every step of a careful program's dict is one of the map, or none.      *)
LEMMA StepIsStep ==
  ASSUME Careful, BoundsInv, BoundsInv', [Next]_vars
  PROVE  [Map!Next]_Map!vars
<1>1. IInv /\ IInv'
  BY DEF BoundsInv
<1>2. CASE UNCHANGED <<data, old, result, iter>>
  BY <1>2, SameEntries, SameMap
<1>3. ASSUME NEW k \in Keys, OnKey(k) PROVE [Map!Next]_Map!vars
  <2>1. CASE GetItem(k)
    BY <1>1, <2>1, GetIsGet DEF Map!Next
  <2>2. CASE GetAbsent(k) \/ PopAbsent(k)
    BY <1>1, <2>2, FailIsGet DEF GetAbsent, PopAbsent, Map!Next
  <2>3. CASE Pop(k)
    BY <1>1, <2>3, PopIsDelete DEF Map!Next
  <2>4. CASE Del(k)
    BY <1>1, <2>4, DelIsDelete DEF Map!Next
  <2>5. CASE DelAbsent(k)
    <3>1. CASE Fail
      BY <1>1, <2>5, <3>1, FailIsGet DEF DelAbsent, Map!Next
    <3>2. CASE UNCHANGED <<types, table, todo, iter, result>>
      BY <1>2, <3>2 DEF table
    <3>3. QED
      BY <2>5, <3>1, <3>2 DEF DelAbsent
  <2>6. QED
    BY <1>3, <2>1, <2>2, <2>3, <2>4, <2>5 DEF OnKey
<1>4. ASSUME NEW new \in Assignments, CallSetItem(new) PROVE [Map!Next]_Map!vars
  BY <1>2, <1>4 DEF CallSetItem, table
<1>5. ASSUME NEW items \in Others, Update(items) PROVE [Map!Next]_Map!vars
  BY <1>2, <1>5 DEF Update, table
<1>6. CASE UpdateSelf
  <2>1. phase = "ready" /\ UNCHANGED <<result, iter>>
    BY <1>6 DEF UpdateSelf, Idle
  <2>2. CASE Grow
    BY <1>1, <2>1, <2>2, GrowSame, SameMap
  <2>3. CASE UNCHANGED table
    BY <1>2, <2>1, <2>3 DEF table
  <2>4. QED
    BY <1>6, <2>2, <2>3 DEF UpdateSelf
<1>7. CASE SetItem
  BY <1>7, SetItemIsSet DEF Map!Next
<1>8. CASE BeginGrow
  <2>1. phase = "ready" /\ Grow /\ UNCHANGED <<result, iter>>
    BY <1>8 DEF BeginGrow, Busy
  <2>2. QED
    BY <1>1, <2>1, GrowSame, SameMap
<1>9. CASE MoveItem
  <2>1. UNCHANGED <<result, iter>>
    BY <1>9 DEF MoveItem
  <2>2. QED
    BY <1>1, <1>9, <2>1, MoveItemSame, SameMap
<1>10. CASE Clear
  BY <1>1, <1>10, ClearIsClear DEF Map!Next
<1>11. CASE Iterate
  BY <1>11, IterateIsIterate DEF Map!Next
<1>12. CASE ItemsNext
  BY <1>12, ItemsNextIsNext DEF Map!Next
<1>13. CASE Exhausted
  BY <1>13, ExhaustedIsExhausted DEF Map!Next
<1>14. CASE UNCHANGED vars \/ EnterOutside \/ MoveOutside \/ Copy
  BY <1>2, <1>14 DEF vars, EnterOutside, MoveOutside, Copy, table
<1>15. QED
  BY <1>3, <1>4, <1>5, <1>6, <1>7, <1>8, <1>9, <1>10, <1>11, <1>12, <1>13, <1>14 DEF Next

(* The dict of the runtime, in a program that removes only what no other   *)
(* key was entered past, is an ordered map: setting, getting, removing,    *)
(* clearing, copying and looping behave as if there were no lookup table,  *)
(* tombstones, growing or shrinking.                                       *)
THEOREM DictRefinesMap == ASSUME Careful PROVE Spec => RefinesMap
<1>1. Init => Map!Init
  BY InitIsInit
<1>2. BoundsInv /\ BoundsInv' /\ [Next]_vars => [Map!Next]_Map!vars
  BY StepIsStep
<1>3. QED
  BY <1>1, <1>2, BoundsInvariant, PTL DEF Spec, RefinesMap, Map!Spec
=============================================================================
