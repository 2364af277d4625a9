---------------------------- MODULE SequenceFacts ----------------------------
(***************************************************************************)
(* Induction over the natural numbers, and what FlattenSeq of the          *)
(* community modules returns: the sequences it is given, one behind        *)
(* another.                                                                *)
(***************************************************************************)
EXTENDS Integers, Sequences, SequencesExt, SequenceTheorems, WellFoundedInduction, TLAPS

(* A set of numbers that is not empty has a least one. *)
LEMMA LeastNumber ==
  ASSUME NEW T \in SUBSET Nat, T # {}
  PROVE  \E n \in T : \A m \in T : n <= m
<1> DEFINE R == OpToRel(<, Nat)
<1>1. IsWellFoundedOn(R, Nat)
  BY NatLessThanWellFounded
<1>2. \A x, y \in Nat : x < y => <<x, y>> \in R
  BY DEF OpToRel
<1> HIDE DEF R
<1>3. PICK x \in T : \A y \in T : ~(<<y, x>> \in R)
  BY <1>1, WFMin
<1>4. \A y \in T : x <= y
  <2>1. TAKE y \in T
  <2>2. ~(y < x)
    BY <1>2, <1>3, <2>1
  <2>3. QED
    BY <2>2
<1>5. QED
  BY <1>4

(* A set that has 0, and the successor of every number it has, has them    *)
(* all.                                                                    *)
LEMMA InductionOnNat ==
  ASSUME NEW S, 0 \in S, \A n \in Nat : n \in S => n + 1 \in S
  PROVE  \A n \in Nat : n \in S
<1> DEFINE T == {n \in Nat : n \notin S}
<1>1. SUFFICES ASSUME T # {} PROVE FALSE
  OBVIOUS
<1>2. PICK n \in T : \A m \in T : n <= m
  <2> HIDE DEF T
  <2>1. T \in SUBSET Nat
    BY DEF T
  <2>2. QED
    BY <1>1, <2>1, LeastNumber
<1>3. n # 0 /\ n - 1 \in Nat /\ n - 1 \notin T
  BY <1>2
<1>4. QED
  BY <1>2, <1>3

-----------------------------------------------------------------------------
(* FlattenSeq *)

(* What FlattenSeq has put together after every sequence. *)
FlattenedUpTo(f, seqs, n) ==
  f = [i \in 1 .. n |-> IF i = 1 THEN seqs[i] ELSE f[i - 1] \o seqs[i]]

LEMMA FlattenedAt ==
  ASSUME NEW seqs, NEW n \in Nat, NEW f, FlattenedUpTo(f, seqs, n), NEW i \in 1 .. n
  PROVE  f[i] = IF i = 1 THEN seqs[i] ELSE f[i - 1] \o seqs[i]
<1> DEFINE e == [k \in 1 .. n |-> IF k = 1 THEN seqs[k] ELSE f[k - 1] \o seqs[k]]
<1>1. f = e
  BY DEF FlattenedUpTo
<1>2. e[i] = IF i = 1 THEN seqs[i] ELSE f[i - 1] \o seqs[i]
  OBVIOUS
<1> HIDE DEF e
<1>3. QED
  BY <1>1, <1>2

LEMMA FlattenedOneMore ==
  ASSUME NEW seqs, NEW n \in Nat, NEW f, FlattenedUpTo(f, seqs, n)
  PROVE  \E g : FlattenedUpTo(g, seqs, n + 1)
<1> DEFINE More(i) == IF i = 1 THEN seqs[i]
                      ELSE IF i <= n THEN f[i] ELSE f[i - 1] \o seqs[i]
           g == [i \in 1 .. n + 1 |-> More(i)]
           Next(i) == IF i = 1 THEN seqs[i] ELSE g[i - 1] \o seqs[i]
<1>1. ASSUME NEW i \in 1 .. n + 1 PROVE More(i) = Next(i)
  <2>1. CASE i = 1
    BY <2>1
  <2>2. CASE i # 1
    <3>1. g[i - 1] = f[i - 1]
      <4>1. i - 1 \in 1 .. n /\ i - 1 \in 1 .. n + 1
        BY <2>2
      <4>2. g[i - 1] = More(i - 1)
        BY <4>1
      <4>3. f[i - 1] = IF i - 1 = 1 THEN seqs[i - 1] ELSE f[i - 1 - 1] \o seqs[i - 1]
        BY <4>1, FlattenedAt
      <4>4. QED
        BY <4>1, <4>2, <4>3
    <3>2. More(i) = f[i - 1] \o seqs[i]
      <4> HIDE DEF g
      <4> DEFINE fi == f[i]
                 both == f[i - 1] \o seqs[i]
      <4>1. More(i) = IF i <= n THEN fi ELSE both
        BY <2>2
      <4>2. ASSUME i <= n PROVE fi = both
        <5>1. i \in 1 .. n
          BY <4>2
        <5>2. fi = IF i = 1 THEN seqs[i] ELSE both
          BY <5>1, FlattenedAt
        <5> HIDE DEF fi, both
        <5>3. QED
          BY <2>2, <5>2
      <4> HIDE DEF fi, More
      <4>3. More(i) = both
        <5> HIDE DEF both
        <5>1. QED
          BY <4>1, <4>2
      <4>4. QED
        BY <4>3
    <3> HIDE DEF g, More
    <3>3. QED
      BY <2>2, <3>1, <3>2
  <2>3. QED
    BY <2>1, <2>2
<1>2. g = [i \in 1 .. n + 1 |-> Next(i)]
  <2> HIDE DEF More, Next
  <2>1. QED
    BY <1>1
<1> HIDE DEF g
<1>3. FlattenedUpTo(g, seqs, n + 1)
  BY <1>2 DEF FlattenedUpTo
<1>4. QED
  BY <1>3

LEMMA FlattenedExists ==
  ASSUME NEW seqs
  PROVE  \A n \in Nat : \E f : FlattenedUpTo(f, seqs, n)
<1> DEFINE S == {n \in Nat : \E f : FlattenedUpTo(f, seqs, n)}
<1>1. 0 \in S
  <2>1. FlattenedUpTo(<<>>, seqs, 0)
    BY DEF FlattenedUpTo
  <2>2. QED
    BY <2>1
<1>2. \A n \in Nat : n \in S => n + 1 \in S
  BY FlattenedOneMore
<1> HIDE DEF S
<1>3. \A n \in Nat : n \in S
  BY <1>1, <1>2, InductionOnNat
<1>4. QED
  BY <1>3 DEF S

LEMMA FlattenSeqIs ==
  ASSUME NEW n \in Nat \ {0}, NEW seqs, Len(seqs) = n
  PROVE  \E f : FlattenedUpTo(f, seqs, n) /\ FlattenSeq(seqs) = f[n]
<1> DEFINE f == CHOOSE flatten : flatten =
                  [i \in 1 .. Len(seqs) |-> IF i = 1 THEN seqs[i] ELSE flatten[i - 1] \o seqs[i]]
<1>1. FlattenSeq(seqs) = f[Len(seqs)]
  BY DEF FlattenSeq
<1>2. FlattenedUpTo(f, seqs, n)
  BY FlattenedExists DEF FlattenedUpTo
<1> HIDE DEF f
<1>3. QED
  BY <1>1, <1>2

(* Where the sequence k begins in the flattened one. *)
StartsAt(f, k) == IF k = 1 THEN 0 ELSE Len(f[k - 1])

(* What is put together after m sequences comes from them, in order. *)
PutTogether(f, seqs, A, m) ==
  /\ f[m] \in Seq(A)
  /\ StartsAt(f, m) \in Nat
  /\ Len(f[m]) = StartsAt(f, m) + Len(seqs[m])
  /\ \A k \in 1 .. m : Len(f[k]) <= Len(f[m])
  /\ \A x \in 1 .. Len(f[m]) : \E k \in 1 .. m :
       /\ x - StartsAt(f, k) \in 1 .. Len(seqs[k])
       /\ f[m][x] = seqs[k][x - StartsAt(f, k)]

LEMMA PutTogetherFirst ==
  ASSUME NEW n \in Nat \ {0}, NEW A, NEW seqs \in [1 .. n -> Seq(A)],
         NEW f, FlattenedUpTo(f, seqs, n)
  PROVE  PutTogether(f, seqs, A, 1)
<1>1. 1 \in 1 .. n
  OBVIOUS
<1>2. f[1] = seqs[1]
  BY <1>1, FlattenedAt
<1>3. seqs[1] \in Seq(A) /\ Len(seqs[1]) \in Nat
  BY <1>1
<1>4. StartsAt(f, 1) = 0
  BY DEF StartsAt
<1>5. \A x \in 1 .. Len(f[1]) : x - 0 \in 1 .. Len(seqs[1]) /\ f[1][x] = seqs[1][x - 0]
  BY <1>2, <1>3
<1>6. \A k \in 1 .. 1 : k = 1
  OBVIOUS
<1>7. QED
  BY <1>2, <1>3, <1>4, <1>5, <1>6 DEF PutTogether

LEMMA PutTogetherNext ==
  ASSUME NEW n \in Nat \ {0}, NEW A, NEW seqs \in [1 .. n -> Seq(A)],
         NEW f, FlattenedUpTo(f, seqs, n),
         NEW m \in 1 .. n, m + 1 <= n, PutTogether(f, seqs, A, m)
  PROVE  PutTogether(f, seqs, A, m + 1)
<1>1. m + 1 \in 1 .. n /\ m + 1 # 1 /\ m + 1 - 1 = m /\ m \in Nat
  OBVIOUS
<1>2. f[m + 1] = f[m] \o seqs[m + 1]
  <2>1. PICK i \in 1 .. n : i = m + 1 /\ i - 1 = m /\ i # 1
    BY <1>1
  <2> DEFINE both == f[i - 1] \o seqs[i]
  <2>2. f[i] = IF i = 1 THEN seqs[i] ELSE both
    BY FlattenedAt
  <2> HIDE DEF both
  <2>3. f[i] = both
    BY <2>1, <2>2
  <2>4. QED
    BY <2>1, <2>3 DEF both
<1>3. seqs[m + 1] \in Seq(A) /\ Len(seqs[m + 1]) \in Nat
  BY <1>1
<1>4. f[m] \in Seq(A) /\ Len(f[m]) \in Nat
  BY DEF PutTogether
<1>5. /\ f[m + 1] \in Seq(A)
      /\ Len(f[m + 1]) = Len(f[m]) + Len(seqs[m + 1])
      /\ \A x \in 1 .. Len(f[m]) + Len(seqs[m + 1]) :
           f[m + 1][x] = IF x <= Len(f[m]) THEN f[m][x] ELSE seqs[m + 1][x - Len(f[m])]
  <2> DEFINE s == f[m]
             t == seqs[m + 1]
  <2>1. s \in Seq(A) /\ t \in Seq(A) /\ f[m + 1] = s \o t
    BY <1>2, <1>3, <1>4
  <2> HIDE DEF s, t
  <2>2. /\ s \o t \in Seq(A)
        /\ Len(s \o t) = Len(s) + Len(t)
        /\ \A x \in 1 .. Len(s) + Len(t) :
             (s \o t)[x] = IF x <= Len(s) THEN s[x] ELSE t[x - Len(s)]
    BY <2>1, ConcatProperties
  <2>3. /\ f[m + 1] \in Seq(A)
        /\ Len(f[m + 1]) = Len(s) + Len(t)
        /\ \A x \in 1 .. Len(s) + Len(t) :
             f[m + 1][x] = IF x <= Len(s) THEN s[x] ELSE t[x - Len(s)]
    BY <2>1, <2>2
  <2>4. QED
    BY <2>3 DEF s, t
<1>6. StartsAt(f, m + 1) = Len(f[m])
  BY <1>1 DEF StartsAt
<1>7. \A k \in 1 .. m + 1 : Len(f[k]) <= Len(f[m + 1])
  <2>1. TAKE k \in 1 .. m + 1
  <2>2. CASE k = m + 1
    BY <2>2, <1>5, <1>4, <1>3
  <2>3. CASE k # m + 1
    <3>1. k \in 1 .. m
      BY <2>1, <2>3
    <3>2. Len(f[k]) <= Len(f[m])
      BY <3>1 DEF PutTogether
    <3>3. Len(f[k]) \in Int
      <4>1. k \in 1 .. n
        BY <3>1
      <4>2. QED
        BY <3>1, <3>2, <1>4 DEF PutTogether
    <3>4. \A a \in Int, b, c \in Nat : a <= b => a <= b + c
      OBVIOUS
    <3>5. QED
      BY <3>2, <3>3, <3>4, <1>3, <1>4, <1>5
  <2>4. QED
    BY <2>2, <2>3
<1>8. ASSUME NEW x \in 1 .. Len(f[m + 1])
      PROVE  \E k \in 1 .. m + 1 :
               /\ x - StartsAt(f, k) \in 1 .. Len(seqs[k])
               /\ f[m + 1][x] = seqs[k][x - StartsAt(f, k)]
  <2>1. CASE x <= Len(f[m])
    <3>1. x \in 1 .. Len(f[m])
      BY <2>1, <1>4, <1>5, <1>3
    <3>2. PICK k \in 1 .. m : /\ x - StartsAt(f, k) \in 1 .. Len(seqs[k])
                              /\ f[m][x] = seqs[k][x - StartsAt(f, k)]
      BY <3>1 DEF PutTogether
    <3>3. f[m + 1][x] = f[m][x]
      BY <1>3, <1>4, <1>5, <2>1
    <3>4. k \in 1 .. m + 1
      BY <3>2
    <3>5. QED
      BY <3>2, <3>3, <3>4
  <2>2. CASE x > Len(f[m])
    <3>1. x - Len(f[m]) \in 1 .. Len(seqs[m + 1])
      <4>1. \A a, b \in Nat : \A y \in 1 .. a + b : y > a => y - a \in 1 .. b
        OBVIOUS
      <4>2. x \in 1 .. Len(f[m]) + Len(seqs[m + 1])
        BY <1>5
      <4>3. QED
        BY <1>3, <1>4, <2>2, <4>1, <4>2
    <3>2. f[m + 1][x] = seqs[m + 1][x - Len(f[m])]
      <4>1. x \in 1 .. Len(f[m]) + Len(seqs[m + 1])
        BY <1>5
      <4>2. \A a \in Nat, y \in Int : y > a => ~(y <= a)
        OBVIOUS
      <4>3. ~(x <= Len(f[m]))
        BY <1>4, <2>2, <4>1, <4>2
      <4>4. QED
        BY <1>5, <4>1, <4>3
    <3>3. m + 1 \in 1 .. m + 1
      BY <1>1
    <3>4. QED
      BY <1>6, <3>1, <3>2, <3>3
  <2>3. QED
    BY <1>3, <1>4, <1>5, <2>1, <2>2
<1>9. QED
  BY <1>4, <1>5, <1>6, <1>7, <1>8 DEF PutTogether

(* Every element of the flattened sequence is one of the sequence that     *)
(* begins last before it, and sequences begin behind one another.          *)
LEMMA FlattenSeqElements ==
  ASSUME NEW n \in Nat \ {0}, NEW A, NEW seqs \in [1 .. n -> Seq(A)]
  PROVE  /\ FlattenSeq(seqs) \in Seq(A)
         /\ \E start \in [1 .. n -> Nat] :
              /\ \A x \in 1 .. Len(FlattenSeq(seqs)) : \E k \in 1 .. n :
                   /\ x - start[k] \in 1 .. Len(seqs[k])
                   /\ FlattenSeq(seqs)[x] = seqs[k][x - start[k]]
              /\ \A k, l \in 1 .. n : k < l => start[k] + Len(seqs[k]) <= start[l]
              /\ \A k \in 1 .. n : start[k] + Len(seqs[k]) <= Len(FlattenSeq(seqs))
<1>1. Len(seqs) = n
  OBVIOUS
<1>2. PICK f : FlattenedUpTo(f, seqs, n) /\ FlattenSeq(seqs) = f[n]
  BY <1>1, FlattenSeqIs
<1> DEFINE S == {m \in Nat : m + 1 <= n => PutTogether(f, seqs, A, m + 1)}
<1>3. 0 \in S
  BY <1>2, PutTogetherFirst
<1>4. \A m \in Nat : m \in S => m + 1 \in S
  <2>1. TAKE m \in Nat
  <2>2. HAVE m \in S
  <2>3. ASSUME m + 1 + 1 <= n PROVE PutTogether(f, seqs, A, m + 1 + 1)
    <3>1. m + 1 \in 1 .. n
      BY <2>3
    <3>2. PutTogether(f, seqs, A, m + 1)
      BY <2>2, <2>3
    <3>3. QED
      BY <1>2, <2>3, <3>1, <3>2, PutTogetherNext
  <2>4. QED
    BY <2>3
<1> HIDE DEF S
<1>5. \A m \in Nat : m \in S
  BY <1>3, <1>4, InductionOnNat
<1>6. ASSUME NEW m \in 1 .. n PROVE PutTogether(f, seqs, A, m)
  <2>1. m - 1 \in S /\ m - 1 + 1 = m
    BY <1>5
  <2>2. QED
    BY <2>1 DEF S
<1> DEFINE start == [k \in 1 .. n |-> StartsAt(f, k)]
<1>7. start \in [1 .. n -> Nat]
  BY <1>6 DEF PutTogether
<1>8. \A k \in 1 .. n : start[k] = StartsAt(f, k)
  OBVIOUS
<1>9. n \in 1 .. n
  OBVIOUS
<1>10. ASSUME NEW k \in 1 .. n, NEW l \in 1 .. n, k < l
       PROVE  start[k] + Len(seqs[k]) <= start[l]
  <2>1. l - 1 \in 1 .. n /\ l # 1 /\ k \in 1 .. l - 1
    BY <1>10
  <2>2. start[l] = Len(f[l - 1])
    BY <2>1, <1>8 DEF StartsAt
  <2>3. start[k] + Len(seqs[k]) = Len(f[k])
    BY <1>6, <1>8 DEF PutTogether
  <2>4. Len(f[k]) <= Len(f[l - 1])
    BY <2>1, <1>6 DEF PutTogether
  <2>5. QED
    BY <2>2, <2>3, <2>4
<1>17. \A k \in 1 .. n : start[k] + Len(seqs[k]) <= Len(f[n])
  <2>1. \A k \in 1 .. n : start[k] + Len(seqs[k]) = Len(f[k])
    BY <1>6, <1>8 DEF PutTogether
  <2>2. QED
    BY <1>6, <1>9, <2>1 DEF PutTogether
<1> HIDE DEF start
<1>11. \A x \in 1 .. Len(f[n]) : \E k \in 1 .. n :
         x - start[k] \in 1 .. Len(seqs[k]) /\ f[n][x] = seqs[k][x - start[k]]
  BY <1>6, <1>8, <1>9 DEF PutTogether
<1>12. f[n] \in Seq(A)
  BY <1>6, <1>9 DEF PutTogether
<1>13. \A k, l \in 1 .. n : k < l => start[k] + Len(seqs[k]) <= start[l]
  BY <1>10
<1> DEFINE flat == FlattenSeq(seqs)
<1>14. /\ flat \in Seq(A)
       /\ \A x \in 1 .. Len(flat) : \E k \in 1 .. n :
            x - start[k] \in 1 .. Len(seqs[k]) /\ flat[x] = seqs[k][x - start[k]]
       /\ \A k \in 1 .. n : start[k] + Len(seqs[k]) <= Len(flat)
  BY <1>2, <1>11, <1>12, <1>17
<1> HIDE DEF flat
<1>15. /\ flat \in Seq(A)
       /\ \E starts \in [1 .. n -> Nat] :
            /\ \A x \in 1 .. Len(flat) : \E k \in 1 .. n :
                 /\ x - starts[k] \in 1 .. Len(seqs[k])
                 /\ flat[x] = seqs[k][x - starts[k]]
            /\ \A k, l \in 1 .. n : k < l => starts[k] + Len(seqs[k]) <= starts[l]
            /\ \A k \in 1 .. n : starts[k] + Len(seqs[k]) <= Len(flat)
  BY <1>7, <1>13, <1>14, Zenon
<1>16. QED
  BY <1>15 DEF flat

=============================================================================
