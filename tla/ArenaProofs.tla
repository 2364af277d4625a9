---------------------------- MODULE ArenaProofs ----------------------------
(***************************************************************************)
(* Proofs about module Arena, for every chunk count, chunk size, stride,   *)
(* set of clients and set of sizes: first its dynamic region, then its     *)
(* static half.                                                            *)
(***************************************************************************)
EXTENDS Arena, TLAPS

-----------------------------------------------------------------------------

(* Integer division as the chunk arithmetic uses it. *)
LEMMA DivFacts ==
  ASSUME NEW x \in Nat, NEW d \in Nat \ {0}
  PROVE  /\ x \div d \in Nat
         /\ x % d \in 0 .. d - 1
         /\ x = d * (x \div d) + (x % d)
  OBVIOUS

(* A larger number has no smaller quotient. *)
LEMMA DivMonotone ==
  ASSUME NEW x \in Nat, NEW y \in Nat, x <= y, NEW d \in Nat \ {0}
  PROVE  x \div d <= y \div d
<1> DEFINE p == x \div d
           q == y \div d
<1>1. /\ p \in Nat /\ q \in Nat
      /\ x % d \in 0 .. d - 1 /\ y % d \in 0 .. d - 1
      /\ x = d * p + (x % d)
      /\ y = d * q + (y % d)
  BY DivFacts
<1>2. ASSUME q < p PROVE FALSE
  <2>1. PICK e \in Nat : p = q + 1 + e
    <3>1. p - q - 1 \in Nat /\ p = q + 1 + (p - q - 1)
      BY <1>1, <1>2
    <3>2. QED
      BY <3>1
  <2>2. d * p = d * q + d + d * e
    BY <1>1, <2>1
  <2>3. d * e \in Nat /\ d * q \in Nat
    BY <1>1, <2>1
  <2>4. QED
    BY <1>1, <2>2, <2>3
<1>3. QED
  BY <1>1, <1>2

(* A block has at least one chunk. *)
LEMMA RequiredPositive ==
  ASSUME NEW n \in Nat
  PROVE  Required(n) \in Nat /\ Required(n) >= 1
  BY DivFacts, ArenaAssumption DEF Required

(* The words of a block lie in its chunks, and never on its size tag.      *)
LEMMA CellsInSpan ==
  ASSUME NEW c \in Nat, NEW n \in Nat, NEW i \in 0 .. n - 1
  PROVE  /\ ChunkOf(c, i) \in c .. c + Required(n) - 1
         /\ WordOf(i) \in Word
         /\ ~(ChunkOf(c, i) = c /\ WordOf(i) = 0)
<1> DEFINE d == ChunkSize
<1>0. /\ 1 + i \in Nat /\ 1 + n \in Nat /\ 1 + i <= 1 + n
      /\ d \in Nat \ {0}
  BY ArenaAssumption
<1> HIDE DEF d
<1>1. /\ (1 + i) \div d \in Nat
      /\ (1 + i) % d \in 0 .. d - 1
      /\ 1 + i = d * ((1 + i) \div d) + ((1 + i) % d)
  BY <1>0, DivFacts
<1>2. (1 + i) \div d <= (1 + n) \div d
  BY <1>0, DivMonotone
<1>3. (1 + n) \div d \in Nat
  BY <1>0, DivFacts
<1>4. ASSUME ChunkOf(c, i) = c, WordOf(i) = 0 PROVE FALSE
  <2>1. (1 + i) \div d = 0 /\ (1 + i) % d = 0
    BY <1>1, <1>4 DEF ChunkOf, WordOf, d
  <2>2. d * 0 = 0
    BY <1>0
  <2>3. QED
    BY <1>0, <1>1, <2>1, <2>2
<1>5. QED
  BY <1>0, <1>1, <1>2, <1>3, <1>4 DEF ChunkOf, WordOf, Word, Required, d

(* find_dynamic_chunk and the room-ahead test return chunks that no flag   *)
(* inside the region marks.                                                *)
LEMMA FreeWindow ==
  ASSUME NEW c \in Nat, NEW n \in Nat, NEW slack \in BOOLEAN,
         AllFree(c, n, slack)
  PROVE  \A k \in Chunk : k \in c .. c + n - 1 => ~inUse[k]
  BY DEF AllFree

(* A block that lies inside the region has all its words there.            *)
LEMMA CellsInRegion ==
  ASSUME NEW c \in Nat, NEW n \in Nat, InRegion(c, Required(n)),
         NEW i \in 0 .. n - 1
  PROVE  ChunkOf(c, i) \in Chunk /\ WordOf(i) \in Word
<1>1. ChunkOf(c, i) \in c .. c + Required(n) - 1 /\ WordOf(i) \in Word
  BY CellsInSpan
<1>2. Required(n) \in Nat
  BY RequiredPositive
<1>3. QED
  BY <1>1, <1>2, ArenaAssumption DEF InRegion, Chunk

(* What every step keeps: the type of the dynamic region's state and the   *)
(* agreement of pointers, size tags and flags.                             *)
DynamicTypeOK ==
  /\ inUse \in [Chunk -> BOOLEAN]
  /\ region \in [Chunk -> [Word -> Nat]]
  /\ held \in [Clients -> Chunk \cup {NoChunk}]
  /\ size \in [Clients -> Nat]
  /\ status \in {"running", "exhausted", "overrun"}

IInv == DynamicTypeOK /\ TagsIntact /\ BlocksDisjoint /\ FlagsExact

(* A client without a block, whose pointer therefore is no chunk.          *)
LEMMA NoChunkIsNone == NoChunk \notin Chunk
  BY ArenaAssumption DEF NoChunk, Chunk

LEMMA InitIInv == Init => IInv
<1> SUFFICES ASSUME Init PROVE IInv
  OBVIOUS
<1> USE DEF Init, NoFlags, BlankRegion, NoneHeld, NoSizes
<1>1. DynamicTypeOK
  BY DEF DynamicTypeOK
<1>2. Holders = {}
  BY DEF Holders
<1>3. TagsIntact /\ BlocksDisjoint /\ FlagsExact
  BY <1>2 DEF TagsIntact, BlocksDisjoint, FlagsExact
<1>4. QED
  BY <1>1, <1>3 DEF IInv

LEMMA GoneIInv ==
  ASSUME MemoryIsGone, status' \in {"running", "exhausted", "overrun"}
  PROVE  IInv'
<1> USE DEF MemoryIsGone, NoFlags, BlankRegion, NoneHeld, NoSizes
<1>1. DynamicTypeOK'
  BY DEF DynamicTypeOK
<1>2. Holders' = {}
  BY DEF Holders
<1>3. TagsIntact' /\ BlocksDisjoint' /\ FlagsExact'
  BY <1>2 DEF TagsIntact, BlocksDisjoint, FlagsExact
<1>4. QED
  BY <1>1, <1>3 DEF IInv

(* The block of h becomes n words at chunk c: if the chunks it gains were  *)
(* free and the flags follow, pointers and flags still agree.              *)
LEMMA PlaceBlock ==
  ASSUME IInv, NEW h \in Clients, NEW c \in Chunk, NEW n \in Nat,
         InRegion(c, Required(n)),
         \A g \in Holders : g # h =>
            Span(g) \cap (c .. c + Required(n) - 1) = {},
         held' = [held EXCEPT ![h] = c],
         size' = [size EXCEPT ![h] = n],
         \A k \in Chunk : inUse'[k] <=>
            \/ k \in c .. c + Required(n) - 1
            \/ \E g \in Holders : g # h /\ k \in Span(g)
  PROVE  BlocksDisjoint' /\ FlagsExact'
<1> USE DEF IInv, DynamicTypeOK
<1>1. Holders' = Holders \cup {h}
  BY NoChunkIsNone DEF Holders
<1>2. /\ Span(h)' = c .. c + Required(n) - 1
      /\ \A g \in Clients : g # h => Span(g)' = Span(g)
  BY DEF Span
<1>3. Holders \subseteq Clients
  BY DEF Holders
<1>4. BlocksDisjoint'
  <2>1. \A g \in Holders' : InRegion(held'[g], Required(size'[g]))
    BY <1>1, <1>3 DEF BlocksDisjoint
  <2>2. ASSUME NEW f \in Holders', NEW g \in Holders', f # g
        PROVE  Span(f)' \cap Span(g)' = {}
    <3> f \in Clients /\ g \in Clients
      BY <1>1, <1>3
    <3>1. CASE f = h
      BY <2>2, <3>1, <1>1, <1>2
    <3>2. CASE g = h
      BY <2>2, <3>2, <1>1, <1>2
    <3>3. CASE f # h /\ g # h
      <4>1. Span(f)' = Span(f) /\ Span(g)' = Span(g)
        BY <3>3, <1>2
      <4>2. QED
        BY <2>2, <3>3, <4>1, <1>1 DEF BlocksDisjoint
    <3>4. QED
      BY <3>1, <3>2, <3>3
  <2>3. QED
    BY <2>1, <2>2 DEF BlocksDisjoint, InRegion
<1>5. FlagsExact'
  <2>1. ASSUME NEW k \in Chunk
        PROVE  inUse'[k] <=> \E g \in Holders' : k \in Span(g)'
    <3>1. (\E g \in Holders' : k \in Span(g)') <=>
            \/ k \in Span(h)'
            \/ \E g \in Holders : g # h /\ k \in Span(g)'
      BY <1>1
    <3>2. (\E g \in Holders : g # h /\ k \in Span(g)') <=>
            \E g \in Holders : g # h /\ k \in Span(g)
      BY <1>2, <1>3
    <3>3. QED
      BY <3>1, <3>2, <1>2
  <2>2. QED
    BY <2>1 DEF FlagsExact
<1>6. QED
  BY <1>4, <1>5

(* The block of h is given back: pointers and flags still agree.           *)
LEMMA DropBlock ==
  ASSUME IInv, NEW h \in Holders,
         held' = [held EXCEPT ![h] = NoChunk],
         size' = [size EXCEPT ![h] = 0],
         \A k \in Chunk : inUse'[k] <=> inUse[k] /\ k \notin Span(h)
  PROVE  BlocksDisjoint' /\ FlagsExact'
<1> USE DEF IInv, DynamicTypeOK
<1>1. Holders' = Holders \ {h} /\ Holders \subseteq Clients
  BY DEF Holders
<1>2. \A g \in Holders' : Span(g)' = Span(g) /\ held'[g] = held[g] /\ size'[g] = size[g]
  BY <1>1 DEF Span
<1>3. BlocksDisjoint'
  BY <1>1, <1>2 DEF BlocksDisjoint, InRegion
<1>4. FlagsExact'
  <2>1. ASSUME NEW k \in Chunk
        PROVE  inUse'[k] <=> \E g \in Holders' : k \in Span(g)'
    <3>1. inUse[k] <=> \E g \in Holders : k \in Span(g)
      BY DEF FlagsExact
    <3>2. \A g \in Holders : g # h => Span(g) \cap Span(h) = {}
      BY DEF BlocksDisjoint
    <3>3. (inUse[k] /\ k \notin Span(h)) <=> \E g \in Holders' : k \in Span(g)
      BY <3>1, <3>2, <1>1
    <3>4. (\E g \in Holders' : k \in Span(g)) <=> (\E g \in Holders' : k \in Span(g)')
      BY <1>2
    <3>5. QED
      BY <3>3, <3>4
  <2>2. QED
    BY <2>1 DEF FlagsExact
<1>5. QED
  BY <1>3, <1>4

(* A write of words of the block at chunk c spares the tag of that block   *)
(* and everything outside its chunks.                                      *)
LEMMA CellsSpareTags ==
  ASSUME NEW c \in Chunk, NEW lo \in Nat, NEW n \in Nat, NEW k \in Chunk,
         k = c \/ k \notin c .. c + Required(n) - 1
  PROVE  <<k, 0>> \notin Cells(c, lo, n)
<1> c \in Nat
  BY ArenaAssumption DEF Chunk
<1> SUFFICES ASSUME NEW i \in lo .. n - 1, k = ChunkOf(c, i), 0 = WordOf(i)
             PROVE FALSE
  BY DEF Cells
<1>1. i \in 0 .. n - 1
  OBVIOUS
<1>2. QED
  BY <1>1, CellsInSpan

Memory == [Chunk -> [Word -> Nat]]

(* Clearing and tagging keep the region a region, and the tags of others.  *)
LEMMA ZeroIsWord == 0 \in Word
  BY ArenaAssumption DEF Word

LEMMA WithTagFacts ==
  ASSUME NEW mem \in Memory, NEW c \in Chunk, NEW n \in Nat
  PROVE  /\ WithTag(mem, c, n) \in Memory
         /\ WithTag(mem, c, n)[c][0] = n
         /\ \A k \in Chunk : k # c => WithTag(mem, c, n)[k] = mem[k]
  BY ZeroIsWord DEF WithTag, Memory

LEMMA ClearedFacts ==
  ASSUME NEW mem \in Memory, NEW c \in Chunk, NEW lo \in Nat, NEW n \in Nat
  PROVE  /\ Cleared(mem, c, lo, n) \in Memory
         /\ \A k \in Chunk : (k = c \/ k \notin c .. c + Required(n) - 1)
               => Cleared(mem, c, lo, n)[k][0] = mem[k][0]
  BY ZeroIsWord, CellsSpareTags DEF Cleared, Memory

(* The two together, as the allocator combines them for a block of n words *)
(* whose words from lo on are cleared.                                     *)
LEMMA TaggedAndCleared ==
  ASSUME NEW mem \in Memory, NEW c \in Chunk, NEW n \in Nat,
         NEW lo \in Nat, NEW new,
         \/ new = Cleared(WithTag(mem, c, n), c, lo, n)
         \/ new = WithTag(Cleared(mem, c, lo, n), c, n)
  PROVE  /\ new \in Memory /\ new[c][0] = n
         /\ \A k \in Chunk : k \notin c .. c + Required(n) - 1
               => new[k][0] = mem[k][0]
<1>0. c \in c .. c + Required(n) - 1
  BY RequiredPositive, ArenaAssumption DEF Chunk
<1>1. CASE new = Cleared(WithTag(mem, c, n), c, lo, n)
  <2> DEFINE tagged == WithTag(mem, c, n)
  <2>1. /\ tagged \in Memory /\ tagged[c][0] = n
        /\ \A k \in Chunk : k # c => tagged[k] = mem[k]
    BY WithTagFacts
  <2>2. new = Cleared(tagged, c, lo, n)
    BY <1>1
  <2> HIDE DEF tagged
  <2> DEFINE clear == Cleared(tagged, c, lo, n)
  <2>3. /\ clear \in Memory
        /\ \A k \in Chunk : (k = c \/ k \notin c .. c + Required(n) - 1)
              => clear[k][0] = tagged[k][0]
    BY <2>1, ClearedFacts
  <2> HIDE DEF clear
  <2>4. new = clear
    BY <2>2 DEF clear
  <2>5. QED
    BY <2>1, <2>3, <2>4, <1>0
<1>2. CASE new = WithTag(Cleared(mem, c, lo, n), c, n)
  <2> DEFINE clear == Cleared(mem, c, lo, n)
  <2>1. /\ clear \in Memory
        /\ \A k \in Chunk : (k = c \/ k \notin c .. c + Required(n) - 1)
              => clear[k][0] = mem[k][0]
    BY ClearedFacts
  <2>2. new = WithTag(clear, c, n)
    BY <1>2
  <2> HIDE DEF clear
  <2>3. /\ new \in Memory /\ new[c][0] = n
        /\ \A k \in Chunk : k # c => new[k] = clear[k]
    BY <2>1, <2>2, WithTagFacts
  <2>4. QED
    BY <2>1, <2>3, <1>0
<1>3. QED
  BY <1>1, <1>2

(* The tags still agree when h's block gets the tag n at chunk c and the   *)
(* heads of the other blocks are spared.                                   *)
LEMMA TagsAfter ==
  ASSUME IInv, NEW h \in Clients, NEW c \in Chunk, NEW n \in Nat,
         held' = [held EXCEPT ![h] = c],
         size' = [size EXCEPT ![h] = n],
         region'[c][0] = n,
         \A g \in Holders : g # h => region'[held[g]][0] = region[held[g]][0]
  PROVE  TagsIntact'
<1> USE DEF IInv, DynamicTypeOK
<1> SUFFICES ASSUME NEW g \in Holders' PROVE TagOf(g)' = size'[g]
  BY DEF TagsIntact
<1>1. g \in Clients /\ (g # h => g \in Holders)
  BY DEF Holders
<1>2. CASE g = h
  BY <1>2 DEF TagOf
<1>3. CASE g # h
  BY <1>1, <1>3 DEF TagOf, TagsIntact
<1>4. QED
  BY <1>2, <1>3

(* No head of a block lies in a window of chunks that all others avoid.    *)
LEMMA HeadInSpan ==
  ASSUME IInv, NEW g \in Holders
  PROVE  held[g] \in Chunk /\ held[g] \in Span(g) /\ size[g] \in Nat /\ TagOf(g) = size[g]
<1>1. held[g] \in Chunk /\ size[g] \in Nat
  BY DEF IInv, DynamicTypeOK, Holders
<1>2. held[g] \in Span(g)
  BY <1>1, RequiredPositive, ArenaAssumption DEF Span, Chunk
<1>3. QED
  BY <1>1, <1>2 DEF IInv, TagsIntact

-----------------------------------------------------------------------------

(* One lemma per operation of the arena. *)

LEMMA SizesAreNat == Sizes \subseteq Nat
  BY ArenaAssumption

(* A window of free chunks meets no block. *)
LEMMA FreeWindowAvoidsBlocks ==
  ASSUME IInv, NEW c \in Nat, NEW n \in Nat, NEW slack \in BOOLEAN,
         AllFree(c, n, slack), InRegion(c, n), NEW g \in Holders
  PROVE  Span(g) \cap (c .. c + n - 1) = {}
<1> SUFFICES ASSUME NEW k \in Span(g), k \in c .. c + n - 1 PROVE FALSE
  OBVIOUS
<1>1. k \in Chunk
  BY ArenaAssumption DEF InRegion, Chunk
<1>2. inUse[k]
  BY <1>1 DEF IInv, FlagsExact
<1>3. ~inUse[k]
  BY <1>1, FreeWindow
<1>4. QED
  BY <1>2, <1>3

LEMMA AllocIInv ==
  ASSUME IInv, NEW h \in Clients, NEW n \in Sizes, DynamicAlloc(h, n)
  PROVE  IInv'
<1> n \in Nat
  BY SizesAreNat
<1> Required(n) \in Nat
  BY RequiredPositive
<1>1. PICK slack \in BOOLEAN, c \in Chunk :
        /\ Found(c, Required(n), slack)
        /\ InRegion(c, Required(n))
        /\ inUse' = MarkFrom(c, Required(n), TRUE)
        /\ region' = Cleared(WithTag(region, c, n), c, 0, n)
        /\ held' = [held EXCEPT ![h] = c]
        /\ size' = [size EXCEPT ![h] = n]
  BY DEF DynamicAlloc
<1> c \in Nat
  BY ArenaAssumption DEF Chunk
<1>2. h \notin Holders /\ Holders \subseteq Clients
  BY DEF DynamicAlloc, Holders
<1>3. \A g \in Holders : Span(g) \cap (c .. c + Required(n) - 1) = {}
  BY <1>1, FreeWindowAvoidsBlocks DEF Found
<1>4. \A k \in Chunk : inUse'[k] <=>
         \/ k \in c .. c + Required(n) - 1
         \/ \E g \in Holders : g # h /\ k \in Span(g)
  BY <1>1, <1>2 DEF MarkFrom, IInv, FlagsExact
<1>5. BlocksDisjoint' /\ FlagsExact'
  BY <1>1, <1>3, <1>4, PlaceBlock
<1>6. region \in Memory
  BY DEF IInv, DynamicTypeOK, Memory
<1>7. /\ region' \in Memory /\ region'[c][0] = n
      /\ \A k \in Chunk : k \notin c .. c + Required(n) - 1
            => region'[k][0] = region[k][0]
  BY <1>1, <1>6, TaggedAndCleared
<1>8. \A g \in Holders : region'[held[g]][0] = region[held[g]][0]
  <2> TAKE g \in Holders
  <2>1. held[g] \in Chunk /\ held[g] \notin c .. c + Required(n) - 1
    BY <1>3, HeadInSpan
  <2>2. QED
    BY <2>1, <1>7
<1>9. TagsIntact'
  BY <1>1, <1>7, <1>8, TagsAfter
<1>10. DynamicTypeOK'
  BY <1>1, <1>7 DEF DynamicTypeOK, IInv, MarkFrom, Memory, DynamicAlloc
<1>11. QED
  BY <1>5, <1>9, <1>10 DEF IInv

(* A resize that leaves the block at its chunk. *)
LEMMA ResizeInPlaceIInv ==
  ASSUME IInv, NEW h \in Holders, NEW n \in Nat, InRegion(held[h], Required(n)),
         NEW lo \in Nat,
         \/ region' = WithTag(region, held[h], n)
         \/ region' = WithTag(Cleared(region, held[h], lo, n), held[h], n),
         \A g \in Holders : g # h =>
            Span(g) \cap (held[h] .. held[h] + Required(n) - 1) = {},
         inUse' \in [Chunk -> BOOLEAN],
         \A k \in Chunk : inUse'[k] <=>
            \/ k \in held[h] .. held[h] + Required(n) - 1
            \/ \E g \in Holders : g # h /\ k \in Span(g),
         held' = held,
         size' = [size EXCEPT ![h] = n],
         status' = status
  PROVE  IInv'
<1> DEFINE c == held[h]
<1>1. c \in Chunk /\ h \in Clients
  BY HeadInSpan DEF Holders
<1>2. held' = [held EXCEPT ![h] = c]
  BY DEF IInv, DynamicTypeOK
<1>3. region \in Memory
  BY DEF IInv, DynamicTypeOK, Memory
<1>4. region' = WithTag(region, c, n) \/ region' = WithTag(Cleared(region, c, lo, n), c, n)
  OBVIOUS
<1>5. \A g \in Holders : g # h => Span(g) \cap (c .. c + Required(n) - 1) = {}
  OBVIOUS
<1>6. \A k \in Chunk : inUse'[k] <=>
         \/ k \in c .. c + Required(n) - 1
         \/ \E g \in Holders : g # h /\ k \in Span(g)
  OBVIOUS
<1>7. InRegion(c, Required(n))
  OBVIOUS
<1> HIDE DEF c
<1>8. BlocksDisjoint' /\ FlagsExact'
  BY <1>1, <1>2, <1>5, <1>6, <1>7, PlaceBlock
<1>9. /\ region' \in Memory /\ region'[c][0] = n
      /\ \A k \in Chunk : k \notin c .. c + Required(n) - 1
            => region'[k][0] = region[k][0]
  <2> DEFINE W == c .. c + Required(n) - 1
  <2>0. c \in W
    BY <1>1, RequiredPositive, ArenaAssumption DEF Chunk
  <2>1. CASE region' = WithTag(region, c, n)
    <3> DEFINE mem == WithTag(region, c, n)
    <3>1. /\ mem \in Memory /\ mem[c][0] = n
          /\ \A k \in Chunk : k # c => mem[k] = region[k]
      BY <1>1, <1>3, WithTagFacts
    <3>2. region' = mem
      BY <2>1
    <3> HIDE DEF mem, W
    <3>3. \A k \in Chunk : k \notin W => region'[k][0] = region[k][0]
      BY <2>0, <3>1, <3>2
    <3>4. QED
      BY <3>1, <3>2, <3>3 DEF W
  <2>2. CASE region' = WithTag(Cleared(region, c, lo, n), c, n)
    <3> DEFINE mem == WithTag(Cleared(region, c, lo, n), c, n)
    <3>1. /\ mem \in Memory /\ mem[c][0] = n
          /\ \A k \in Chunk : k \notin W => mem[k][0] = region[k][0]
      BY <1>1, <1>3, TaggedAndCleared
    <3>2. region' = mem
      BY <2>2
    <3> HIDE DEF mem
    <3>3. QED
      BY <3>1, <3>2
  <2>3. QED
    BY <1>4, <2>1, <2>2
<1>10. \A g \in Holders : g # h => region'[held[g]][0] = region[held[g]][0]
  <2> TAKE g \in Holders
  <2>1. held[g] \in Chunk /\ (g # h => held[g] \notin c .. c + Required(n) - 1)
    BY <1>5, HeadInSpan
  <2>2. QED
    BY <2>1, <1>9
<1>11. TagsIntact'
  BY <1>1, <1>2, <1>9, <1>10, TagsAfter
<1>12. DynamicTypeOK'
  BY <1>1, <1>9 DEF DynamicTypeOK, IInv, Memory
<1>13. QED
  BY <1>8, <1>11, <1>12 DEF IInv

LEMMA ResizeSameIInv ==
  ASSUME IInv, NEW h \in Holders, NEW n \in Nat, ResizeSameChunks(h, n),
         size' = [size EXCEPT ![h] = n], status' = status
  PROVE  IInv'
<1>1. TagOf(h) = size[h] /\ size[h] \in Nat /\ held[h] \in Chunk
  BY HeadInSpan
<1>2. Span(h) = held[h] .. held[h] + Required(n) - 1
  BY <1>1 DEF ResizeSameChunks, Span
<1>3. InRegion(held[h], Required(n))
  BY <1>1 DEF ResizeSameChunks, IInv, BlocksDisjoint
<1>4. \A g \in Holders : g # h => Span(g) \cap Span(h) = {}
  BY DEF IInv, BlocksDisjoint
<1>5. \A k \in Chunk : inUse'[k] <=>
         \/ k \in Span(h)
         \/ \E g \in Holders : g # h /\ k \in Span(g)
  BY DEF ResizeSameChunks, IInv, FlagsExact
<1>6. /\ inUse' \in [Chunk -> BOOLEAN] /\ held' = held
      /\ region' = WithTag(region, held[h], n)
  BY DEF ResizeSameChunks, IInv, DynamicTypeOK
<1>7. 0 \in Nat
  OBVIOUS
<1>8. \A g \in Holders : g # h =>
         Span(g) \cap (held[h] .. held[h] + Required(n) - 1) = {}
  BY <1>2, <1>4
<1>9. \A k \in Chunk : inUse'[k] <=>
         \/ k \in held[h] .. held[h] + Required(n) - 1
         \/ \E g \in Holders : g # h /\ k \in Span(g)
  BY <1>2, <1>5
<1>10. QED
  BY <1>3, <1>6, <1>7, <1>8, <1>9, ResizeInPlaceIInv

LEMMA GrowInPlaceIInv ==
  ASSUME IInv, NEW h \in Holders, NEW n \in Nat, GrowInPlace(h, n),
         size' = [size EXCEPT ![h] = n], status' = status
  PROVE  IInv'
<1> DEFINE c == held[h]
           old == Required(TagOf(h))
           new == Required(n)
<1>1. /\ TagOf(h) = size[h] /\ size[h] \in Nat /\ c \in Chunk /\ c \in Nat
      /\ old \in Nat /\ new \in Nat /\ old < new /\ Span(h) = c .. c + old - 1
      /\ InRegion(c, new)
  BY HeadInSpan, RequiredPositive, ArenaAssumption DEF GrowInPlace, Grows, Span, Chunk
<1>2. PICK slack \in BOOLEAN : AllFree(c + old, new - old, slack)
  BY DEF GrowInPlace, RoomAhead
<1>3. \A g \in Holders : g # h => Span(g) \cap Span(h) = {}
  BY DEF IInv, BlocksDisjoint
<1>4. \A g \in Holders : Span(g) \cap (c + old .. c + new - 1) = {}
  <2>1. InRegion(c + old, new - old) /\ c + old \in Nat /\ new - old \in Nat
    BY <1>1, ArenaAssumption DEF InRegion
  <2>2. (c + old) + (new - old) - 1 = c + new - 1
    BY <1>1
  <2>3. \A g \in Holders : Span(g) \cap (c + old .. (c + old) + (new - old) - 1) = {}
    BY <1>2, <2>1, FreeWindowAvoidsBlocks
  <2>4. QED
    BY <2>2, <2>3
<1>5. \A g \in Holders : g # h => Span(g) \cap (c .. c + new - 1) = {}
  <2> SUFFICES ASSUME NEW g \in Holders, g # h, NEW k \in Span(g),
                      k \in c .. c + new - 1
               PROVE FALSE
    OBVIOUS
  <2>1. k \in c .. c + old - 1 \/ k \in c + old .. c + new - 1
    BY <1>1
  <2>2. QED
    BY <1>1, <1>3, <1>4, <2>1
<1>6. \A k \in Chunk : inUse'[k] <=>
         \/ k \in c .. c + new - 1
         \/ \E g \in Holders : g # h /\ k \in Span(g)
  <2> TAKE k \in Chunk
  <2>1. inUse'[k] <=> (k \in c .. c + new - 1 \/ inUse[k])
    BY DEF GrowInPlace, MarkFrom
  <2>2. inUse[k] <=> \E g \in Holders : k \in Span(g)
    BY DEF IInv, FlagsExact
  <2>3. k \in Span(h) => k \in c .. c + new - 1
    BY <1>1
  <2>4. QED
    BY <2>1, <2>2, <2>3
<1>7. /\ inUse' \in [Chunk -> BOOLEAN] /\ held' = held
      /\ region' = WithTag(Cleared(region, c, TagOf(h), n), c, n)
  BY DEF GrowInPlace, IInv, DynamicTypeOK, MarkFrom
<1>8. TagOf(h) \in Nat
  BY <1>1
<1>9. QED
  BY <1>1, <1>5, <1>6, <1>7, <1>8, ResizeInPlaceIInv

LEMMA ShrinkIInv ==
  ASSUME IInv, NEW h \in Holders, NEW n \in Nat, Shrink(h, n),
         size' = [size EXCEPT ![h] = n], status' = status
  PROVE  IInv'
<1> DEFINE c == held[h]
           old == Required(TagOf(h))
           new == Required(n)
<1>1. /\ TagOf(h) = size[h] /\ size[h] \in Nat /\ c \in Chunk /\ c \in Nat
      /\ old \in Nat /\ new \in Nat /\ new < old /\ Span(h) = c .. c + old - 1
      /\ InRegion(c, old)
  BY HeadInSpan, RequiredPositive, ArenaAssumption
     DEF Shrink, Span, Chunk, IInv, BlocksDisjoint
<1>2. InRegion(c, new)
  BY <1>1, ArenaAssumption DEF InRegion
<1>3. \A g \in Holders : g # h => Span(g) \cap Span(h) = {}
  BY DEF IInv, BlocksDisjoint
<1>4. \A g \in Holders : g # h => Span(g) \cap (c .. c + new - 1) = {}
  <2>1. c .. c + new - 1 \subseteq Span(h)
    BY <1>1
  <2>2. QED
    BY <1>3, <2>1
<1>5. \A k \in Chunk : inUse'[k] <=>
         \/ k \in c .. c + new - 1
         \/ \E g \in Holders : g # h /\ k \in Span(g)
  <2> TAKE k \in Chunk
  <2>1. inUse'[k] <=> (k \notin c + new .. (c + new) + (old - new) - 1 /\ inUse[k])
    BY DEF Shrink, MarkFrom, IInv, DynamicTypeOK
  <2>2. inUse[k] <=> \E g \in Holders : k \in Span(g)
    BY DEF IInv, FlagsExact
  <2>3. k \in Nat
    BY ArenaAssumption DEF Chunk
  <2>4. k \in Span(h) <=> (k \in c .. c + new - 1
                           \/ k \in c + new .. (c + new) + (old - new) - 1)
    BY <1>1, <2>3
  <2>5. ~(k \in c .. c + new - 1 /\ k \in c + new .. (c + new) + (old - new) - 1)
    BY <1>1, <2>3
  <2>6. QED
    BY <1>3, <2>1, <2>2, <2>4, <2>5
<1>6. /\ inUse' \in [Chunk -> BOOLEAN] /\ held' = held
      /\ region' = WithTag(region, c, n)
  BY DEF Shrink, IInv, DynamicTypeOK, MarkFrom
<1>7. 0 \in Nat
  OBVIOUS
<1>8. QED
  BY <1>2, <1>4, <1>5, <1>6, <1>7, ResizeInPlaceIInv

(* A resize that copies the block to a free window and gives the old back. *)
LEMMA GrowByMovingIInv ==
  ASSUME IInv, NEW h \in Holders, NEW n \in Nat, GrowByMoving(h, n),
         size' = [size EXCEPT ![h] = n], status' = status
  PROVE  IInv'
<1> DEFINE tag == TagOf(h)
           old == held[h]
<1>1. /\ tag = size[h] /\ tag \in Nat /\ old \in Chunk /\ old \in Nat /\ h \in Clients
      /\ Required(tag) \in Nat /\ Required(n) \in Nat /\ Required(tag) < Required(n)
      /\ Span(h) = old .. old + Required(tag) - 1
      /\ InRegion(old, Required(tag))
  <2>1. tag = size[h] /\ size[h] \in Nat /\ old \in Chunk
    BY HeadInSpan
  <2>2. old \in Nat
    BY <2>1, ArenaAssumption DEF Chunk
  <2>3. Required(tag) < Required(n) /\ h \in Clients
    BY DEF GrowByMoving, Grows, Holders
  <2>4. Required(tag) \in Nat /\ Required(n) \in Nat
    BY <2>1, RequiredPositive
  <2>5. Span(h) = old .. old + Required(tag) - 1 /\ InRegion(old, Required(tag))
    BY <2>1 DEF Span, IInv, BlocksDisjoint
  <2>6. QED
    BY <2>1, <2>2, <2>3, <2>4, <2>5
<1>2. PICK c \in Chunk :
        /\ \E slack \in BOOLEAN : AllFree(c, Required(n), slack)
        /\ InRegion(c, Required(n))
        /\ inUse' = [k \in Chunk |->
                        IF k \in old .. old + Required(tag) - 1 THEN FALSE
                        ELSE MarkFrom(c, Required(n), TRUE)[k]]
        /\ region' = Cleared(WithTag(
             [k \in Chunk |-> [w \in Word |->
                IF <<k, w>> \in Cells(c, 0, tag) THEN region[old + (k - c)][w]
                ELSE region[k][w]]], c, n), c, tag, n)
        /\ held' = [held EXCEPT ![h] = c]
  BY DEF GrowByMoving, Found
<1> DEFINE W == c .. c + Required(n) - 1
           copied == [k \in Chunk |-> [w \in Word |->
                        IF <<k, w>> \in Cells(c, 0, tag) THEN region[old + (k - c)][w]
                        ELSE region[k][w]]]
<1> HIDE DEF tag, old
<1>3. c \in Nat
  BY ArenaAssumption DEF Chunk
<1>4. \A g \in Holders : Span(g) \cap W = {}
  BY <1>1, <1>2, <1>3, FreeWindowAvoidsBlocks
<1>5. \A k \in Chunk : inUse'[k] <=>
         \/ k \in W
         \/ \E g \in Holders : g # h /\ k \in Span(g)
  <2> TAKE k \in Chunk
  <2>1. inUse'[k] <=> k \notin Span(h) /\ (k \in W \/ inUse[k])
    BY <1>1, <1>2 DEF MarkFrom
  <2>2. inUse[k] <=> \E g \in Holders : k \in Span(g)
    BY DEF IInv, FlagsExact
  <2>3. \A g \in Holders : g # h => Span(g) \cap Span(h) = {}
    BY DEF IInv, BlocksDisjoint
  <2> HIDE DEF W
  <2>4. QED
    BY <1>4, <2>1, <2>2, <2>3
<1>6. BlocksDisjoint' /\ FlagsExact'
  BY <1>1, <1>2, <1>4, <1>5, PlaceBlock
<1>7. region \in Memory
  BY DEF IInv, DynamicTypeOK, Memory
<1>8. copied \in Memory
  <2> SUFFICES ASSUME NEW k \in Chunk, NEW w \in Word, <<k, w>> \in Cells(c, 0, tag)
               PROVE region[old + (k - c)][w] \in Nat
    BY <1>7 DEF Memory
  <2>1. PICK i \in 0 .. tag - 1 : k = ChunkOf(c, i)
    BY DEF Cells
  <2>2. k \in c .. c + Required(tag) - 1
    BY <1>1, <1>3, <2>1, CellsInSpan
  <2>3. old + (k - c) \in Chunk
    BY <1>1, <1>3, <2>2, ArenaAssumption DEF InRegion, Chunk
  <2>4. QED
    BY <1>7, <2>3 DEF Memory
<1>9. \A k \in Chunk : k \notin W => copied[k][0] = region[k][0]
  <2> TAKE k \in Chunk
  <2> HAVE k \notin W
  <2>1. k \notin c .. c + Required(tag) - 1
    BY <1>1, <1>3, ArenaAssumption DEF Chunk
  <2>2. <<k, 0>> \notin Cells(c, 0, tag)
    BY <1>1, <2>1, CellsSpareTags
  <2>3. QED
    BY <2>2, ZeroIsWord
<1> HIDE DEF copied
<1>10. /\ region' \in Memory /\ region'[c][0] = n
       /\ \A k \in Chunk : k \notin W => region'[k][0] = copied[k][0]
  <2> DEFINE mem == Cleared(WithTag(copied, c, n), c, tag, n)
  <2>1. /\ mem \in Memory /\ mem[c][0] = n
        /\ \A k \in Chunk : k \notin W => mem[k][0] = copied[k][0]
    BY <1>1, <1>8, TaggedAndCleared
  <2>2. region' = mem
    BY <1>2 DEF copied
  <2> HIDE DEF mem
  <2>3. QED
    BY <2>1, <2>2
<1>11. \A g \in Holders : g # h => region'[held[g]][0] = region[held[g]][0]
  <2> TAKE g \in Holders
  <2>1. held[g] \in Chunk /\ held[g] \notin W
    BY <1>4, HeadInSpan
  <2>2. QED
    BY <2>1, <1>9, <1>10
<1>12. TagsIntact'
  BY <1>1, <1>2, <1>10, <1>11, TagsAfter
<1>13. DynamicTypeOK'
  BY <1>1, <1>2, <1>10 DEF DynamicTypeOK, IInv, Memory, MarkFrom
<1>14. QED
  BY <1>6, <1>12, <1>13 DEF IInv

LEMMA ReallocIInv ==
  ASSUME IInv, NEW h \in Clients, NEW n \in Sizes, DynamicRealloc(h, n)
  PROVE  IInv'
<1>1. n \in Nat
  BY SizesAreNat
<1>2. h \in Holders /\ size' = [size EXCEPT ![h] = n] /\ status' = status
  BY DEF DynamicRealloc, Holders
<1>3. CASE ResizeSameChunks(h, n)
  BY <1>1, <1>2, <1>3, ResizeSameIInv
<1>4. CASE GrowInPlace(h, n)
  BY <1>1, <1>2, <1>4, GrowInPlaceIInv
<1>5. CASE GrowByMoving(h, n)
  BY <1>1, <1>2, <1>5, GrowByMovingIInv
<1>6. CASE Shrink(h, n)
  BY <1>1, <1>2, <1>6, ShrinkIInv
<1>7. QED
  BY <1>3, <1>4, <1>5, <1>6 DEF DynamicRealloc

(* arena_dynamic_free, alone or at the end of arena_dynamic_finalize.      *)
LEMMA FreedIInv ==
  ASSUME IInv, NEW h \in Clients, held[h] # NoChunk, Freed(h), status' = status
  PROVE  IInv'
<1>1. h \in Holders
  BY DEF Holders
<1>2. TagOf(h) = size[h]
  BY <1>1, HeadInSpan
<1>3. /\ held' = [held EXCEPT ![h] = NoChunk]
      /\ size' = [size EXCEPT ![h] = 0]
      /\ region' = region
  BY DEF Freed
<1>4. \A k \in Chunk : inUse'[k] <=> inUse[k] /\ k \notin Span(h)
  BY <1>2 DEF Freed, MarkFrom, Span, IInv, DynamicTypeOK
<1>5. BlocksDisjoint' /\ FlagsExact'
  BY <1>1, <1>3, <1>4, DropBlock
<1>6. TagsIntact'
  BY <1>3 DEF TagsIntact, TagOf, Holders, IInv, DynamicTypeOK
<1>7. DynamicTypeOK'
  <2>1. inUse' \in [Chunk -> BOOLEAN]
    BY DEF DynamicTypeOK, IInv, Freed, MarkFrom
  <2>2. held' \in [Clients -> Chunk \cup {NoChunk}] /\ size' \in [Clients -> Nat]
    BY <1>3 DEF DynamicTypeOK, IInv
  <2>3. QED
    BY <1>3, <2>1, <2>2 DEF DynamicTypeOK, IInv
<1>8. QED
  BY <1>5, <1>6, <1>7 DEF IInv

(* A client that writes inside its block writes no size tag.               *)
LEMMA FillIInv ==
  ASSUME IInv, NEW h \in Clients, NEW v \in Values, Fill(h, v)
  PROVE  IInv'
<1>1. v \in Nat
  BY ArenaAssumption
<1>2. h \in Holders
  BY DEF Fill, Holders
<1>3. /\ inUse' = inUse /\ held' = held /\ size' = size /\ status' = status
      /\ region' = [k \in Chunk |-> [w \in Word |->
           IF <<k, w>> \in Cells(held[h], 0, size[h]) THEN v ELSE region[k][w]]]
  BY DEF Fill
<1>4. Holders' = Holders /\ (\A g \in Holders : Span(g)' = Span(g))
  BY <1>3 DEF Holders, Span
<1>5. BlocksDisjoint' /\ FlagsExact'
  BY <1>3, <1>4 DEF IInv, BlocksDisjoint, FlagsExact, InRegion
<1>6. ASSUME NEW g \in Holders PROVE region'[held[g]][0] = region[held[g]][0]
  <2>1. held[g] \in Chunk /\ held[h] \in Chunk /\ size[h] \in Nat /\ held[g] \in Span(g)
    BY <1>2, HeadInSpan
  <2>2. held[g] = held[h] \/ held[g] \notin held[h] .. held[h] + Required(size[h]) - 1
    BY <1>2, <2>1 DEF IInv, BlocksDisjoint, Span
  <2>3. <<held[g], 0>> \notin Cells(held[h], 0, size[h])
    BY <2>1, <2>2, CellsSpareTags
  <2>4. QED
    BY <1>3, <2>1, <2>3, ZeroIsWord
<1>7. TagsIntact'
  BY <1>3, <1>4, <1>6 DEF IInv, TagsIntact, TagOf
<1>8. DynamicTypeOK'
  BY <1>1, <1>3 DEF IInv, DynamicTypeOK
<1>9. QED
  BY <1>5, <1>7, <1>8 DEF IInv

(* A step that leaves the dynamic region alone.                            *)
LEMMA UnchangedIInv ==
  ASSUME IInv, UNCHANGED <<dynamic, status>>
  PROVE  IInv'
<1> inUse' = inUse /\ region' = region /\ held' = held /\ size' = size /\ status' = status
  BY DEF dynamic
<1>1. Holders' = Holders /\ (\A g \in Holders : Span(g)' = Span(g) /\ TagOf(g)' = TagOf(g))
  BY DEF Holders, Span, TagOf
<1>2. QED
  BY <1>1 DEF IInv, DynamicTypeOK, TagsIntact, BlocksDisjoint, FlagsExact, InRegion

(* Every step of the arena keeps pointers, size tags and flags in          *)
(* agreement.                                                              *)
LEMMA NextIInv ==
  ASSUME IInv, [Next]_vars
  PROVE  IInv'
<1>1. ASSUME NEW h \in Clients, NEW n \in Sizes, DynamicAlloc(h, n) PROVE IInv'
  BY <1>1, AllocIInv
<1>2. ASSUME NEW h \in Clients, NEW n \in Sizes, DynamicRealloc(h, n) PROVE IInv'
  BY <1>2, ReallocIInv
<1>3. ASSUME NEW h \in Clients, DynamicFree(h) PROVE IInv'
  <2>1. held[h] # NoChunk /\ Freed(h) /\ status' = status
    BY <1>3 DEF DynamicFree
  <2>2. QED
    BY <2>1, FreedIInv
<1>4. ASSUME NEW h \in Clients, DynamicFinalize(h) PROVE IInv'
  <2>1. held[h] # NoChunk /\ Freed(h) /\ status' = status
    BY <1>4 DEF DynamicFinalize
  <2>2. QED
    BY <2>1, FreedIInv
<1>5. ASSUME NEW h \in Clients, NEW v \in Values, Fill(h, v) PROVE IInv'
  BY <1>5, FillIInv
<1>6. ASSUME NEW n \in Sizes, Alloc(n) PROVE IInv'
  <2>1. UNCHANGED <<dynamic, status>>
    BY <1>6 DEF Alloc
  <2>2. QED
    BY <2>1, UnchangedIInv
<1>7. ASSUME NEW s \in DOMAIN issued, NEW v \in Values, FillStatic(s, v) PROVE IInv'
  <2>1. UNCHANGED <<dynamic, status>>
    BY <1>7 DEF FillStatic
  <2>2. QED
    BY <2>1, UnchangedIInv
<1>8. CASE Exhausted
  BY <1>8, GoneIInv DEF Exhausted
<1>9. CASE Overrun
  BY <1>9, GoneIInv DEF Overrun
<1>10. CASE UNCHANGED vars
  <2>1. UNCHANGED <<dynamic, status>>
    BY <1>10 DEF vars, dynamic
  <2>2. QED
    BY <2>1, UnchangedIInv
<1>11. QED
  BY <1>1, <1>2, <1>3, <1>4, <1>5, <1>6, <1>7, <1>8, <1>9, <1>10 DEF Next

-----------------------------------------------------------------------------

(* The inductive invariant of the allocator's dynamic half.                *)
THEOREM ArenaInvariant == Spec => []IInv
  BY InitIInv, NextIInv, PTL DEF Spec

(* arena_dynamic_realloc, _finalize and _free read the size of a block     *)
(* from the word in front of it: that word is the size its holder asked    *)
(* for, in every reachable state.                                          *)
THEOREM TagsStayIntact == Spec => []TagsIntact
<1>1. IInv => TagsIntact
  BY DEF IInv
<1>2. QED
  BY <1>1, ArenaInvariant, PTL

(* find_dynamic_chunk and the room-ahead test never hand out a chunk that  *)
(* another client holds, and no block passes the end of the region.        *)
THEOREM BlocksStayDisjoint == Spec => []BlocksDisjoint
<1>1. IInv => BlocksDisjoint
  BY DEF IInv
<1>2. QED
  BY <1>1, ArenaInvariant, PTL

(* dynamic_chunks_in_use marks exactly the chunks of the blocks in use, so *)
(* no chunk is lost by growing, shrinking, moving or freeing.              *)
THEOREM FlagsStayExact == Spec => []FlagsExact
<1>1. IInv => FlagsExact
  BY DEF IInv
<1>2. QED
  BY <1>1, ArenaInvariant, PTL

-----------------------------------------------------------------------------
(***************************************************************************)
(* The static half: static blocks never overlap, and what has not been     *)
(* handed out is still clear.                                              *)
(***************************************************************************)

StaticChunks == [capacity : Nat, head : Nat, buffer : Seq(Nat)]
StaticBlocks == [chunk : Nat, offset : Nat, size : Nat]

(* Every chunk is used up to its head, and clear behind it.                *)
ChunksInv(chunks) ==
  /\ chunks \in Seq(StaticChunks)
  /\ \A c \in DOMAIN chunks :
       /\ Len(chunks[c].buffer) = chunks[c].capacity
       /\ chunks[c].head <= chunks[c].capacity
       /\ \A i \in chunks[c].head + 1 .. chunks[c].capacity : chunks[c].buffer[i] = 0

Apart(a, b) ==
  a.chunk = b.chunk => a.offset + a.size <= b.offset \/ b.offset + b.size <= a.offset

(* Every block handed out is in the used part of a chunk.                  *)
IssuedInv(blocks, chunks) ==
  /\ blocks \in Seq(StaticBlocks)
  /\ \A s \in DOMAIN blocks :
       /\ blocks[s].chunk \in DOMAIN chunks
       /\ blocks[s].offset + blocks[s].size <= chunks[blocks[s].chunk].head
  /\ \A s, t \in DOMAIN blocks : s # t => Apart(blocks[s], blocks[t])

SInv ==
  /\ ChunksInv(statics)
  /\ current \in DOMAIN statics
  /\ IssuedInv(issued, statics)

-----------------------------------------------------------------------------

(* A new chunk is clear.                                                   *)
LEMMA CleanStaticFacts ==
  ASSUME NEW cap \in Nat, NEW n \in Nat
  PROVE  /\ CleanStatic(cap, n) \in StaticChunks
         /\ CleanStatic(cap, n).head = n
         /\ CleanStatic(cap, n).capacity = cap
         /\ Len(CleanStatic(cap, n).buffer) = cap
         /\ \A i \in 1 .. cap : CleanStatic(cap, n).buffer[i] = 0
<1> DEFINE zeros == [i \in 1 .. cap |-> 0]
<1>1. zeros \in Seq(Nat) /\ Len(zeros) = cap /\ \A i \in 1 .. cap : zeros[i] = 0
  OBVIOUS
<1> HIDE DEF zeros
<1>2. CleanStatic(cap, n) = [capacity |-> cap, head |-> n, buffer |-> zeros]
  BY DEF CleanStatic, zeros
<1>3. QED
  BY <1>1, <1>2 DEF StaticChunks

(* A block of its own chunk: the chunk is added, full or with room left.   *)
LEMMA ChunkAdded ==
  ASSUME NEW chunks, ChunksInv(chunks), NEW cap \in Nat, NEW n \in Nat, n <= cap
  PROVE  LET more == Append(chunks, CleanStatic(cap, n))
         IN  /\ ChunksInv(more)
             /\ Len(more) = Len(chunks) + 1
             /\ more[Len(chunks) + 1] = CleanStatic(cap, n)
             /\ \A c \in DOMAIN chunks : c \in DOMAIN more /\ more[c] = chunks[c]
<1> DEFINE chunk == CleanStatic(cap, n)
           more == Append(chunks, chunk)
<1>1. /\ chunk \in StaticChunks /\ chunk.head = n /\ chunk.capacity = cap
      /\ Len(chunk.buffer) = cap /\ \A i \in 1 .. cap : chunk.buffer[i] = 0
  BY CleanStaticFacts
<1> HIDE DEF chunk
<1>2. /\ chunks \in Seq(StaticChunks)
      /\ more \in Seq(StaticChunks)
      /\ Len(more) = Len(chunks) + 1
      /\ more[Len(chunks) + 1] = chunk
      /\ \A c \in DOMAIN chunks : c \in DOMAIN more /\ more[c] = chunks[c]
      /\ \A c \in DOMAIN more : c \in DOMAIN chunks \/ c = Len(chunks) + 1
  BY <1>1 DEF ChunksInv
<1> HIDE DEF more
<1>3. ChunksInv(more)
  <2> SUFFICES ASSUME NEW c \in DOMAIN more
               PROVE  /\ Len(more[c].buffer) = more[c].capacity
                      /\ more[c].head <= more[c].capacity
                      /\ \A i \in more[c].head + 1 .. more[c].capacity :
                           more[c].buffer[i] = 0
    BY <1>2 DEF ChunksInv
  <2>1. CASE c \in DOMAIN chunks
    BY <1>2, <2>1 DEF ChunksInv
  <2>2. CASE c = Len(chunks) + 1
    BY <1>1, <1>2, <2>2
  <2>3. QED
    BY <1>2, <2>1, <2>2
<1>4. QED
  BY <1>2, <1>3 DEF more, chunk

(* A block behind the last one of a chunk: the head moves.                 *)
LEMMA HeadMoved ==
  ASSUME NEW chunks, ChunksInv(chunks), NEW c \in DOMAIN chunks, NEW n \in Nat,
         chunks[c].head + n <= chunks[c].capacity
  PROVE  LET moved == [chunks EXCEPT ![c].head = @ + n]
         IN  /\ ChunksInv(moved)
             /\ Len(moved) = Len(chunks) /\ DOMAIN moved = DOMAIN chunks
             /\ moved[c].head = chunks[c].head + n
             /\ \A d \in DOMAIN chunks : moved[d].buffer = chunks[d].buffer
             /\ \A d \in DOMAIN chunks : chunks[d].head <= moved[d].head
<1> DEFINE moved == [chunks EXCEPT ![c].head = @ + n]
<1>1. /\ chunks \in Seq(StaticChunks)
      /\ \A d \in DOMAIN chunks : chunks[d] \in StaticChunks
  BY DEF ChunksInv
<1>2. /\ DOMAIN moved = DOMAIN chunks
      /\ moved[c] = [chunks[c] EXCEPT !.head = @ + n]
      /\ \A d \in DOMAIN chunks : d # c => moved[d] = chunks[d]
  BY <1>1
<1>3. /\ moved[c] \in StaticChunks
      /\ moved[c].head = chunks[c].head + n
      /\ moved[c].capacity = chunks[c].capacity
      /\ moved[c].buffer = chunks[c].buffer
  BY <1>1, <1>2 DEF StaticChunks
<1>4. moved \in Seq(StaticChunks) /\ Len(moved) = Len(chunks)
  <2>1. \A d \in DOMAIN chunks : moved[d] \in StaticChunks
    BY <1>1, <1>2, <1>3
  <2>2. DOMAIN chunks = 1 .. Len(chunks) /\ Len(chunks) \in Nat
    BY <1>1
  <2>3. moved \in [1 .. Len(chunks) -> StaticChunks]
    BY <1>2, <2>1, <2>2
  <2> HIDE DEF moved
  <2>4. QED
    BY <2>2, <2>3
<1> HIDE DEF moved
<1>5. \A d \in DOMAIN chunks :
        /\ chunks[d].head \in Nat
        /\ moved[d].buffer = chunks[d].buffer
        /\ moved[d].capacity = chunks[d].capacity
        /\ chunks[d].head <= moved[d].head
        /\ moved[d].head \in Nat
        /\ moved[d].head <= moved[d].capacity
  <2> SUFFICES ASSUME NEW d \in DOMAIN chunks
               PROVE  /\ chunks[d].head \in Nat
                      /\ moved[d].buffer = chunks[d].buffer
                      /\ moved[d].capacity = chunks[d].capacity
                      /\ chunks[d].head <= moved[d].head
                      /\ moved[d].head \in Nat
                      /\ moved[d].head <= moved[d].capacity
    OBVIOUS
  <2>1. chunks[d].head \in Nat /\ chunks[d].head <= chunks[d].capacity
    BY <1>1 DEF ChunksInv, StaticChunks
  <2>2. CASE d = c
    BY <1>3, <2>1, <2>2
  <2>3. CASE d # c
    BY <1>2, <2>1, <2>3
  <2>4. QED
    BY <2>2, <2>3
<1>6. ChunksInv(moved)
  <2> SUFFICES ASSUME NEW d \in DOMAIN moved
               PROVE  /\ Len(moved[d].buffer) = moved[d].capacity
                      /\ moved[d].head <= moved[d].capacity
                      /\ \A i \in moved[d].head + 1 .. moved[d].capacity :
                           moved[d].buffer[i] = 0
    BY <1>4 DEF ChunksInv
  <2>1. d \in DOMAIN chunks
    BY <1>2
  <2>2. \A i \in moved[d].head + 1 .. moved[d].capacity :
          i \in chunks[d].head + 1 .. chunks[d].capacity
    BY <1>5, <2>1
  <2>3. QED
    BY <1>5, <2>1, <2>2 DEF ChunksInv
<1>7. QED
  BY <1>2, <1>3, <1>4, <1>5, <1>6 DEF moved

(* What is known of a single chunk.                                        *)
LEMMA ChunkFacts ==
  ASSUME NEW chunks, ChunksInv(chunks)
  PROVE  /\ chunks \in Seq(StaticChunks) /\ Len(chunks) \in Nat
         /\ DOMAIN chunks = 1 .. Len(chunks)
         /\ \A c \in DOMAIN chunks :
              /\ c \in Nat
              /\ chunks[c] \in StaticChunks
              /\ chunks[c].head \in Nat /\ chunks[c].capacity \in Nat
              /\ chunks[c].head <= chunks[c].capacity
              /\ chunks[c].buffer \in Seq(Nat)
              /\ DOMAIN chunks[c].buffer = 1 .. chunks[c].capacity
<1>1. chunks \in Seq(StaticChunks) /\ Len(chunks) \in Nat /\ DOMAIN chunks = 1 .. Len(chunks)
  BY DEF ChunksInv
<1> SUFFICES ASSUME NEW c \in DOMAIN chunks
             PROVE  /\ c \in Nat
                    /\ chunks[c] \in StaticChunks
                    /\ chunks[c].head \in Nat /\ chunks[c].capacity \in Nat
                    /\ chunks[c].head <= chunks[c].capacity
                    /\ chunks[c].buffer \in Seq(Nat)
                    /\ DOMAIN chunks[c].buffer = 1 .. chunks[c].capacity
  BY <1>1
<1>2. c \in Nat /\ chunks[c] \in StaticChunks
  BY <1>1
<1>3. /\ chunks[c].head \in Nat /\ chunks[c].capacity \in Nat
      /\ chunks[c].buffer \in Seq(Nat)
  BY <1>2 DEF StaticChunks
<1>4. Len(chunks[c].buffer) = chunks[c].capacity /\ chunks[c].head <= chunks[c].capacity
  BY DEF ChunksInv
<1>5. QED
  BY <1>2, <1>3, <1>4

(* A block that was not in use, and is clear.                              *)
FreshIn(chunks, block, n) ==
  /\ block \in StaticBlocks /\ block.size = n
  /\ block.chunk \in DOMAIN chunks
  /\ block.offset + n <= chunks[block.chunk].head
  /\ \A i \in 1 .. n : chunks[block.chunk].buffer[block.offset + i] = 0
  /\ block.chunk \in DOMAIN statics => statics[block.chunk].head <= block.offset

(* The chunks there were have the words they had, and are used as far.     *)
Extends(chunks) ==
  \A c \in DOMAIN statics :
    /\ c \in DOMAIN chunks
    /\ statics[c].head <= chunks[c].head
    /\ chunks[c].buffer = statics[c].buffer

LEMMA BlockInNewChunk ==
  ASSUME ChunksInv(statics), NEW cap \in Nat, NEW n \in Nat, n <= cap
  PROVE  LET more == Append(statics, CleanStatic(cap, n))
             next == Len(statics) + 1
         IN  /\ ChunksInv(more) /\ next \in DOMAIN more /\ Extends(more)
             /\ FreshIn(more, StaticBlock(next, 0, n), n)
<1> DEFINE chunk == CleanStatic(cap, n)
           more == Append(statics, chunk)
           next == Len(statics) + 1
           block == StaticBlock(next, 0, n)
<1>1. /\ ChunksInv(more) /\ Len(more) = next /\ more[next] = chunk
      /\ \A c \in DOMAIN statics : c \in DOMAIN more /\ more[c] = statics[c]
  BY ChunkAdded
<1>2. chunk.head = n /\ \A i \in 1 .. cap : chunk.buffer[i] = 0
  BY CleanStaticFacts
<1> HIDE DEF chunk, more
<1>3. next \in Nat /\ next \in DOMAIN more /\ next \notin DOMAIN statics
  <2>1. Len(statics) \in Nat /\ DOMAIN statics = 1 .. Len(statics)
    BY ChunkFacts
  <2>2. DOMAIN more = 1 .. Len(more)
    BY <1>1, ChunkFacts
  <2>3. QED
    BY <1>1, <2>1, <2>2
<1>4. block.chunk = next /\ block.offset = 0 /\ block.size = n /\ block \in StaticBlocks
  BY <1>3 DEF StaticBlock, StaticBlocks
<1>5. Extends(more)
  <2>1. \A c \in DOMAIN statics : statics[c].head <= statics[c].head
    BY ChunkFacts
  <2>2. QED
    BY <1>1, <2>1 DEF Extends
<1>6. FreshIn(more, block, n)
  <2> HIDE DEF next, block
  <2>1. \A i \in 1 .. n : 0 + i \in 1 .. cap
    OBVIOUS
  <2>2. \A i \in 1 .. n : more[block.chunk].buffer[block.offset + i] = 0
    BY <1>1, <1>2, <1>4, <2>1
  <2>3. QED
    BY <1>1, <1>2, <1>3, <1>4, <2>2 DEF FreshIn
<1>7. QED
  BY <1>1, <1>3, <1>5, <1>6 DEF more, chunk

LEMMA BlockBehindHead ==
  ASSUME ChunksInv(statics), NEW c \in DOMAIN statics, NEW n \in Nat,
         statics[c].head + n <= statics[c].capacity
  PROVE  LET moved == [statics EXCEPT ![c].head = @ + n]
         IN  /\ ChunksInv(moved) /\ c \in DOMAIN moved /\ Extends(moved)
             /\ FreshIn(moved, StaticBlock(c, statics[c].head, n), n)
<1> DEFINE moved == [statics EXCEPT ![c].head = @ + n]
           head == statics[c].head
           block == StaticBlock(c, head, n)
<1>1. /\ ChunksInv(moved) /\ DOMAIN moved = DOMAIN statics
      /\ moved[c].head = head + n
      /\ \A d \in DOMAIN statics : moved[d].buffer = statics[d].buffer
      /\ \A d \in DOMAIN statics : statics[d].head <= moved[d].head
  BY HeadMoved
<1> HIDE DEF moved
<1>2. c \in Nat /\ head \in Nat /\ statics[c].capacity \in Nat
  BY ChunkFacts
<1>3. block.chunk = c /\ block.offset = head /\ block.size = n /\ block \in StaticBlocks
  BY <1>2 DEF StaticBlock, StaticBlocks
<1>4. \A i \in 1 .. n : statics[c].buffer[head + i] = 0
  <2>1. \A i \in 1 .. n : head + i \in head + 1 .. statics[c].capacity
    BY <1>2
  <2>2. QED
    BY <2>1 DEF ChunksInv
<1>5. FreshIn(moved, block, n)
  <2> HIDE DEF head, block
  <2>1. head <= head
    BY <1>2
  <2>2. QED
    BY <1>1, <1>2, <1>3, <1>4, <2>1 DEF FreshIn, head
<1>6. Extends(moved)
  BY <1>1 DEF Extends
<1>7. QED
  BY <1>1, <1>5, <1>6 DEF moved

(* What arena_alloc hands out is fresh.                                    *)
LEMMA AllocResultFacts ==
  ASSUME ChunksInv(statics), current \in DOMAIN statics, NEW n \in Nat,
         NEW r, r = AllocResult(n)
  PROVE  /\ ChunksInv(r.chunks)
         /\ r.current \in DOMAIN r.chunks
         /\ Extends(r.chunks)
         /\ FreshIn(r.chunks, r.block, n)
<1> DEFINE cur == statics[current]
           next == Len(statics) + 1
<1>1. cur.head \in Nat /\ cur.capacity \in Nat /\ StaticMin \in Nat
  BY ChunkFacts, ArenaAssumption
<1>2. CASE n >= StaticMin
  <2>1. r = [chunks |-> Append(statics, CleanStatic(n, n)),
             current |-> current, block |-> StaticBlock(next, 0, n)]
    BY <1>1, <1>2 DEF AllocResult
  <2>2. /\ r.chunks = Append(statics, CleanStatic(n, n))
        /\ r.current = current /\ r.block = StaticBlock(next, 0, n)
    BY <2>1
  <2>3. n <= n
    OBVIOUS
  <2>4. /\ ChunksInv(r.chunks) /\ Extends(r.chunks) /\ FreshIn(r.chunks, r.block, n)
    BY <2>2, <2>3, BlockInNewChunk
  <2>5. QED
    BY <2>2, <2>4 DEF Extends
<1>3. CASE n < StaticMin /\ cur.head + n > cur.capacity
  <2>1. r = [chunks |-> Append(statics, CleanStatic(StaticMin, n)),
             current |-> next, block |-> StaticBlock(next, 0, n)]
    BY <1>1, <1>3 DEF AllocResult
  <2>2. /\ r.chunks = Append(statics, CleanStatic(StaticMin, n))
        /\ r.current = next /\ r.block = StaticBlock(next, 0, n)
    BY <2>1
  <2>3. n <= StaticMin
    BY <1>1, <1>3
  <2>4. QED
    BY <1>1, <2>2, <2>3, BlockInNewChunk
<1>4. CASE n < StaticMin /\ cur.head + n <= cur.capacity
  <2>1. r = [chunks |-> [statics EXCEPT ![current].head = @ + n],
             current |-> current, block |-> StaticBlock(current, cur.head, n)]
    BY <1>1, <1>4 DEF AllocResult
  <2>2. /\ r.chunks = [statics EXCEPT ![current].head = @ + n]
        /\ r.current = current /\ r.block = StaticBlock(current, cur.head, n)
    BY <2>1
  <2>3. QED
    BY <1>4, <2>2, BlockBehindHead
<1>5. QED
  BY <1>1, <1>2, <1>3, <1>4

(* A function on 1 .. n is a sequence of length n.                         *)
LEMMA WordsAreSeq ==
  ASSUME NEW n \in Nat, NEW f \in [1 .. n -> Nat]
  PROVE  f \in Seq(Nat) /\ Len(f) = n
OBVIOUS

(* Writing a block changes its words and nothing else.                     *)
LEMMA WrittenFacts ==
  ASSUME NEW chunks, ChunksInv(chunks), NEW b \in StaticBlocks,
         b.chunk \in DOMAIN chunks, b.offset + b.size <= chunks[b.chunk].head,
         NEW data \in Seq(Nat), Len(data) = b.size
  PROVE  LET w == Written(chunks, b, data)
         IN  /\ ChunksInv(w)
             /\ DOMAIN w = DOMAIN chunks
             /\ \A c \in DOMAIN chunks : w[c].head = chunks[c].head
             /\ \A c \in DOMAIN chunks : c # b.chunk => w[c] = chunks[c]
             /\ \A i \in DOMAIN chunks[b.chunk].buffer :
                  w[b.chunk].buffer[i] =
                    IF i \in b.offset + 1 .. b.offset + b.size THEN data[i - b.offset]
                    ELSE chunks[b.chunk].buffer[i]
<1> DEFINE w == Written(chunks, b, data)
           old == chunks[b.chunk]
           buffer == [i \in DOMAIN old.buffer |->
                        IF i \in b.offset + 1 .. b.offset + b.size
                        THEN data[i - b.offset] ELSE old.buffer[i]]
<1>1. /\ chunks \in Seq(StaticChunks) /\ old \in StaticChunks
      /\ b.offset \in Nat /\ b.size \in Nat
      /\ old.buffer \in Seq(Nat) /\ Len(old.buffer) = old.capacity
      /\ old.capacity \in Nat /\ old.head \in Nat /\ old.head <= old.capacity
      /\ DOMAIN old.buffer = 1 .. old.capacity
  <2>1. b.offset \in Nat /\ b.size \in Nat
    BY DEF StaticBlocks
  <2>2. Len(old.buffer) = old.capacity
    BY DEF ChunksInv
  <2>3. QED
    BY <2>1, <2>2, ChunkFacts
<1>2. /\ DOMAIN w = DOMAIN chunks
      /\ w[b.chunk] = [old EXCEPT !.buffer = buffer]
      /\ \A c \in DOMAIN chunks : c # b.chunk => w[c] = chunks[c]
  BY <1>1 DEF Written
<1>3. buffer \in [1 .. old.capacity -> Nat]
  <2>1. \A i \in b.offset + 1 .. b.offset + b.size : data[i - b.offset] \in Nat
    <3>1. \A i \in b.offset + 1 .. b.offset + b.size : i - b.offset \in 1 .. Len(data)
      BY <1>1
    <3>2. QED
      BY <3>1
  <2>2. \A i \in DOMAIN old.buffer : old.buffer[i] \in Nat
    BY <1>1
  <2>3. QED
    BY <1>1, <2>1, <2>2
<1>4. \A i \in DOMAIN old.buffer :
        buffer[i] = IF i \in b.offset + 1 .. b.offset + b.size
                    THEN data[i - b.offset] ELSE old.buffer[i]
  OBVIOUS
<1> HIDE DEF buffer, w
<1>5. buffer \in Seq(Nat) /\ Len(buffer) = old.capacity
  BY <1>1, <1>3, WordsAreSeq
<1>6. /\ w[b.chunk] \in StaticChunks
      /\ w[b.chunk].head = old.head /\ w[b.chunk].capacity = old.capacity
      /\ w[b.chunk].buffer = buffer
  BY <1>1, <1>2, <1>5 DEF StaticChunks
<1>7. w \in Seq(StaticChunks)
  <2>1. ASSUME NEW d \in DOMAIN chunks
        PROVE  w[d] \in StaticChunks
    <3>1. CASE d = b.chunk
      BY <1>6, <3>1
    <3>2. CASE d # b.chunk
      <4>1. w[d] = chunks[d]
        BY <1>2, <3>2
      <4>2. chunks[d] \in StaticChunks
        BY ChunkFacts
      <4>3. QED
        BY <4>1, <4>2
    <3>3. QED
      BY <3>1, <3>2
  <2>2. DOMAIN chunks = 1 .. Len(chunks) /\ Len(chunks) \in Nat
    BY <1>1
  <2>3. w \in [1 .. Len(chunks) -> StaticChunks]
    <3>1. w = [d \in 1 .. Len(chunks) |-> w[d]]
      BY <1>2, <2>2 DEF w, Written
    <3>2. QED
      BY <2>1, <2>2, <3>1
  <2>4. QED
    BY <2>2, <2>3
<1>8. ChunksInv(w)
  <2> SUFFICES ASSUME NEW d \in DOMAIN w
               PROVE  /\ Len(w[d].buffer) = w[d].capacity
                      /\ w[d].head <= w[d].capacity
                      /\ \A i \in w[d].head + 1 .. w[d].capacity : w[d].buffer[i] = 0
    BY <1>7 DEF ChunksInv
  <2>1. CASE d # b.chunk
    BY <1>2, <2>1 DEF ChunksInv
  <2>2. CASE d = b.chunk
    <3>1. ASSUME NEW i \in old.head + 1 .. old.capacity
          PROVE  buffer[i] = 0
      <4>1. i \in DOMAIN old.buffer /\ i \notin b.offset + 1 .. b.offset + b.size
        BY <1>1
      <4>2. old.buffer[i] = 0
        BY DEF ChunksInv
      <4>3. QED
        BY <1>4, <4>1, <4>2
    <3>2. QED
      BY <1>1, <1>5, <1>6, <2>2, <3>1
  <2>3. QED
    BY <2>1, <2>2
<1>9. \A c \in DOMAIN chunks : w[c].head = chunks[c].head
  BY <1>2, <1>6
<1>10. QED
  BY <1>2, <1>4, <1>6, <1>8, <1>9 DEF w

LEMMA StaticBlockFacts ==
  ASSUME NEW b \in StaticBlocks
  PROVE  b.chunk \in Nat /\ b.offset \in Nat /\ b.size \in Nat
  BY DEF StaticBlocks

(* A fresh block lies apart from all that were handed out before.          *)
LEMMA FreshIsApart ==
  ASSUME SInv, NEW chunks, ChunksInv(chunks), Extends(chunks),
         NEW n \in Nat, NEW block, FreshIn(chunks, block, n)
  PROVE  IssuedInv(Append(issued, block), chunks)
<1> DEFINE more == Append(issued, block)
           last == Len(issued) + 1
<1>1. /\ issued \in Seq(StaticBlocks) /\ block \in StaticBlocks
      /\ more \in Seq(StaticBlocks)
      /\ last \in DOMAIN more /\ more[last] = block
      /\ \A s \in DOMAIN issued : s # last /\ more[s] = issued[s]
      /\ \A s \in DOMAIN more : s \in DOMAIN issued \/ s = last
  BY DEF SInv, IssuedInv, FreshIn
<1> HIDE DEF more, last
<1>2. ASSUME NEW s \in DOMAIN issued
      PROVE  /\ issued[s].chunk \in DOMAIN chunks
             /\ issued[s].offset + issued[s].size <= chunks[issued[s].chunk].head
             /\ Apart(issued[s], block) /\ Apart(block, issued[s])
  <2> DEFINE b == issued[s]
             end == b.offset + b.size
  <2>1. /\ b.chunk \in DOMAIN statics
        /\ end <= statics[b.chunk].head
    BY DEF SInv, IssuedInv
  <2>2. /\ b.chunk \in DOMAIN chunks
        /\ statics[b.chunk].head <= chunks[b.chunk].head
    BY <2>1 DEF Extends
  <2>3. /\ end \in Nat
        /\ statics[b.chunk].head \in Nat
        /\ chunks[b.chunk].head \in Nat
        /\ block.offset \in Nat
    <3>1. b \in StaticBlocks
      BY <1>1
    <3>2. end \in Nat /\ block.offset \in Nat
      <4>1. b.offset \in Nat /\ b.size \in Nat /\ block.offset \in Nat
        BY <1>1, <3>1, StaticBlockFacts
      <4>2. QED
        BY <4>1
    <3>3. statics[b.chunk].head \in Nat /\ chunks[b.chunk].head \in Nat
      BY <2>1, <2>2, ChunkFacts DEF SInv
    <3>4. QED
      BY <3>2, <3>3
  <2>4. ASSUME b.chunk = block.chunk
        PROVE  end <= block.offset
    <3>1. statics[b.chunk].head <= block.offset
      BY <2>1, <2>4 DEF FreshIn
    <3>2. QED
      BY <2>1, <2>3, <3>1
  <2>5. Apart(b, block) /\ Apart(block, b)
    BY <2>4 DEF Apart
  <2>6. end <= chunks[b.chunk].head
    BY <2>1, <2>2, <2>3
  <2>7. QED
    BY <2>2, <2>5, <2>6
<1>3. /\ block.chunk \in DOMAIN chunks
      /\ block.offset + block.size <= chunks[block.chunk].head
  BY DEF FreshIn
<1>4. \A s \in DOMAIN more :
        /\ more[s].chunk \in DOMAIN chunks
        /\ more[s].offset + more[s].size <= chunks[more[s].chunk].head
  BY <1>1, <1>2, <1>3
<1>5. ASSUME NEW s \in DOMAIN more, NEW t \in DOMAIN more, s # t
      PROVE  Apart(more[s], more[t])
  <2>1. CASE s \in DOMAIN issued /\ t \in DOMAIN issued
    BY <1>1, <1>5, <2>1 DEF SInv, IssuedInv
  <2>2. CASE s = last
    <3>1. t \in DOMAIN issued
      BY <1>1, <1>5, <2>2
    <3>2. QED
      BY <1>1, <1>2, <2>2, <3>1
  <2>3. CASE t = last
    <3>1. s \in DOMAIN issued
      BY <1>1, <1>5, <2>3
    <3>2. QED
      BY <1>1, <1>2, <2>3, <3>1
  <2>4. QED
    BY <1>1, <2>1, <2>2, <2>3
<1>6. QED
  BY <1>1, <1>4, <1>5 DEF IssuedInv, more

(* Blocks stay where they are when a block is written.                     *)
LEMMA WrittenKeepsIssued ==
  ASSUME NEW chunks, NEW w, NEW blocks, IssuedInv(blocks, chunks),
         DOMAIN w = DOMAIN chunks,
         \A c \in DOMAIN chunks : w[c].head = chunks[c].head
  PROVE  IssuedInv(blocks, w)
BY DEF IssuedInv

(* arena_alloc.                                                            *)
LEMMA AllocSInv ==
  ASSUME SInv, NEW n \in Sizes, Alloc(n)
  PROVE  SInv'
<1> DEFINE r == AllocResult(n)
<1>1. n \in Nat
  BY SizesAreNat
<1>2. /\ ChunksInv(r.chunks) /\ r.current \in DOMAIN r.chunks
      /\ Extends(r.chunks) /\ FreshIn(r.chunks, r.block, n)
  BY <1>1, AllocResultFacts DEF SInv
<1>3. statics' = r.chunks /\ current' = r.current /\ issued' = Append(issued, r.block)
  BY DEF Alloc
<1> HIDE DEF r
<1>4. IssuedInv(Append(issued, r.block), r.chunks)
  BY <1>1, <1>2, FreshIsApart
<1>5. QED
  BY <1>2, <1>3, <1>4 DEF SInv

(* arena_dynamic_finalize: as many words as the tag says are copied.       *)
LEMMA FinalizeSInv ==
  ASSUME SInv, IInv, NEW h \in Clients, DynamicFinalize(h)
  PROVE  SInv'
<1> DEFINE n == TagOf(h)
           r == AllocResult(n)
           words == [i \in 1 .. n |-> region[ChunkOf(held[h], i - 1)][WordOf(i - 1)]]
           w == Written(r.chunks, r.block, words)
<1>1. h \in Holders
  BY DEF DynamicFinalize, Holders
<1>2. n = size[h] /\ n \in Nat
  BY <1>1, HeadInSpan
<1>3. statics' = w /\ current' = r.current /\ issued' = Append(issued, r.block)
  BY DEF DynamicFinalize
<1>4. /\ ChunksInv(r.chunks) /\ r.current \in DOMAIN r.chunks
      /\ Extends(r.chunks) /\ FreshIn(r.chunks, r.block, n)
  BY <1>2, AllocResultFacts DEF SInv
<1>5. words \in [1 .. n -> Nat]
  <2> SUFFICES ASSUME NEW i \in 1 .. n
               PROVE  region[ChunkOf(held[h], i - 1)][WordOf(i - 1)] \in Nat
    OBVIOUS
  <2>1. i - 1 \in 0 .. n - 1
    BY <1>2
  <2>2. held[h] \in Chunk /\ InRegion(held[h], Required(n))
    BY <1>1, <1>2, HeadInSpan DEF IInv, BlocksDisjoint
  <2>3. ChunkOf(held[h], i - 1) \in Chunk /\ WordOf(i - 1) \in Word
    BY <1>2, <2>1, <2>2, CellsInRegion DEF Chunk
  <2>4. QED
    BY <2>3 DEF IInv, DynamicTypeOK
<1> HIDE DEF words, r, n
<1>6. words \in Seq(Nat) /\ Len(words) = n
  BY <1>2, <1>5, WordsAreSeq
<1>7. IssuedInv(Append(issued, r.block), r.chunks)
  BY <1>2, <1>4, FreshIsApart
<1>8. /\ ChunksInv(w) /\ DOMAIN w = DOMAIN r.chunks
      /\ \A c \in DOMAIN r.chunks : w[c].head = r.chunks[c].head
  BY <1>4, <1>6, WrittenFacts DEF FreshIn
<1> HIDE DEF w
<1>9. IssuedInv(Append(issued, r.block), w)
  BY <1>7, <1>8, WrittenKeepsIssued
<1>10. QED
  BY <1>3, <1>4, <1>8, <1>9 DEF SInv

(* The holder of a static block fills it.                                  *)
LEMMA FillStaticSInv ==
  ASSUME SInv, NEW s \in DOMAIN issued, NEW v \in Values, FillStatic(s, v)
  PROVE  SInv'
<1> DEFINE b == issued[s]
           words == [i \in 1 .. b.size |-> v]
           w == Written(statics, b, words)
<1>1. b \in StaticBlocks /\ b.chunk \in DOMAIN statics
      /\ b.offset + b.size <= statics[b.chunk].head
  BY DEF SInv, IssuedInv
<1>2. b.size \in Nat /\ v \in Nat
  BY <1>1, ArenaAssumption DEF StaticBlocks
<1>3. words \in [1 .. b.size -> Nat]
  BY <1>2
<1>4. statics' = w /\ current' = current /\ issued' = issued
  BY DEF FillStatic
<1> HIDE DEF words, b
<1>5. words \in Seq(Nat) /\ Len(words) = b.size
  BY <1>2, <1>3, WordsAreSeq
<1>6. /\ ChunksInv(w) /\ DOMAIN w = DOMAIN statics
      /\ \A c \in DOMAIN statics : w[c].head = statics[c].head
  BY <1>1, <1>5, WrittenFacts DEF SInv
<1> HIDE DEF w
<1>7. IssuedInv(issued, w)
  BY <1>6, WrittenKeepsIssued DEF SInv
<1>8. QED
  BY <1>4, <1>6, <1>7 DEF SInv

(* A step that leaves the static chunks alone.                             *)
LEMMA UnchangedSInv ==
  ASSUME SInv, UNCHANGED static
  PROVE  SInv'
BY DEF SInv, static

FirstInv == statics = FirstStatics /\ current = 1 /\ issued = <<>>

(* Before the first allocation, and after the end.                         *)
LEMMA FirstSInv == FirstInv => SInv
<1> SUFFICES ASSUME FirstInv PROVE SInv
  OBVIOUS
<1> DEFINE chunk == CleanStatic(StaticMin, 0)
           chunks == <<chunk>>
<1>1. StaticMin \in Nat
  BY ArenaAssumption
<1>2. /\ chunk \in StaticChunks /\ chunk.head = 0 /\ chunk.capacity = StaticMin
      /\ Len(chunk.buffer) = StaticMin /\ \A i \in 1 .. StaticMin : chunk.buffer[i] = 0
  BY <1>1, CleanStaticFacts
<1>3. statics = chunks /\ current = 1 /\ issued = <<>>
  BY DEF FirstInv, FirstStatics
<1> HIDE DEF chunk
<1>4. chunks \in Seq(StaticChunks) /\ DOMAIN chunks = {1} /\ chunks[1] = chunk
  BY <1>2
<1> HIDE DEF chunks
<1>5. ChunksInv(chunks)
  BY <1>1, <1>2, <1>4 DEF ChunksInv
<1>6. IssuedInv(<<>>, chunks)
  BY DEF IssuedInv
<1>7. QED
  BY <1>3, <1>4, <1>5, <1>6 DEF SInv

LEMMA InitSInv == Init => SInv
BY FirstSInv DEF Init, FirstInv

LEMMA GoneSInv == MemoryIsGone => SInv'
<1>1. MemoryIsGone => FirstInv'
  BY DEF MemoryIsGone, FirstInv, FirstStatics, CleanStatic
<1>2. FirstInv' => SInv'
  BY FirstSInv, PTL
<1>3. QED
  BY <1>1, <1>2

(* Every step keeps the static blocks apart.  Only finalizing needs the    *)
(* invariant of the dynamic half: it copies as many words as the tag says. *)
LEMMA NextSInv ==
  ASSUME SInv, IInv, [Next]_vars
  PROVE  SInv'
<1>1. ASSUME NEW h \in Clients, NEW n \in Sizes, DynamicAlloc(h, n) PROVE SInv'
  BY <1>1, UnchangedSInv DEF DynamicAlloc
<1>2. ASSUME NEW h \in Clients, NEW n \in Sizes, DynamicRealloc(h, n) PROVE SInv'
  BY <1>2, UnchangedSInv DEF DynamicRealloc
<1>3. ASSUME NEW h \in Clients, DynamicFree(h) PROVE SInv'
  BY <1>3, UnchangedSInv DEF DynamicFree
<1>4. ASSUME NEW h \in Clients, DynamicFinalize(h) PROVE SInv'
  BY <1>4, FinalizeSInv
<1>5. ASSUME NEW h \in Clients, NEW v \in Values, Fill(h, v) PROVE SInv'
  <2>1. UNCHANGED static
    BY <1>5 DEF Fill
  <2>2. QED
    BY <2>1, UnchangedSInv
<1>6. ASSUME NEW n \in Sizes, Alloc(n) PROVE SInv'
  BY <1>6, AllocSInv
<1>7. ASSUME NEW s \in DOMAIN issued, NEW v \in Values, FillStatic(s, v) PROVE SInv'
  BY <1>7, FillStaticSInv
<1>8. CASE Exhausted
  BY <1>8, GoneSInv DEF Exhausted
<1>9. CASE Overrun
  BY <1>9, GoneSInv DEF Overrun
<1>10. CASE UNCHANGED vars
  BY <1>10, UnchangedSInv DEF vars, static
<1>11. QED
  BY <1>1, <1>2, <1>3, <1>4, <1>5, <1>6, <1>7, <1>8, <1>9, <1>10 DEF Next

-----------------------------------------------------------------------------

(* The inductive invariant of the static half, next to the dynamic one.    *)
THEOREM StaticsInvariant == Spec => []SInv
  BY InitSInv, NextSInv, ArenaInvariant, PTL DEF Spec

(* arena_alloc never hands out a word twice: static blocks, the frozen     *)
(* copies of arena_dynamic_finalize among them, lie in the used part of    *)
(* their chunk and overlap with no other.                                  *)
THEOREM StaticsStayDisjoint == Spec => []StaticsDisjoint
<1>1. SInv => StaticsDisjoint
  <2> SUFFICES ASSUME SInv PROVE StaticsDisjoint
    OBVIOUS
  <2>1. \A s \in DOMAIN issued :
          issued[s].offset + issued[s].size <= statics[issued[s].chunk].head
    BY DEF SInv, IssuedInv
  <2>2. \A c \in DOMAIN statics : statics[c].head <= statics[c].capacity
    BY DEF SInv, ChunksInv
  <2>3. \A s, t \in DOMAIN issued : s # t => Apart(issued[s], issued[t])
    BY DEF SInv, IssuedInv
  <2>4. QED
    BY <2>1, <2>2, <2>3 DEF StaticsDisjoint, Apart
<1>2. QED
  BY <1>1, StaticsInvariant, PTL

(* The arena's variables keep their types, for every choice of constants.  *)
THEOREM ArenaTypes == Spec => []TypeOK
<1>1. SInv /\ IInv => TypeOK
  BY DEF SInv, IInv, ChunksInv, IssuedInv, DynamicTypeOK, TypeOK, StaticChunks, StaticBlocks
<1>2. QED
  BY <1>1, StaticsInvariant, ArenaInvariant, PTL

-----------------------------------------------------------------------------
(* The arena keeps what its clients store: every step of Arena is a step   *)
(* of BlockStore or leaves what BlockStore sees alone                      *)

Blocks == [h \in Clients |-> IF held[h] = NoChunk THEN <<>> ELSE Contents(h)]
Frozen == [s \in DOMAIN issued |-> StaticContents(s)]

(* The words of a block of n words at chunk c.                             *)
WordsAt(mem, c, n) == [i \in 1 .. n |-> mem[ChunkOf(c, i - 1)][WordOf(i - 1)]]

(* Every block has words, so that no block is taken for none.              *)
RInv == \A h \in Holders : size[h] > 0

-----------------------------------------------------------------------------
(* Where the words of a block are                                          *)

(* No two words of a block share a place.                                  *)
LEMMA CellsDiffer ==
  ASSUME NEW c \in Nat, NEW i \in Nat, NEW j \in Nat,
         ChunkOf(c, i) = ChunkOf(c, j), WordOf(i) = WordOf(j)
  PROVE  i = j
<1> DEFINE d == ChunkSize
<1>1. d \in Nat \ {0} /\ 1 + i \in Nat /\ 1 + j \in Nat
  BY ArenaAssumption
<1> HIDE DEF d
<1>2. /\ (1 + i) \div d \in Nat /\ (1 + j) \div d \in Nat
      /\ 1 + i = d * ((1 + i) \div d) + ((1 + i) % d)
      /\ 1 + j = d * ((1 + j) \div d) + ((1 + j) % d)
  BY <1>1, DivFacts
<1>3. /\ c + ((1 + i) \div d) = c + ((1 + j) \div d)
      /\ (1 + i) % d = (1 + j) % d
  BY DEF ChunkOf, WordOf, d
<1>4. (1 + i) \div d = (1 + j) \div d
  BY <1>2, <1>3
<1>5. 1 + i = 1 + j
  BY <1>2, <1>3, <1>4
<1>6. QED
  BY <1>5

LEMMA CellsAre ==
  ASSUME NEW c \in Nat, NEW lo \in Nat, NEW n \in Nat, NEW i \in 0 .. n - 1
  PROVE  <<ChunkOf(c, i), WordOf(i)>> \in Cells(c, lo, n) <=> i >= lo
<1>1. ASSUME i >= lo PROVE <<ChunkOf(c, i), WordOf(i)>> \in Cells(c, lo, n)
  <2>1. i \in lo .. n - 1
    BY <1>1
  <2>2. QED
    BY <2>1 DEF Cells
<1>2. ASSUME <<ChunkOf(c, i), WordOf(i)>> \in Cells(c, lo, n) PROVE i >= lo
  <2>1. PICK j \in lo .. n - 1 : ChunkOf(c, i) = ChunkOf(c, j) /\ WordOf(i) = WordOf(j)
    BY <1>2 DEF Cells
  <2>2. i = j
    BY <2>1, CellsDiffer
  <2>3. QED
    BY <2>2
<1>3. QED
  BY <1>1, <1>2

(* Clearing and tagging a block at chunk c, seen from its words and from   *)
(* outside.                                                                *)
LEMMA TaggedWords ==
  ASSUME NEW mem \in Memory, NEW c \in Chunk, NEW n \in Nat,
         NEW k \in Chunk, NEW w \in Word, ~(k = c /\ w = 0)
  PROVE  WithTag(mem, c, n)[k][w] = mem[k][w]
BY DEF WithTag, Memory

LEMMA ClearedWords ==
  ASSUME NEW mem \in Memory, NEW c \in Chunk, NEW lo \in Nat, NEW n \in Nat,
         InRegion(c, Required(n)), NEW i \in 0 .. n - 1
  PROVE  Cleared(mem, c, lo, n)[ChunkOf(c, i)][WordOf(i)] =
           IF i >= lo THEN 0 ELSE mem[ChunkOf(c, i)][WordOf(i)]
<1>1. c \in Nat
  BY ArenaAssumption DEF Chunk
<1>2. ChunkOf(c, i) \in Chunk /\ WordOf(i) \in Word
  BY <1>1, CellsInRegion
<1>3. <<ChunkOf(c, i), WordOf(i)>> \in Cells(c, lo, n) <=> i >= lo
  BY <1>1, CellsAre
<1>4. QED
  BY <1>2, <1>3 DEF Cleared

LEMMA ClearedOutside ==
  ASSUME NEW mem \in Memory, NEW c \in Chunk, NEW lo \in Nat, NEW n \in Nat,
         NEW k \in Chunk, k \notin c .. c + Required(n) - 1, NEW w \in Word
  PROVE  Cleared(mem, c, lo, n)[k][w] = mem[k][w]
<1>1. c \in Nat
  BY ArenaAssumption DEF Chunk
<1>2. <<k, w>> \notin Cells(c, lo, n)
  <2> SUFFICES ASSUME NEW i \in lo .. n - 1, k = ChunkOf(c, i)
               PROVE  FALSE
    BY DEF Cells
  <2>1. i \in 0 .. n - 1
    OBVIOUS
  <2>2. QED
    BY <1>1, <2>1, CellsInSpan
<1>3. QED
  BY <1>2 DEF Cleared

-----------------------------------------------------------------------------
(* What a client sees                                                      *)

LEMMA WordsAreWords ==
  ASSUME NEW mem \in Memory, NEW c \in Chunk, NEW n \in Nat, InRegion(c, Required(n))
  PROVE  /\ WordsAt(mem, c, n) \in Seq(Nat)
         /\ Len(WordsAt(mem, c, n)) = n
         /\ \A i \in 1 .. n :
              WordsAt(mem, c, n)[i] = mem[ChunkOf(c, i - 1)][WordOf(i - 1)]
<1> DEFINE words == WordsAt(mem, c, n)
<1>1. ASSUME NEW i \in 1 .. n
      PROVE  /\ words[i] = mem[ChunkOf(c, i - 1)][WordOf(i - 1)]
             /\ words[i] \in Nat
  <2>1. i - 1 \in 0 .. n - 1 /\ c \in Nat
    BY ArenaAssumption DEF Chunk
  <2>2. ChunkOf(c, i - 1) \in Chunk /\ WordOf(i - 1) \in Word
    BY <2>1, CellsInRegion
  <2>3. QED
    BY <2>2 DEF Memory, WordsAt
<1>2. words = [i \in 1 .. n |-> words[i]]
  BY DEF WordsAt
<1> HIDE DEF words
<1>3. words \in [1 .. n -> Nat]
  BY <1>1, <1>2
<1>4. QED
  BY <1>1, <1>3, WordsAreSeq DEF words

(* A block whose words were not written to reads as before.                *)
LEMMA WordsKept ==
  ASSUME NEW mem \in Memory, NEW new \in Memory, NEW c \in Chunk, NEW n \in Nat,
         InRegion(c, Required(n)),
         \A k \in Chunk, w \in Word :
           k \in c .. c + Required(n) - 1 /\ ~(k = c /\ w = 0) => new[k][w] = mem[k][w]
  PROVE  WordsAt(new, c, n) = WordsAt(mem, c, n)
<1>1. ASSUME NEW i \in 1 .. n
      PROVE  new[ChunkOf(c, i - 1)][WordOf(i - 1)] = mem[ChunkOf(c, i - 1)][WordOf(i - 1)]
  <2>1. i - 1 \in 0 .. n - 1 /\ c \in Nat
    BY ArenaAssumption DEF Chunk
  <2>2. ChunkOf(c, i - 1) \in Chunk /\ WordOf(i - 1) \in Word
    BY <2>1, CellsInRegion
  <2>3. /\ ChunkOf(c, i - 1) \in c .. c + Required(n) - 1
        /\ ~(ChunkOf(c, i - 1) = c /\ WordOf(i - 1) = 0)
    BY <2>1, CellsInSpan
  <2>4. QED
    BY <2>2, <2>3
<1>2. QED
  BY <1>1 DEF WordsAt

LEMMA BlocksAre ==
  ASSUME NEW h \in Clients
  PROVE  /\ h \in Holders => Blocks[h] = WordsAt(region, held[h], size[h])
         /\ h \notin Holders => Blocks[h] = <<>>
BY DEF Blocks, Contents, WordsAt, Holders

LEMMA BlocksBecome ==
  ASSUME NEW h \in Clients
  PROVE  /\ h \in Holders' => Blocks'[h] = WordsAt(region', held'[h], size'[h])
         /\ h \notin Holders' => Blocks'[h] = <<>>
BY DEF Blocks, Contents, WordsAt, Holders

(* What is known of a block of a client, before a step and after it.       *)
LEMMA HolderFacts ==
  ASSUME IInv, NEW h \in Holders
  PROVE  /\ h \in Clients /\ held[h] \in Chunk /\ size[h] \in Nat
         /\ InRegion(held[h], Required(size[h]))
         /\ Span(h) = held[h] .. held[h] + Required(size[h]) - 1
         /\ region \in Memory
         /\ Blocks[h] \in Seq(Nat) /\ Len(Blocks[h]) = size[h]
<1>1. h \in Clients /\ region \in Memory
  BY DEF Holders, IInv, DynamicTypeOK, Memory
<1>2. held[h] \in Chunk /\ size[h] \in Nat
  BY HeadInSpan
<1>3. InRegion(held[h], Required(size[h]))
  BY DEF IInv, BlocksDisjoint
<1>4. Span(h) = held[h] .. held[h] + Required(size[h]) - 1
  BY DEF Span
<1>5. Blocks[h] = WordsAt(region, held[h], size[h])
  BY <1>1, BlocksAre
<1>6. QED
  BY <1>1, <1>2, <1>3, <1>4, <1>5, WordsAreWords

LEMMA BlockTypes ==
  ASSUME IInv, NEW h \in Clients
  PROVE  Blocks[h] \in Seq(Nat)
<1>1. CASE h \in Holders
  BY <1>1, HolderFacts
<1>2. CASE h \notin Holders
  <2>1. Blocks[h] = <<>>
    BY <1>2, BlocksAre
  <2>2. <<>> \in Seq(Nat)
    OBVIOUS
  <2>3. QED
    BY <2>1, <2>2
<1>3. QED
  BY <1>1, <1>2

(* Where a block goes, no other one is.                                    *)
LEMMA SpansApart ==
  ASSUME IInv, IInv', NEW h \in Clients, NEW c \in Chunk, NEW n \in Nat,
         held' = [held EXCEPT ![h] = c], size' = [size EXCEPT ![h] = n],
         NEW g \in Holders, g # h
  PROVE  Span(g) \cap (c .. c + Required(n) - 1) = {}
<1>1. g \in Clients /\ held'[g] = held[g] /\ size'[g] = size[g]
  BY DEF IInv, DynamicTypeOK, Holders
<1>2. held'[h] = c /\ size'[h] = n
  BY DEF IInv, DynamicTypeOK
<1>3. g \in Holders' /\ h \in Holders'
  BY <1>1, <1>2, NoChunkIsNone DEF Holders
<1>4. Span(g)' \cap Span(h)' = {}
  BY <1>3 DEF IInv, BlocksDisjoint
<1>5. Span(g)' = Span(g) /\ Span(h)' = c .. c + Required(n) - 1
  BY <1>1, <1>2 DEF Span
<1>6. QED
  BY <1>4, <1>5

(* The blocks of the other clients keep their words.                       *)
LEMMA OthersKept ==
  ASSUME IInv, IInv', NEW h \in Clients, NEW c, NEW n,
         held' = [held EXCEPT ![h] = c], size' = [size EXCEPT ![h] = n],
         \A g \in Holders : g # h =>
           \A k \in Chunk, w \in Word : k \in Span(g) => region'[k][w] = region[k][w],
         NEW g \in Clients, g # h
  PROVE  Blocks'[g] = Blocks[g]
<1>1. held'[g] = held[g] /\ size'[g] = size[g]
  BY DEF IInv, DynamicTypeOK
<1>2. g \in Holders' <=> g \in Holders
  BY <1>1 DEF Holders
<1>3. CASE g \notin Holders
  BY <1>2, <1>3, BlocksAre, BlocksBecome
<1>4. CASE g \in Holders
  <2>1. /\ held[g] \in Chunk /\ size[g] \in Nat
        /\ InRegion(held[g], Required(size[g]))
        /\ Span(g) = held[g] .. held[g] + Required(size[g]) - 1
        /\ region \in Memory
    BY <1>4, HolderFacts
  <2>2. region' \in Memory
    BY DEF IInv, DynamicTypeOK, Memory
  <2>3. WordsAt(region', held[g], size[g]) = WordsAt(region, held[g], size[g])
    BY <1>4, <2>1, <2>2, WordsKept
  <2>4. QED
    BY <1>1, <1>2, <1>4, <2>3, BlocksAre, BlocksBecome
<1>5. QED
  BY <1>3, <1>4

-----------------------------------------------------------------------------
(* One lemma per operation of the dynamic half.                            *)

(* arena_dynamic_alloc: the new block is clear.                            *)
LEMMA AllocIsAlloc ==
  ASSUME IInv, IInv', NEW h \in Clients, NEW n \in Sizes, DynamicAlloc(h, n)
  PROVE  /\ Blocks[h] = <<>>
         /\ Blocks' = [Blocks EXCEPT ![h] = [i \in 1 .. n |-> 0]]
<1>1. n \in Nat
  BY SizesAreNat
<1>2. PICK c \in Chunk :
        /\ InRegion(c, Required(n))
        /\ region' = Cleared(WithTag(region, c, n), c, 0, n)
        /\ held' = [held EXCEPT ![h] = c]
        /\ size' = [size EXCEPT ![h] = n]
  BY DEF DynamicAlloc
<1>3. h \notin Holders /\ region \in Memory
  BY DEF DynamicAlloc, Holders, IInv, DynamicTypeOK, Memory
<1>4. held'[h] = c /\ size'[h] = n /\ h \in Holders'
  BY <1>2, NoChunkIsNone DEF Holders, IInv, DynamicTypeOK
<1> DEFINE tagged == WithTag(region, c, n)
<1>5. tagged \in Memory
  BY <1>1, <1>3, WithTagFacts
<1>6. Blocks'[h] = [i \in 1 .. n |-> 0]
  <2>1. region' = Cleared(tagged, c, 0, n)
    BY <1>2
  <2> HIDE DEF tagged
  <2>2. ASSUME NEW i \in 1 .. n
        PROVE  region'[ChunkOf(c, i - 1)][WordOf(i - 1)] = 0
    <3>1. i - 1 \in 0 .. n - 1 /\ i - 1 >= 0
      BY <1>1
    <3>2. QED
      BY <1>1, <1>2, <1>5, <2>1, <3>1, ClearedWords
  <2>3. Blocks'[h] = WordsAt(region', c, n)
    BY <1>4, BlocksBecome
  <2>4. QED
    BY <2>2, <2>3 DEF WordsAt
<1>7. ASSUME NEW g \in Holders, g # h, NEW k \in Chunk, NEW w \in Word, k \in Span(g)
      PROVE  region'[k][w] = region[k][w]
  <2>1. k \notin c .. c + Required(n) - 1
    BY <1>1, <1>2, <1>7, SpansApart
  <2>2. k # c
    BY <1>1, <2>1, RequiredPositive, ArenaAssumption DEF Chunk
  <2>3. tagged[k][w] = region[k][w]
    BY <1>1, <1>3, <2>2, TaggedWords
  <2> HIDE DEF tagged
  <2>4. Cleared(tagged, c, 0, n)[k][w] = tagged[k][w]
    BY <1>1, <1>5, <2>1, ClearedOutside
  <2>5. QED
    BY <1>2, <2>3, <2>4 DEF tagged
<1>8. \A g \in Clients : g # h => Blocks'[g] = Blocks[g]
  BY <1>2, <1>7, OthersKept
<1>9. Blocks[h] = <<>>
  BY <1>3, BlocksAre
<1>10. QED
  BY <1>6, <1>8, <1>9 DEF Blocks

(* What arena_dynamic_realloc leaves of the blocks, if it keeps the words  *)
(* that fit and writes nothing where others are.                           *)
Resized(h, n) ==
  /\ Blocks[h] # <<>>
  /\ Blocks' \in [Clients -> Seq(Nat)]
  /\ Len(Blocks'[h]) = n
  /\ \A i \in 1 .. n : i <= Len(Blocks[h]) => Blocks'[h][i] = Blocks[h][i]
  /\ \A d \in Clients \ {h} : Blocks'[d] = Blocks[d]

LEMMA ResizeKeeps ==
  ASSUME IInv, IInv', RInv, NEW h \in Holders, NEW c \in Chunk, NEW n \in Nat,
         held' = [held EXCEPT ![h] = c], size' = [size EXCEPT ![h] = n],
         \A g \in Holders : g # h =>
           \A k \in Chunk, w \in Word : k \in Span(g) => region'[k][w] = region[k][w],
         \A i \in 1 .. n : i <= size[h] =>
           region'[ChunkOf(c, i - 1)][WordOf(i - 1)]
             = region[ChunkOf(held[h], i - 1)][WordOf(i - 1)]
  PROVE  Resized(h, n)
<1>1. /\ h \in Clients /\ held[h] \in Chunk /\ size[h] \in Nat
      /\ InRegion(held[h], Required(size[h])) /\ region \in Memory
      /\ Blocks[h] \in Seq(Nat) /\ Len(Blocks[h]) = size[h]
  BY HolderFacts
<1>2. held'[h] = c /\ size'[h] = n /\ h \in Holders'
  BY <1>1, NoChunkIsNone DEF Holders, IInv, DynamicTypeOK
<1>3. InRegion(c, Required(n)) /\ region' \in Memory
  BY <1>2 DEF IInv, BlocksDisjoint, DynamicTypeOK, Memory, InRegion
<1>4. /\ Blocks'[h] = WordsAt(region', c, n)
      /\ Blocks[h] = WordsAt(region, held[h], size[h])
  BY <1>1, <1>2, BlocksAre, BlocksBecome
<1>5. /\ Blocks'[h] \in Seq(Nat) /\ Len(Blocks'[h]) = n
      /\ \A i \in 1 .. n : Blocks'[h][i] = region'[ChunkOf(c, i - 1)][WordOf(i - 1)]
  BY <1>3, <1>4, WordsAreWords
<1>6. \A i \in 1 .. size[h] :
        Blocks[h][i] = region[ChunkOf(held[h], i - 1)][WordOf(i - 1)]
  BY <1>1, <1>4, WordsAreWords
<1>7. \A i \in 1 .. n : i <= size[h] => Blocks'[h][i] = Blocks[h][i]
  <2> SUFFICES ASSUME NEW i \in 1 .. n, i <= size[h]
               PROVE  Blocks'[h][i] = Blocks[h][i]
    OBVIOUS
  <2>1. i \in 1 .. size[h]
    BY <1>1
  <2>2. QED
    BY <1>5, <1>6, <2>1
<1>8. \A g \in Clients : g # h => Blocks'[g] = Blocks[g]
  BY <1>1, OthersKept
<1>9. Blocks' \in [Clients -> Seq(Nat)]
  <2>1. \A g \in Clients : Blocks'[g] \in Seq(Nat)
    BY <1>5, <1>8, BlockTypes
  <2>2. QED
    BY <2>1 DEF Blocks
<1>10. Blocks[h] # <<>>
  <2>1. size[h] > 0
    BY DEF RInv
  <2>2. QED
    BY <1>1, <2>1
<1>11. QED
  BY <1>1, <1>5, <1>7, <1>8, <1>9, <1>10 DEF Resized

(* The tag is no word of a block, so writing it disturbs none.             *)
LEMMA TagIsNoWord ==
  ASSUME IInv, NEW h \in Holders, NEW n \in Nat, NEW mem \in Memory
  PROVE  /\ \A g \in Holders : g # h =>
              \A k \in Chunk, w \in Word :
                k \in Span(g) => WithTag(mem, held[h], n)[k][w] = mem[k][w]
         /\ \A i \in 1 .. n : InRegion(held[h], Required(n)) =>
              WithTag(mem, held[h], n)[ChunkOf(held[h], i - 1)][WordOf(i - 1)]
                = mem[ChunkOf(held[h], i - 1)][WordOf(i - 1)]
<1> DEFINE c == held[h]
<1>1. c \in Chunk /\ c \in Span(h)
  BY HeadInSpan
<1>2. c \in Nat
  BY <1>1, ArenaAssumption DEF Chunk
<1> HIDE DEF c
<1>3. ASSUME NEW g \in Holders, g # h, NEW k \in Chunk, NEW w \in Word, k \in Span(g)
      PROVE  WithTag(mem, c, n)[k][w] = mem[k][w]
  <2>1. Span(g) \cap Span(h) = {}
    BY <1>3 DEF IInv, BlocksDisjoint
  <2>2. k # c
    BY <1>1, <1>3, <2>1
  <2>3. QED
    BY <1>1, <2>2, TaggedWords
<1>4. ASSUME NEW i \in 1 .. n, InRegion(c, Required(n))
      PROVE  WithTag(mem, c, n)[ChunkOf(c, i - 1)][WordOf(i - 1)]
               = mem[ChunkOf(c, i - 1)][WordOf(i - 1)]
  <2>1. i - 1 \in 0 .. n - 1
    OBVIOUS
  <2>2. ChunkOf(c, i - 1) \in Chunk /\ WordOf(i - 1) \in Word
    BY <1>2, <1>4, <2>1, CellsInRegion
  <2>3. ~(ChunkOf(c, i - 1) = c /\ WordOf(i - 1) = 0)
    BY <1>2, <2>1, CellsInSpan
  <2>4. QED
    BY <1>1, <2>2, <2>3, TaggedWords
<1>5. QED
  BY <1>3, <1>4 DEF c

(* Resizing within the same chunks, and giving the last ones back: only    *)
(* the tag is written.                                                     *)
LEMMA TaggingKeeps ==
  ASSUME IInv, IInv', RInv, NEW h \in Holders, NEW n \in Nat,
         region' = WithTag(region, held[h], n),
         held' = held, size' = [size EXCEPT ![h] = n]
  PROVE  Resized(h, n)
<1> DEFINE c == held[h]
<1>1. /\ h \in Clients /\ c \in Chunk /\ region \in Memory
  BY HolderFacts
<1>2. held' = [held EXCEPT ![h] = c]
  BY DEF IInv, DynamicTypeOK
<1>3. InRegion(c, Required(n))
  <2>1. h \in Holders' /\ held'[h] = c /\ size'[h] = n
    BY <1>1 DEF Holders, IInv, DynamicTypeOK
  <2>2. QED
    BY <2>1 DEF IInv, BlocksDisjoint, InRegion
<1>4. /\ \A g \in Holders : g # h =>
           \A k \in Chunk, w \in Word : k \in Span(g) => region'[k][w] = region[k][w]
      /\ \A i \in 1 .. n : region'[ChunkOf(c, i - 1)][WordOf(i - 1)]
                             = region[ChunkOf(c, i - 1)][WordOf(i - 1)]
  BY <1>1, <1>3, TagIsNoWord
<1>5. QED
  BY <1>1, <1>2, <1>4, ResizeKeeps

(* Growing in place: the words it gains are cleared.                       *)
LEMMA GrowInPlaceKeeps ==
  ASSUME IInv, IInv', RInv, NEW h \in Holders, NEW n \in Nat, GrowInPlace(h, n),
         size' = [size EXCEPT ![h] = n]
  PROVE  Resized(h, n)
<1> DEFINE c == held[h]
           tag == TagOf(h)
           mem == Cleared(region, c, tag, n)
<1>1. /\ h \in Clients /\ c \in Chunk /\ region \in Memory
      /\ tag = size[h] /\ tag \in Nat
  BY HolderFacts, HeadInSpan
<1>2. held' = [held EXCEPT ![h] = c] /\ held' = held
  BY DEF GrowInPlace, IInv, DynamicTypeOK
<1>3. InRegion(c, Required(n)) /\ region' = WithTag(mem, c, n)
  BY DEF GrowInPlace
<1>4. mem \in Memory
  BY <1>1, ClearedFacts
<1> HIDE DEF c, tag
<1>5. ASSUME NEW g \in Holders, g # h, NEW k \in Chunk, NEW w \in Word, k \in Span(g)
      PROVE  region'[k][w] = region[k][w]
  <2>1. k \notin c .. c + Required(n) - 1
    BY <1>1, <1>2, <1>5, SpansApart
  <2>2. mem[k][w] = region[k][w]
    BY <1>1, <2>1, ClearedOutside
  <2> HIDE DEF mem
  <2>3. region'[k][w] = mem[k][w]
    BY <1>3, <1>4, <1>5, TagIsNoWord DEF c
  <2>4. QED
    BY <2>2, <2>3
<1>6. ASSUME NEW i \in 1 .. n, i <= size[h]
      PROVE  region'[ChunkOf(c, i - 1)][WordOf(i - 1)]
               = region[ChunkOf(c, i - 1)][WordOf(i - 1)]
  <2>1. i - 1 \in 0 .. n - 1 /\ ~(i - 1 >= tag)
    BY <1>1, <1>6
  <2>2. mem[ChunkOf(c, i - 1)][WordOf(i - 1)] = region[ChunkOf(c, i - 1)][WordOf(i - 1)]
    BY <1>1, <1>3, <2>1, ClearedWords
  <2> HIDE DEF mem
  <2>3. region'[ChunkOf(c, i - 1)][WordOf(i - 1)] = mem[ChunkOf(c, i - 1)][WordOf(i - 1)]
    BY <1>3, <1>4, TagIsNoWord DEF c
  <2>4. QED
    BY <2>2, <2>3
<1>7. QED
  BY <1>1, <1>2, <1>5, <1>6, ResizeKeeps DEF c

(* Growing by moving: the words are copied to the same places of a window  *)
(* of free chunks.                                                         *)
LEMMA GrowByMovingKeeps ==
  ASSUME IInv, IInv', RInv, NEW h \in Holders, NEW n \in Nat, GrowByMoving(h, n),
         size' = [size EXCEPT ![h] = n]
  PROVE  Resized(h, n)
<1> DEFINE tag == TagOf(h)
           old == held[h]
<1>1. /\ h \in Clients /\ old \in Chunk /\ old \in Nat /\ region \in Memory
      /\ tag = size[h] /\ tag \in Nat /\ InRegion(old, Required(tag))
  <2>1. /\ h \in Clients /\ old \in Chunk /\ region \in Memory
        /\ tag = size[h] /\ tag \in Nat
    BY HolderFacts, HeadInSpan
  <2>2. InRegion(old, Required(tag))
    BY <2>1, HolderFacts
  <2>3. QED
    BY <2>1, <2>2, ArenaAssumption DEF Chunk
<1>2. PICK c \in Chunk :
        /\ InRegion(c, Required(n))
        /\ region' = Cleared(WithTag(
             [k \in Chunk |-> [w \in Word |->
                IF <<k, w>> \in Cells(c, 0, tag) THEN region[old + (k - c)][w]
                ELSE region[k][w]]], c, n), c, tag, n)
        /\ held' = [held EXCEPT ![h] = c]
  BY DEF GrowByMoving
<1> DEFINE copied == [k \in Chunk |-> [w \in Word |->
                        IF <<k, w>> \in Cells(c, 0, tag) THEN region[old + (k - c)][w]
                        ELSE region[k][w]]]
           tagged == WithTag(copied, c, n)
           W == c .. c + Required(n) - 1
<1>3. /\ Required(tag) \in Nat /\ Required(n) \in Nat /\ Required(tag) < Required(n)
      /\ c \in Nat /\ c \in W
  <2>1. Required(tag) \in Nat /\ Required(n) \in Nat /\ Required(n) >= 1
    BY <1>1, RequiredPositive
  <2>2. Required(tag) < Required(n)
    BY DEF GrowByMoving, Grows
  <2>3. c \in Nat
    BY ArenaAssumption DEF Chunk
  <2>4. QED
    BY <2>1, <2>2, <2>3
<1> HIDE DEF tag, old
\* the words of the block, where they go
<1>4. ASSUME NEW i \in 0 .. tag - 1
      PROVE  /\ ChunkOf(c, i) \in Chunk /\ WordOf(i) \in Word
             /\ ChunkOf(c, i) \in c .. c + Required(tag) - 1
             /\ old + (ChunkOf(c, i) - c) = ChunkOf(old, i)
             /\ ChunkOf(old, i) \in Chunk
             /\ ~(ChunkOf(c, i) = c /\ WordOf(i) = 0)
             /\ <<ChunkOf(c, i), WordOf(i)>> \in Cells(c, 0, tag)
  <2>1. /\ ChunkOf(c, i) \in c .. c + Required(tag) - 1 /\ WordOf(i) \in Word
        /\ ~(ChunkOf(c, i) = c /\ WordOf(i) = 0)
    BY <1>1, <1>3, CellsInSpan
  <2>2. ChunkOf(old, i) \in Chunk
    BY <1>1, CellsInRegion
  <2>3. InRegion(c, Required(tag))
    BY <1>2, <1>3, ArenaAssumption DEF InRegion
  <2>4. ChunkOf(c, i) \in Chunk
    BY <1>1, <1>3, <2>3, CellsInRegion
  <2>5. old + (ChunkOf(c, i) - c) = ChunkOf(old, i)
    <3>1. (1 + i) \div ChunkSize \in Nat
      <4>1. 1 + i \in Nat /\ ChunkSize \in Nat \ {0}
        BY <1>1, ArenaAssumption
      <4>2. QED
        BY <4>1, DivFacts
    <3>2. QED
      BY <1>1, <1>3, <3>1 DEF ChunkOf
  <2>6. <<ChunkOf(c, i), WordOf(i)>> \in Cells(c, 0, tag)
    BY <1>1, <1>3, CellsAre
  <2>7. QED
    BY <2>1, <2>2, <2>4, <2>5, <2>6
<1>5. ASSUME NEW i \in 0 .. tag - 1
      PROVE  copied[ChunkOf(c, i)][WordOf(i)] = region[ChunkOf(old, i)][WordOf(i)]
  BY <1>4
<1>6. ASSUME NEW k \in Chunk, k \notin W, NEW w \in Word
      PROVE  copied[k][w] = region[k][w]
  <2>1. <<k, w>> \notin Cells(c, 0, tag)
    <3> SUFFICES ASSUME NEW i \in 0 .. tag - 1, k = ChunkOf(c, i)
                 PROVE  FALSE
      BY DEF Cells
    <3>1. k \in c .. c + Required(tag) - 1
      BY <1>4
    <3>2. QED
      BY <1>3, <1>6, <3>1
  <2>2. QED
    BY <2>1
<1>7. copied \in Memory
  <2> SUFFICES ASSUME NEW k \in Chunk, NEW w \in Word, <<k, w>> \in Cells(c, 0, tag)
               PROVE  region[old + (k - c)][w] \in Nat
    BY <1>1 DEF Memory
  <2>1. PICK i \in 0 .. tag - 1 : k = ChunkOf(c, i)
    BY DEF Cells
  <2>2. old + (k - c) \in Chunk
    BY <1>4, <2>1
  <2>3. QED
    BY <1>1, <2>2 DEF Memory
<1> HIDE DEF copied
<1>8. tagged \in Memory
  BY <1>7, WithTagFacts
<1>9. region' = Cleared(tagged, c, tag, n)
  BY <1>2 DEF copied
\* what the move leaves alone, and what it brings along
<1>10. ASSUME NEW g \in Holders, g # h, NEW k \in Chunk, NEW w \in Word, k \in Span(g)
       PROVE  region'[k][w] = region[k][w]
  <2>1. k \notin W
    BY <1>1, <1>2, <1>10, SpansApart
  <2>2. k # c
    BY <1>3, <2>1
  <2>3. tagged[k][w] = copied[k][w]
    BY <1>7, <2>2, TaggedWords
  <2> HIDE DEF tagged
  <2>4. region'[k][w] = tagged[k][w]
    BY <1>1, <1>8, <1>9, <2>1, ClearedOutside
  <2>5. QED
    BY <1>6, <2>1, <2>3, <2>4
<1>11. ASSUME NEW i \in 1 .. n, i <= size[h]
       PROVE  region'[ChunkOf(c, i - 1)][WordOf(i - 1)]
                = region[ChunkOf(old, i - 1)][WordOf(i - 1)]
  <2> DEFINE j == i - 1
  <2>1. j \in 0 .. n - 1 /\ j \in 0 .. tag - 1 /\ ~(j >= tag)
    BY <1>1, <1>11
  <2> HIDE DEF j
  <2>2. tagged[ChunkOf(c, j)][WordOf(j)] = copied[ChunkOf(c, j)][WordOf(j)]
    BY <1>4, <1>7, <2>1, TaggedWords
  <2> HIDE DEF tagged
  <2>3. region'[ChunkOf(c, j)][WordOf(j)] = tagged[ChunkOf(c, j)][WordOf(j)]
    BY <1>1, <1>2, <1>8, <1>9, <2>1, ClearedWords
  <2>4. QED
    BY <1>5, <2>1, <2>2, <2>3 DEF j
<1>12. QED
  BY <1>1, <1>2, <1>10, <1>11, ResizeKeeps DEF old

LEMMA ReallocIsResize ==
  ASSUME IInv, IInv', RInv, NEW h \in Clients, NEW n \in Sizes, DynamicRealloc(h, n)
  PROVE  Resized(h, n)
<1>1. n \in Nat
  BY SizesAreNat
<1>2. h \in Holders /\ size' = [size EXCEPT ![h] = n]
  BY DEF DynamicRealloc, Holders
<1>3. CASE ResizeSameChunks(h, n)
  BY <1>1, <1>2, <1>3, TaggingKeeps DEF ResizeSameChunks
<1>4. CASE GrowInPlace(h, n)
  BY <1>1, <1>2, <1>4, GrowInPlaceKeeps
<1>5. CASE GrowByMoving(h, n)
  BY <1>1, <1>2, <1>5, GrowByMovingKeeps
<1>6. CASE Shrink(h, n)
  BY <1>1, <1>2, <1>6, TaggingKeeps DEF Shrink
<1>7. QED
  BY <1>3, <1>4, <1>5, <1>6 DEF DynamicRealloc

(* arena_dynamic_free: the words of the others stay.                       *)
LEMMA FreedIsRelease ==
  ASSUME IInv, RInv, NEW h \in Holders, Freed(h)
  PROVE  /\ Blocks[h] # <<>>
         /\ Blocks' = [Blocks EXCEPT ![h] = <<>>]
<1>1. h \in Clients /\ Blocks[h] \in Seq(Nat) /\ Len(Blocks[h]) = size[h]
  BY HolderFacts
<1>2. /\ held' = [held EXCEPT ![h] = NoChunk]
      /\ size' = [size EXCEPT ![h] = 0]
      /\ region' = region
  BY DEF Freed
<1>3. Blocks[h] # <<>>
  <2>1. size[h] > 0
    BY DEF RInv
  <2>2. QED
    BY <1>1, <2>1
<1>4. Blocks'[h] = <<>>
  BY <1>1, <1>2, BlocksBecome DEF Holders, IInv, DynamicTypeOK
<1>5. ASSUME NEW g \in Clients, g # h PROVE Blocks'[g] = Blocks[g]
  <2>1. held'[g] = held[g] /\ size'[g] = size[g]
    BY <1>2, <1>5 DEF IInv, DynamicTypeOK
  <2>2. g \in Holders' <=> g \in Holders
    BY <2>1 DEF Holders
  <2>3. QED
    BY <1>2, <2>1, <2>2, BlocksAre, BlocksBecome
<1>6. QED
  BY <1>3, <1>4, <1>5 DEF Blocks

(* A client fills its block.                                               *)
LEMMA FillIsStore ==
  ASSUME IInv, IInv', RInv, NEW h \in Clients, NEW v \in Values, Fill(h, v)
  PROVE  /\ Blocks[h] # <<>>
         /\ Blocks' = [Blocks EXCEPT ![h] = [i \in 1 .. Len(Blocks[h]) |-> v]]
<1> DEFINE c == held[h]
           n == size[h]
<1>1. h \in Holders
  BY DEF Fill, Holders
<1>2. /\ c \in Chunk /\ n \in Nat /\ InRegion(c, Required(n))
      /\ Blocks[h] \in Seq(Nat) /\ Len(Blocks[h]) = n
      /\ Span(h) = c .. c + Required(n) - 1
  BY <1>1, HolderFacts
<1>3. c \in Nat
  BY <1>2, ArenaAssumption DEF Chunk
<1>4. /\ held' = held /\ size' = size
      /\ region' = [k \in Chunk |-> [w \in Word |->
           IF <<k, w>> \in Cells(c, 0, n) THEN v ELSE region[k][w]]]
  BY DEF Fill
<1>5. held' = [held EXCEPT ![h] = c] /\ size' = [size EXCEPT ![h] = n]
  BY <1>4 DEF IInv, DynamicTypeOK
<1>6. Blocks[h] # <<>>
  <2>1. n > 0
    BY <1>1 DEF RInv
  <2>2. QED
    BY <1>2, <2>1
<1> HIDE DEF c, n
<1>7. ASSUME NEW i \in 1 .. n
      PROVE  region'[ChunkOf(c, i - 1)][WordOf(i - 1)] = v
  <2>1. i - 1 \in 0 .. n - 1 /\ i - 1 >= 0
    BY <1>2
  <2>2. ChunkOf(c, i - 1) \in Chunk /\ WordOf(i - 1) \in Word
    BY <1>2, <1>3, <2>1, CellsInRegion
  <2>3. <<ChunkOf(c, i - 1), WordOf(i - 1)>> \in Cells(c, 0, n)
    BY <1>2, <1>3, <2>1, CellsAre
  <2>4. QED
    BY <1>4, <2>2, <2>3
<1>8. Blocks'[h] = [i \in 1 .. n |-> v]
  <2>1. h \in Holders'
    BY <1>1, <1>4 DEF Holders
  <2>2. Blocks'[h] = WordsAt(region', c, n)
    BY <1>4, <2>1, BlocksBecome DEF c, n
  <2>3. QED
    BY <1>7, <2>2 DEF WordsAt
<1>9. ASSUME NEW g \in Holders, g # h, NEW k \in Chunk, NEW w \in Word, k \in Span(g)
      PROVE  region'[k][w] = region[k][w]
  <2>1. k \notin c .. c + Required(n) - 1
    BY <1>2, <1>5, <1>9, SpansApart
  <2>2. <<k, w>> \notin Cells(c, 0, n)
    <3> SUFFICES ASSUME NEW i \in 0 .. n - 1, k = ChunkOf(c, i)
                 PROVE  FALSE
      BY DEF Cells
    <3>1. QED
      BY <1>2, <1>3, <2>1, CellsInSpan
  <2>3. QED
    BY <1>4, <2>2
<1>10. \A g \in Clients : g # h => Blocks'[g] = Blocks[g]
  BY <1>5, <1>9, OthersKept
<1>11. QED
  BY <1>2, <1>6, <1>8, <1>10 DEF Blocks

-----------------------------------------------------------------------------
(* The static half.                                                        *)

WordsOf(chunks, b) == [i \in 1 .. b.size |-> chunks[b.chunk].buffer[b.offset + i]]

LEMMA WordsOfFacts ==
  ASSUME NEW chunks, ChunksInv(chunks), NEW b \in StaticBlocks,
         b.chunk \in DOMAIN chunks, b.offset + b.size <= chunks[b.chunk].head
  PROVE  WordsOf(chunks, b) \in Seq(Nat) /\ Len(WordsOf(chunks, b)) = b.size
<1> DEFINE buffer == chunks[b.chunk].buffer
           words == WordsOf(chunks, b)
<1>1. b.offset \in Nat /\ b.size \in Nat
  BY StaticBlockFacts
<1>2. /\ buffer \in Seq(Nat) /\ DOMAIN buffer = 1 .. chunks[b.chunk].capacity
      /\ chunks[b.chunk].head \in Nat /\ chunks[b.chunk].capacity \in Nat
      /\ chunks[b.chunk].head <= chunks[b.chunk].capacity
  BY ChunkFacts
<1>3. \A i \in 1 .. b.size : b.offset + i \in DOMAIN buffer
  BY <1>1, <1>2
<1>4. \A i \in 1 .. b.size : buffer[b.offset + i] \in Nat
  BY <1>2, <1>3
<1>5. words \in [1 .. b.size -> Nat]
  BY <1>4 DEF WordsOf
<1> HIDE DEF words
<1>6. QED
  BY <1>1, <1>5, WordsAreSeq DEF words

(* A block that is written holds what was written, and the ones apart from *)
(* it what they held.                                                      *)
LEMMA WrittenWords ==
  ASSUME NEW chunks, ChunksInv(chunks), NEW b \in StaticBlocks,
         b.chunk \in DOMAIN chunks, b.offset + b.size <= chunks[b.chunk].head,
         NEW data \in Seq(Nat), Len(data) = b.size
  PROVE  /\ WordsOf(Written(chunks, b, data), b) = data
         /\ \A a \in StaticBlocks :
              /\ a.chunk \in DOMAIN chunks
              /\ a.offset + a.size <= chunks[a.chunk].head
              /\ Apart(a, b)
              => WordsOf(Written(chunks, b, data), a) = WordsOf(chunks, a)
<1> DEFINE w == Written(chunks, b, data)
           buffer == chunks[b.chunk].buffer
<1>1. /\ \A c \in DOMAIN chunks : c # b.chunk => w[c] = chunks[c]
      /\ \A i \in DOMAIN buffer :
           w[b.chunk].buffer[i] =
             IF i \in b.offset + 1 .. b.offset + b.size THEN data[i - b.offset]
             ELSE buffer[i]
  BY WrittenFacts
<1>2. b.offset \in Nat /\ b.size \in Nat
  BY StaticBlockFacts
<1>3. /\ DOMAIN buffer = 1 .. chunks[b.chunk].capacity
      /\ chunks[b.chunk].head \in Nat /\ chunks[b.chunk].capacity \in Nat
      /\ chunks[b.chunk].head <= chunks[b.chunk].capacity
  BY ChunkFacts
<1> HIDE DEF w
<1>4. WordsOf(w, b) = data
  <2>1. ASSUME NEW i \in 1 .. b.size
        PROVE  w[b.chunk].buffer[b.offset + i] = data[i]
    <3>1. /\ b.offset + i \in DOMAIN buffer
          /\ b.offset + i \in b.offset + 1 .. b.offset + b.size
          /\ (b.offset + i) - b.offset = i
      BY <1>2, <1>3
    <3>2. QED
      BY <1>1, <3>1
  <2>2. WordsOf(w, b) = [i \in 1 .. b.size |-> data[i]]
    BY <2>1 DEF WordsOf
  <2>3. data = [i \in 1 .. b.size |-> data[i]]
    OBVIOUS
  <2>4. QED
    BY <2>2, <2>3
<1>5. ASSUME NEW a \in StaticBlocks, a.chunk \in DOMAIN chunks,
             a.offset + a.size <= chunks[a.chunk].head, Apart(a, b)
      PROVE  WordsOf(w, a) = WordsOf(chunks, a)
  <2>1. CASE a.chunk # b.chunk
    BY <1>1, <1>5, <2>1 DEF WordsOf
  <2>2. CASE a.chunk = b.chunk
    <3>1. a.offset \in Nat /\ a.size \in Nat
      BY StaticBlockFacts
    <3>2. ASSUME NEW i \in 1 .. a.size
          PROVE  w[b.chunk].buffer[a.offset + i] = buffer[a.offset + i]
      <4>1. /\ a.offset + i \in DOMAIN buffer
            /\ a.offset + i \notin b.offset + 1 .. b.offset + b.size
        BY <1>2, <1>3, <1>5, <2>2, <3>1 DEF Apart
      <4>2. QED
        BY <1>1, <4>1
    <3>3. QED
      BY <2>2, <3>2 DEF WordsOf
  <2>3. QED
    BY <2>1, <2>2
<1>6. QED
  BY <1>4, <1>5 DEF w

LEMMA FrozenAre ==
  ASSUME SInv
  PROVE  /\ Frozen \in Seq(Seq(Nat)) /\ Len(Frozen) = Len(issued)
         /\ DOMAIN Frozen = DOMAIN issued
         /\ \A s \in DOMAIN issued :
              /\ Frozen[s] = WordsOf(statics, issued[s])
              /\ Len(Frozen[s]) = issued[s].size
<1>1. issued \in Seq(StaticBlocks)
  BY DEF SInv, IssuedInv
<1>2. ASSUME NEW s \in DOMAIN issued
      PROVE  /\ Frozen[s] = WordsOf(statics, issued[s])
             /\ Frozen[s] \in Seq(Nat) /\ Len(Frozen[s]) = issued[s].size
  <2>1. Frozen[s] = WordsOf(statics, issued[s])
    BY DEF Frozen, StaticContents, WordsOf
  <2>2. /\ issued[s] \in StaticBlocks /\ issued[s].chunk \in DOMAIN statics
        /\ issued[s].offset + issued[s].size <= statics[issued[s].chunk].head
    BY <1>1 DEF SInv, IssuedInv
  <2>3. QED
    BY <2>1, <2>2, WordsOfFacts DEF SInv
<1>3. DOMAIN Frozen = DOMAIN issued
  BY DEF Frozen
<1>4. Len(issued) \in Nat /\ DOMAIN issued = 1 .. Len(issued)
  BY <1>1
<1>5. Frozen = [s \in 1 .. Len(issued) |-> Frozen[s]]
  BY <1>4 DEF Frozen
<1> HIDE DEF Frozen
<1>6. Frozen \in [1 .. Len(issued) -> Seq(Nat)]
  BY <1>2, <1>4, <1>5
<1>7. Frozen \in Seq(Seq(Nat)) /\ Len(Frozen) = Len(issued)
  BY <1>4, <1>6
<1>8. QED
  BY <1>2, <1>3, <1>7

LEMMA FrozenBecome ==
  \A s \in DOMAIN issued' : Frozen'[s] = WordsOf(statics', issued'[s])
BY DEF Frozen, StaticContents, WordsOf

LEMMA AppendItems ==
  ASSUME NEW s \in Seq(Seq(Nat)), NEW words \in Seq(Nat)
  PROVE  /\ Append(s, words) \in Seq(Seq(Nat))
         /\ Append(s, words) = [i \in 1 .. Len(s) + 1 |-> Append(s, words)[i]]
         /\ \A i \in 1 .. Len(s) : Append(s, words)[i] = s[i]
         /\ Append(s, words)[Len(s) + 1] = words
<1> DEFINE t == Append(s, words)
<1>1. /\ t \in Seq(Seq(Nat)) /\ Len(t) = Len(s) + 1
      /\ \A i \in 1 .. Len(s) : t[i] = s[i]
      /\ t[Len(s) + 1] = words
  OBVIOUS
<1> HIDE DEF t
<1>2. t = [i \in 1 .. Len(t) |-> t[i]]
  BY <1>1
<1>3. QED
  BY <1>1, <1>2 DEF t

(* A block is handed out and the others keep their words.                  *)
LEMMA FrozenGrows ==
  ASSUME SInv, NEW block,
         issued' = Append(issued, block),
         WordsOf(statics', block) \in Seq(Nat),
         \A s \in DOMAIN issued :
           WordsOf(statics', issued[s]) = WordsOf(statics, issued[s])
  PROVE  Frozen' = Append(Frozen, WordsOf(statics', block))
<1> DEFINE last == Len(issued) + 1
           words == WordsOf(statics', block)
<1>1. issued \in Seq(StaticBlocks)
  BY DEF SInv, IssuedInv
<1>2. /\ Len(issued) \in Nat /\ DOMAIN issued = 1 .. Len(issued)
      /\ DOMAIN issued' = 1 .. last
      /\ \A s \in DOMAIN issued : issued'[s] = issued[s]
      /\ issued'[last] = block
  BY <1>1
<1>3. /\ Frozen \in Seq(Seq(Nat)) /\ Len(Frozen) = Len(issued)
      /\ \A s \in DOMAIN issued : Frozen[s] = WordsOf(statics, issued[s])
  BY FrozenAre
<1>4. /\ Frozen' = [s \in 1 .. last |-> Frozen'[s]]
      /\ \A s \in 1 .. last : Frozen'[s] = WordsOf(statics', issued'[s])
  BY <1>2, FrozenBecome DEF Frozen
<1> HIDE DEF words
<1>5. /\ \A s \in DOMAIN issued : Frozen'[s] = Frozen[s]
      /\ Frozen'[last] = words
  <2>1. ASSUME NEW s \in DOMAIN issued PROVE Frozen'[s] = Frozen[s]
    <3>1. s \in 1 .. last /\ issued'[s] = issued[s]
      BY <1>2
    <3>2. Frozen'[s] = WordsOf(statics', issued[s])
      BY <1>4, <3>1
    <3>3. QED
      BY <1>3, <3>2
  <2>2. Frozen'[last] = words
    <3>1. last \in 1 .. last
      BY <1>2
    <3>2. QED
      BY <1>2, <1>4, <3>1 DEF words
  <2>3. QED
    BY <2>1, <2>2
<1>6. /\ Append(Frozen, words) = [s \in 1 .. last |-> Append(Frozen, words)[s]]
      /\ \A s \in DOMAIN issued : Append(Frozen, words)[s] = Frozen[s]
      /\ Append(Frozen, words)[last] = words
  <2>1. words \in Seq(Nat)
    BY DEF words
  <2>2. QED
    BY <1>2, <1>3, <2>1, AppendItems
<1>7. \A s \in 1 .. last : Frozen'[s] = Append(Frozen, words)[s]
  <2>1. \A s \in 1 .. last : s \in DOMAIN issued \/ s = last
    BY <1>2
  <2>2. QED
    BY <1>5, <1>6, <2>1
<1>8. QED
  BY <1>4, <1>6, <1>7 DEF words

(* The blocks there were read as before in the chunks of arena_alloc.      *)
LEMMA ExtendsKeeps ==
  ASSUME SInv, NEW chunks, Extends(chunks)
  PROVE  \A s \in DOMAIN issued : WordsOf(chunks, issued[s]) = WordsOf(statics, issued[s])
<1> SUFFICES ASSUME NEW s \in DOMAIN issued
             PROVE  WordsOf(chunks, issued[s]) = WordsOf(statics, issued[s])
  OBVIOUS
<1>1. issued[s].chunk \in DOMAIN statics
  BY DEF SInv, IssuedInv
<1>2. chunks[issued[s].chunk].buffer = statics[issued[s].chunk].buffer
  BY <1>1 DEF Extends
<1>3. QED
  BY <1>2 DEF WordsOf

(* arena_alloc: the new block is clear.                                    *)
LEMMA AllocIsAllocStatic ==
  ASSUME SInv, NEW n \in Sizes, Alloc(n)
  PROVE  Frozen' = Append(Frozen, [i \in 1 .. n |-> 0])
<1> DEFINE r == AllocResult(n)
<1>1. n \in Nat
  BY SizesAreNat
<1>2. Extends(r.chunks) /\ FreshIn(r.chunks, r.block, n)
  BY <1>1, AllocResultFacts DEF SInv
<1>3. statics' = r.chunks /\ issued' = Append(issued, r.block)
  BY DEF Alloc
<1> HIDE DEF r
<1>4. \A s \in DOMAIN issued :
        WordsOf(statics', issued[s]) = WordsOf(statics, issued[s])
  BY <1>2, <1>3, ExtendsKeeps
<1>5. WordsOf(statics', r.block) = [i \in 1 .. n |-> 0]
  BY <1>2, <1>3 DEF FreshIn, WordsOf
<1>6. WordsOf(statics', r.block) \in Seq(Nat)
  BY <1>1, <1>5
<1>7. QED
  BY <1>3, <1>4, <1>5, <1>6, FrozenGrows

(* arena_dynamic_finalize: the frozen copy is what the block was.          *)
LEMMA FinalizeIsFreeze ==
  ASSUME SInv, IInv, RInv, NEW h \in Clients, DynamicFinalize(h)
  PROVE  /\ Frozen' = Append(Frozen, Blocks[h])
         /\ Blocks[h] # <<>>
         /\ Blocks' = [Blocks EXCEPT ![h] = <<>>]
<1> DEFINE n == TagOf(h)
           r == AllocResult(n)
           words == [i \in 1 .. n |-> region[ChunkOf(held[h], i - 1)][WordOf(i - 1)]]
           w == Written(r.chunks, r.block, words)
<1>1. h \in Holders
  BY DEF DynamicFinalize, Holders
<1>2. n = size[h] /\ n \in Nat
  BY <1>1, HeadInSpan
<1>3. statics' = w /\ issued' = Append(issued, r.block)
  BY DEF DynamicFinalize
<1>4. /\ ChunksInv(r.chunks) /\ Extends(r.chunks) /\ FreshIn(r.chunks, r.block, n)
  BY <1>2, AllocResultFacts DEF SInv
<1>5. words = Blocks[h] /\ words \in Seq(Nat) /\ Len(words) = n
  <2>1. words = WordsAt(region, held[h], size[h])
    BY <1>2 DEF WordsAt
  <2>2. words = Blocks[h]
    BY <1>1, <2>1, BlocksAre
  <2> HIDE DEF words
  <2>3. QED
    BY <1>1, <1>2, <2>2, HolderFacts
<1> HIDE DEF n, r, words
<1>6. IssuedInv(Append(issued, r.block), r.chunks)
  BY <1>2, <1>4, FreshIsApart
<1>7. /\ r.block \in StaticBlocks /\ r.block.size = n
      /\ r.block.chunk \in DOMAIN r.chunks
      /\ r.block.offset + r.block.size <= r.chunks[r.block.chunk].head
  BY <1>4 DEF FreshIn
<1>8. /\ WordsOf(w, r.block) = words
      /\ \A a \in StaticBlocks :
           /\ a.chunk \in DOMAIN r.chunks
           /\ a.offset + a.size <= r.chunks[a.chunk].head
           /\ Apart(a, r.block)
           => WordsOf(w, a) = WordsOf(r.chunks, a)
  BY <1>4, <1>5, <1>7, WrittenWords
<1> HIDE DEF w
<1>9. ASSUME NEW s \in DOMAIN issued
      PROVE  WordsOf(w, issued[s]) = WordsOf(statics, issued[s])
  <2> DEFINE more == Append(issued, r.block)
             last == Len(issued) + 1
  <2>1. issued \in Seq(StaticBlocks)
    BY DEF SInv, IssuedInv
  <2>2. /\ s \in DOMAIN more /\ last \in DOMAIN more /\ s # last
        /\ more[s] = issued[s] /\ more[last] = r.block
    BY <2>1
  <2> HIDE DEF more, last
  <2>3. /\ issued[s] \in StaticBlocks
        /\ issued[s].chunk \in DOMAIN r.chunks
        /\ issued[s].offset + issued[s].size <= r.chunks[issued[s].chunk].head
        /\ Apart(issued[s], r.block)
    BY <1>6, <2>1, <2>2 DEF IssuedInv, more
  <2>4. WordsOf(w, issued[s]) = WordsOf(r.chunks, issued[s])
    BY <1>8, <2>3
  <2>5. QED
    BY <1>4, <2>4, ExtendsKeeps
<1>10. Frozen' = Append(Frozen, Blocks[h])
  BY <1>3, <1>5, <1>8, <1>9, FrozenGrows
<1>11. Freed(h)
  BY DEF DynamicFinalize
<1>12. QED
  BY <1>1, <1>10, <1>11, FreedIsRelease

(* The holder of a static block fills it.                                  *)
LEMMA FillStaticIsStore ==
  ASSUME SInv, NEW s \in DOMAIN issued, NEW v \in Values, FillStatic(s, v)
  PROVE  /\ s \in DOMAIN Frozen
         /\ Frozen' = [Frozen EXCEPT ![s] = [i \in 1 .. Len(Frozen[s]) |-> v]]
<1> DEFINE b == issued[s]
           words == [i \in 1 .. b.size |-> v]
           w == Written(statics, b, words)
<1>1. issued \in Seq(StaticBlocks)
  BY DEF SInv, IssuedInv
<1>2. b \in StaticBlocks /\ b.chunk \in DOMAIN statics
      /\ b.offset + b.size <= statics[b.chunk].head
  BY DEF SInv, IssuedInv
<1>3. b.size \in Nat /\ v \in Nat
  BY <1>2, StaticBlockFacts, ArenaAssumption
<1>4. words \in [1 .. b.size -> Nat]
  BY <1>3
<1>5. statics' = w /\ issued' = issued
  BY DEF FillStatic
<1> HIDE DEF words, b
<1>6. words \in Seq(Nat) /\ Len(words) = b.size
  BY <1>3, <1>4, WordsAreSeq
<1>7. /\ WordsOf(w, b) = words
      /\ \A a \in StaticBlocks :
           /\ a.chunk \in DOMAIN statics
           /\ a.offset + a.size <= statics[a.chunk].head
           /\ Apart(a, b)
           => WordsOf(w, a) = WordsOf(statics, a)
  BY <1>2, <1>6, WrittenWords DEF SInv
<1> HIDE DEF w
<1>8. ASSUME NEW t \in DOMAIN issued, t # s
      PROVE  WordsOf(w, issued[t]) = WordsOf(statics, issued[t])
  <2>1. /\ issued[t] \in StaticBlocks
        /\ issued[t].chunk \in DOMAIN statics
        /\ issued[t].offset + issued[t].size <= statics[issued[t].chunk].head
        /\ Apart(issued[t], b)
    BY <1>1, <1>8 DEF SInv, IssuedInv, b
  <2>2. QED
    BY <1>7, <2>1
<1>9. /\ DOMAIN Frozen = DOMAIN issued
      /\ \A t \in DOMAIN issued : Frozen[t] = WordsOf(statics, issued[t])
      /\ Len(Frozen[s]) = b.size
  BY FrozenAre DEF b
<1>10. /\ DOMAIN Frozen' = DOMAIN issued
       /\ \A t \in DOMAIN issued : Frozen'[t] = WordsOf(w, issued[t])
  BY <1>5, FrozenBecome DEF Frozen
<1>11. /\ Frozen'[s] = words
       /\ \A t \in DOMAIN issued : t # s => Frozen'[t] = Frozen[t]
  BY <1>7, <1>8, <1>9, <1>10 DEF b
<1>12. Frozen = [t \in DOMAIN issued |-> Frozen[t]] /\ Frozen' = [t \in DOMAIN issued |-> Frozen'[t]]
  BY <1>5 DEF Frozen
<1> HIDE DEF Frozen
<1>13. Frozen' = [Frozen EXCEPT ![s] = words]
  BY <1>9, <1>11, <1>12
<1>14. QED
  BY <1>9, <1>13 DEF words

-----------------------------------------------------------------------------
(* Blocks always have words.                                               *)

LEMMA SizesArePositive == \A n \in Sizes : n \in Nat /\ n > 0
  BY ArenaAssumption

LEMMA InitRInv == Init => RInv
  BY DEF Init, NoneHeld, RInv, Holders

LEMMA PlacedRInv ==
  ASSUME IInv, RInv, NEW h \in Clients, NEW n \in Sizes,
         size' = [size EXCEPT ![h] = n],
         \A g \in Clients : g # h => held'[g] = held[g]
  PROVE  RInv'
<1> SUFFICES ASSUME NEW g \in Holders' PROVE size'[g] > 0
  BY DEF RInv
<1>1. g \in Clients
  BY DEF Holders
<1>2. CASE g = h
  BY <1>1, <1>2, SizesArePositive DEF IInv, DynamicTypeOK
<1>3. CASE g # h
  BY <1>1, <1>3 DEF IInv, DynamicTypeOK, RInv, Holders
<1>4. QED
  BY <1>2, <1>3

LEMMA FreedRInv ==
  ASSUME IInv, RInv, NEW h \in Clients, Freed(h)
  PROVE  RInv'
<1> SUFFICES ASSUME NEW g \in Holders' PROVE size'[g] > 0
  BY DEF RInv
<1>1. /\ held' = [held EXCEPT ![h] = NoChunk]
      /\ size' = [size EXCEPT ![h] = 0]
  BY DEF Freed
<1>2. g \in Clients /\ g # h
  BY <1>1 DEF Holders, IInv, DynamicTypeOK
<1>3. QED
  BY <1>1, <1>2 DEF IInv, DynamicTypeOK, RInv, Holders

LEMMA UnchangedRInv ==
  ASSUME RInv, held' = held, size' = size
  PROVE  RInv'
  BY DEF RInv, Holders

LEMMA NextRInv ==
  ASSUME IInv, RInv, [Next]_vars
  PROVE  RInv'
<1>1. ASSUME NEW h \in Clients, NEW n \in Sizes, DynamicAlloc(h, n) PROVE RInv'
  <2>1. PICK c \in Chunk : held' = [held EXCEPT ![h] = c] /\ size' = [size EXCEPT ![h] = n]
    BY <1>1 DEF DynamicAlloc
  <2>2. \A g \in Clients : g # h => held'[g] = held[g]
    BY <2>1 DEF IInv, DynamicTypeOK
  <2>3. QED
    BY <2>1, <2>2, PlacedRInv
<1>2. ASSUME NEW h \in Clients, NEW n \in Sizes, DynamicRealloc(h, n) PROVE RInv'
  <2>1. size' = [size EXCEPT ![h] = n]
    BY <1>2 DEF DynamicRealloc
  <2>2. held' = held \/ \E c \in Chunk : held' = [held EXCEPT ![h] = c]
    BY <1>2 DEF DynamicRealloc, ResizeSameChunks, GrowInPlace, GrowByMoving, Shrink
  <2>3. \A g \in Clients : g # h => held'[g] = held[g]
    BY <2>2 DEF IInv, DynamicTypeOK
  <2>4. QED
    BY <2>1, <2>3, PlacedRInv
<1>3. ASSUME NEW h \in Clients, DynamicFree(h) PROVE RInv'
  BY <1>3, FreedRInv DEF DynamicFree
<1>4. ASSUME NEW h \in Clients, DynamicFinalize(h) PROVE RInv'
  <2>1. Freed(h)
    BY <1>4 DEF DynamicFinalize
  <2>2. QED
    BY <2>1, FreedRInv
<1>5. ASSUME NEW h \in Clients, NEW v \in Values, Fill(h, v) PROVE RInv'
  <2>1. held' = held /\ size' = size
    BY <1>5 DEF Fill
  <2>2. QED
    BY <2>1, UnchangedRInv
<1>6. ASSUME NEW n \in Sizes, Alloc(n) PROVE RInv'
  <2>1. held' = held /\ size' = size
    BY <1>6 DEF Alloc, dynamic
  <2>2. QED
    BY <2>1, UnchangedRInv
<1>7. ASSUME NEW s \in DOMAIN issued, NEW v \in Values, FillStatic(s, v) PROVE RInv'
  <2>1. held' = held /\ size' = size
    BY <1>7 DEF FillStatic, dynamic
  <2>2. QED
    BY <2>1, UnchangedRInv
<1>8. CASE Exhausted \/ Overrun
  <2>1. Holders' = {}
    BY <1>8 DEF Exhausted, Overrun, MemoryIsGone, NoneHeld, Holders
  <2>2. QED
    BY <2>1 DEF RInv
<1>9. CASE UNCHANGED vars
  BY <1>9, UnchangedRInv DEF vars, dynamic
<1>10. QED
  BY <1>1, <1>2, <1>3, <1>4, <1>5, <1>6, <1>7, <1>8, <1>9 DEF Next

LEMMA BlocksNotEmpty == Spec => []RInv
  BY InitRInv, NextRInv, ArenaInvariant, PTL DEF Spec

-----------------------------------------------------------------------------
(* The refinement.                                                         *)

Halted == status # "running"

LEMMA NothingStored ==
  ASSUME held = NoneHeld, issued = <<>>
  PROVE  Blocks = [c \in Clients |-> <<>>] /\ Frozen = <<>>
BY DEF Blocks, Frozen, NoneHeld

LEMMA InitIsInit == Init => Store!Init
<1> SUFFICES ASSUME Init PROVE Store!Init
  OBVIOUS
<1>1. Blocks = [c \in Clients |-> <<>>] /\ Frozen = <<>>
  BY NothingStored DEF Init
<1>2. ~Halted
  BY DEF Init, Halted
<1>3. QED
  BY <1>1, <1>2 DEF Store!Init, Store!NoBlock, Blocks, Frozen, Halted

LEMMA GoneIsHalt ==
  ASSUME MemoryIsGone, status' \in {"exhausted", "overrun"}
  PROVE  Store!Halt
<1>1. held' = NoneHeld /\ issued' = <<>>
  BY DEF MemoryIsGone, NoneHeld
<1>2. Blocks' = [c \in Clients |-> <<>>] /\ Frozen' = <<>>
  BY <1>1 DEF Blocks, Frozen, NoneHeld
<1>3. Halted'
  BY DEF Halted
<1>4. QED
  BY <1>2, <1>3 DEF Store!Halt, Store!NoBlock, Blocks, Frozen, Halted

LEMMA StaticUnchanged ==
  ASSUME UNCHANGED static
  PROVE  Frozen' = Frozen
  BY DEF static, Frozen, StaticContents

LEMMA DynamicUnchanged ==
  ASSUME UNCHANGED dynamic
  PROVE  Blocks' = Blocks
  BY DEF dynamic, Blocks, Contents

LEMMA StepIsStep ==
  IInv /\ IInv' /\ SInv /\ RInv /\ [Next]_vars => [Store!Next]_(Store!vars)
<1> SUFFICES ASSUME IInv, IInv', SInv, RInv, [Next]_vars
             PROVE  Store!Next \/ UNCHANGED Store!vars
  OBVIOUS
<1>1. ASSUME NEW h \in Clients, NEW n \in Sizes, DynamicAlloc(h, n) PROVE Store!Next
  <2>1. /\ Blocks[h] = <<>>
        /\ Blocks' = [Blocks EXCEPT ![h] = [i \in 1 .. n |-> 0]]
    BY <1>1, AllocIsAlloc
  <2>2. Frozen' = Frozen /\ ~Halted /\ Halted' = Halted
    BY <1>1, StaticUnchanged DEF DynamicAlloc, Halted
  <2>3. Store!Alloc(h, n) /\ ~Halted
    BY <2>1, <2>2 DEF Store!Alloc, Store!NoBlock, Store!Constantly, Blocks, Frozen, Halted
  <2>4. QED
    BY <2>3 DEF Store!Next, Halted
<1>2. ASSUME NEW h \in Clients, NEW n \in Sizes, DynamicRealloc(h, n) PROVE Store!Next
  <2>1. Resized(h, n)
    BY <1>2, ReallocIsResize
  <2>2. Frozen' = Frozen /\ ~Halted /\ Halted' = Halted
    BY <1>2, StaticUnchanged DEF DynamicRealloc, Halted
  <2>3. Store!Resize(h, n) /\ ~Halted
    BY <2>1, <2>2 DEF Resized, Store!Resize, Store!NoBlock, Blocks, Frozen, Halted
  <2>4. QED
    BY <2>3 DEF Store!Next, Halted
<1>3. ASSUME NEW h \in Clients, DynamicFree(h) PROVE Store!Next
  <2>1. h \in Holders /\ Freed(h)
    BY <1>3 DEF DynamicFree, Holders
  <2>2. Blocks[h] # <<>> /\ Blocks' = [Blocks EXCEPT ![h] = <<>>]
    BY <2>1, FreedIsRelease
  <2>3. Frozen' = Frozen /\ ~Halted /\ Halted' = Halted
    BY <1>3, StaticUnchanged DEF DynamicFree, Halted
  <2>4. Store!Release(h) /\ ~Halted
    BY <2>2, <2>3 DEF Store!Release, Store!NoBlock, Blocks, Frozen, Halted
  <2>5. QED
    BY <2>4 DEF Store!Next, Halted
<1>4. ASSUME NEW h \in Clients, DynamicFinalize(h) PROVE Store!Next
  <2>1. /\ Frozen' = Append(Frozen, Blocks[h])
        /\ Blocks[h] # <<>>
        /\ Blocks' = [Blocks EXCEPT ![h] = <<>>]
    BY <1>4, FinalizeIsFreeze
  <2>2. ~Halted /\ Halted' = Halted
    BY <1>4 DEF DynamicFinalize, Halted
  <2>3. Store!Freeze(h) /\ ~Halted
    BY <2>1, <2>2 DEF Store!Freeze, Store!NoBlock, Blocks, Frozen, Halted
  <2>4. QED
    BY <2>3 DEF Store!Next, Halted
<1>5. ASSUME NEW h \in Clients, NEW v \in Values, Fill(h, v) PROVE Store!Next
  <2>1. /\ Blocks[h] # <<>>
        /\ Blocks' = [Blocks EXCEPT ![h] = [i \in 1 .. Len(Blocks[h]) |-> v]]
    BY <1>5, FillIsStore
  <2>2. UNCHANGED static /\ status = "running" /\ status' = status
    BY <1>5 DEF Fill
  <2>3. Frozen' = Frozen /\ ~Halted /\ Halted' = Halted
    BY <2>2, StaticUnchanged DEF Halted
  <2>4. Store!Store(h, v) /\ ~Halted
    BY <2>1, <2>3 DEF Store!Store, Store!NoBlock, Store!Constantly, Blocks, Frozen, Halted
  <2>5. QED
    BY <2>4 DEF Store!Next, Halted
<1>6. ASSUME NEW n \in Sizes, Alloc(n) PROVE Store!Next
  <2>1. Frozen' = Append(Frozen, [i \in 1 .. n |-> 0])
    BY <1>6, AllocIsAllocStatic
  <2>2. UNCHANGED dynamic /\ status = "running" /\ status' = status
    BY <1>6 DEF Alloc
  <2>3. Blocks' = Blocks /\ ~Halted /\ Halted' = Halted
    BY <2>2, DynamicUnchanged DEF Halted
  <2>4. Store!AllocStatic(n) /\ ~Halted
    BY <2>1, <2>3 DEF Store!AllocStatic, Store!Constantly, Blocks, Frozen, Halted
  <2>5. QED
    BY <2>4 DEF Store!Next, Halted
<1>7. ASSUME NEW s \in DOMAIN issued, NEW v \in Values, FillStatic(s, v) PROVE Store!Next
  <2>1. /\ s \in DOMAIN Frozen
        /\ Frozen' = [Frozen EXCEPT ![s] = [i \in 1 .. Len(Frozen[s]) |-> v]]
    BY <1>7, FillStaticIsStore
  <2>2. UNCHANGED dynamic /\ status = "running" /\ status' = status
    BY <1>7 DEF FillStatic
  <2>3. Blocks' = Blocks /\ ~Halted /\ Halted' = Halted
    BY <2>2, DynamicUnchanged DEF Halted
  <2>4. Store!StoreStatic(s, v) /\ ~Halted
    BY <2>1, <2>3 DEF Store!StoreStatic, Store!Constantly, Blocks, Frozen, Halted
  <2>5. QED
    BY <2>1, <2>4 DEF Store!Next, Halted, Frozen
<1>8. CASE Exhausted \/ Overrun
  <2>1. /\ MemoryIsGone /\ status = "running"
        /\ status' \in {"exhausted", "overrun"}
    BY <1>8 DEF Exhausted, Overrun
  <2>2. Store!Halt
    BY <2>1, GoneIsHalt
  <2>3. QED
    BY <2>1, <2>2 DEF Store!Next
<1>9. CASE UNCHANGED vars
  <2>1. UNCHANGED dynamic /\ UNCHANGED static /\ status' = status
    BY <1>9 DEF vars, dynamic, static
  <2>2. Blocks' = Blocks /\ Frozen' = Frozen /\ Halted' = Halted
    BY <2>1, StaticUnchanged, DynamicUnchanged DEF Halted
  <2>3. QED
    BY <2>2 DEF Store!vars, Blocks, Frozen, Halted
<1>10. QED
  BY <1>1, <1>2, <1>3, <1>4, <1>5, <1>6, <1>7, <1>8, <1>9 DEF Next

(* The vectors, tables and instruction sequences of the compiler may take  *)
(* the arena for what BlockStore says: growing, moving, shrinking, freeing *)
(* and freezing blocks in any order, each sees only what it stored itself  *)
(* (arena_dynamic_alloc, _realloc, _finalize, _free and arena_alloc).      *)
THEOREM ArenaRefinesBlockStore == Spec => RefinesBlockStore
BY InitIsInit, StepIsStep, ArenaInvariant, StaticsInvariant, BlocksNotEmpty,
   PTL DEF Spec, RefinesBlockStore, Store!Spec

=============================================================================
