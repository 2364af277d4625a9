------------------------------- MODULE Arena -------------------------------
(***************************************************************************)
(* The memory arena of the compiler (arena.c): a fixed region of           *)
(* equal chunks from which growing blocks are cut (the dynamic region),    *)
(* and a list of bump-allocated static chunks that nothing is ever taken   *)
(* back from.  Memory is modelled word by word; a word is sizeof(size_t)   *)
(* bytes, so the size tag in front of every dynamic block is one word and  *)
(* REQUIRED_DYNAMIC_CHUNKS rounds as it does on bytes.                     *)
(*                                                                         *)
(* A client is a vector, table or instruction sequence holding a pointer   *)
(* to one dynamic block.  Clients here keep to the interface: they resize, *)
(* free and finalize only a block they hold, and write only inside it.     *)
(***************************************************************************)
EXTENDS Naturals, Sequences

CONSTANTS
  Clients,      \* the holders of dynamic blocks
  ChunkCount,   \* ARENA_DYNAMIC_CHUNK_COUNT
  ChunkSize,    \* ARENA_DYNAMIC_CHUNK_SIZE, in words
  Stride,       \* the stride of find_dynamic_chunk
  StaticMin,    \* ARENA_STATIC_CHUNK_MIN_SIZE, in words
  Sizes,        \* the sizes, in words, clients ask for
  Values,       \* the words clients store
  MaxStatic     \* bound: static allocations made in a behaviour

ASSUME ArenaAssumption ==
  /\ ChunkCount \in Nat \ {0}
  /\ ChunkSize \in Nat \ {0}
  /\ Stride \in Nat \ {0}
  /\ StaticMin \in Nat \ {0}
  /\ Sizes \subseteq Nat \ {0}
  /\ Values \subseteq Nat
  /\ MaxStatic \in Nat

Chunk == 0 .. ChunkCount - 1
Word == 0 .. ChunkSize - 1
NoChunk == ChunkCount + ChunkCount

VARIABLES
  inUse,        \* dynamic_chunks_in_use
  region,       \* dynamic_region, as words
  statics,      \* static_chunks: capacity, head and buffer of each
  current,      \* current_static_chunk, counted from 1
  held,         \* the chunk each client's pointer leads to, or NoChunk
  size,         \* the size each client last asked for, 0 without a block
  issued,       \* where each static block handed out lies
  status        \* "running", "exhausted" (the error exit), "overrun"

dynamic == <<inUse, region, held, size>>
static == <<statics, current, issued>>
vars == <<inUse, region, statics, current, held, size, issued, status>>

-----------------------------------------------------------------------------

Required(n) == 1 + ((1 + n) \div ChunkSize)

(* Word i of a block whose tag is word 0 of chunk c.                       *)
ChunkOf(c, i) == c + ((1 + i) \div ChunkSize)
WordOfUntagged(i) == i % ChunkSize
WordOf(i) == (1 + i) % ChunkSize

(* Where words lo .. hi-1 of that block lie. *)
Cells(c, lo, hi) == {<<ChunkOf(c, i), WordOf(i)>> : i \in lo .. hi - 1}

(* memcmp of n flags from chunk c on with zeros.  The bytes behind the     *)
(* array are not part of it: they read as zeros when slack is TRUE.        *)
AllButLastFree(c, n, slack) ==
  \A k \in c .. c + n - 2 : IF k \in Chunk THEN ~inUse[k] ELSE slack

AllFree(c, n, slack) ==
  \A k \in c .. c + n - 1 : IF k \in Chunk THEN ~inUse[k] ELSE slack

(* find_dynamic_chunk tries 0, Stride, 2*Stride, ..., then 1, 1+Stride ... *)
SearchRank(c) == (c % Stride) * ChunkCount + (c \div Stride)

Found(c, n, slack) ==
  /\ c \in Chunk
  /\ AllFree(c, n, slack)
  /\ \A d \in Chunk :
       AllFree(d, n, slack) => SearchRank(c) <= SearchRank(d)

MarkFromOneMore(c, n, flag) ==
  [k \in Chunk |-> IF k \in c .. c + n THEN flag ELSE inUse[k]]

MarkFrom(c, n, flag) ==
  [k \in Chunk |-> IF k \in c .. c + n - 1 THEN flag ELSE inUse[k]]

(* memset of words lo .. hi-1 of the block at chunk c.                     *)
ClearedNothing(mem, c, lo, hi) == mem

Cleared(mem, c, lo, hi) ==
  [k \in Chunk |-> [w \in Word |->
     IF <<k, w>> \in Cells(c, lo, hi) THEN 0 ELSE mem[k][w]]]

WithTag(mem, c, n) == [mem EXCEPT ![c][0] = n]

InRegion(c, n) == c + n <= ChunkCount

(* The size the allocator knows a block by is the tag in front of it.      *)
TagOf(h) == region[held[h]][0]

(* The chunks that block h lacks to hold n words follow it and are free.   *)
RoomAhead(h, n, slack) ==
  AllFree(held[h] + Required(TagOf(h)), Required(n) - Required(TagOf(h)), slack)

Grows(h, n) == held[h] # NoChunk /\ Required(TagOf(h)) < Required(n)

(* The requests that call find_dynamic_chunk. *)
Searches(h, n, slack) ==
  /\ Required(n) < ChunkCount
  /\ held[h] = NoChunk \/ (Grows(h, n) /\ ~RoomAhead(h, n, slack))

-----------------------------------------------------------------------------

DynamicAlloc(h, n) ==
  /\ status = "running"
  /\ held[h] = NoChunk
  /\ \E slack \in BOOLEAN, c \in Chunk :
       /\ Searches(h, n, slack)
       /\ Found(c, Required(n), slack)
       /\ InRegion(c, Required(n))
       /\ inUse' = MarkFrom(c, Required(n), TRUE)
       /\ region' = Cleared(WithTag(region, c, n), c, 0, n)
       /\ held' = [held EXCEPT ![h] = c]
       /\ size' = [size EXCEPT ![h] = n]
  /\ UNCHANGED <<static, status>>

(* arena_dynamic_realloc, the four ways it returns. *)
ResizeSameChunks(h, n) ==
  /\ Required(TagOf(h)) = Required(n)
  /\ region' = WithTag(region, held[h], n)
  /\ UNCHANGED <<inUse, held>>

GrowInPlace(h, n) ==
  /\ Grows(h, n)
  /\ \E slack \in BOOLEAN : RoomAhead(h, n, slack)
  /\ InRegion(held[h], Required(n))
  /\ inUse' = MarkFrom(held[h], Required(n), TRUE)
  /\ region' = WithTag(Cleared(region, held[h], TagOf(h), n), held[h], n)
  /\ UNCHANGED held

GrowByMoving(h, n) ==
  LET tag == TagOf(h)
      old == held[h]
      Copied(c) ==
        [k \in Chunk |-> [w \in Word |->
           IF <<k, w>> \in Cells(c, 0, tag) THEN region[old + (k - c)][w]
           ELSE region[k][w]]]
  IN /\ Grows(h, n)
     /\ \E slack \in BOOLEAN, c \in Chunk :
          /\ Searches(h, n, slack)
          /\ Found(c, Required(n), slack)
          /\ InRegion(c, Required(n))
          /\ inUse' = [k \in Chunk |->
                         IF k \in old .. old + Required(tag) - 1 THEN FALSE
                         ELSE MarkFrom(c, Required(n), TRUE)[k]]
          /\ region' = Cleared(WithTag(Copied(c), c, n), c, tag, n)
          /\ held' = [held EXCEPT ![h] = c]

Shrink(h, n) ==
  LET tag == TagOf(h)
  IN /\ Required(tag) > Required(n)
     /\ region' = WithTag(region, held[h], n)
     /\ inUse' = MarkFrom(held[h] + Required(n), Required(tag) - Required(n), FALSE)
     /\ UNCHANGED held

DynamicRealloc(h, n) ==
  /\ status = "running"
  /\ held[h] # NoChunk
  /\ Required(n) < ChunkCount
  /\ \/ ResizeSameChunks(h, n)
     \/ GrowInPlace(h, n)
     \/ GrowByMoving(h, n)
     \/ Shrink(h, n)
  /\ size' = [size EXCEPT ![h] = n]
  /\ UNCHANGED <<static, status>>

Freed(h) ==
  /\ inUse' = MarkFrom(held[h], Required(TagOf(h)), FALSE)
  /\ held' = [held EXCEPT ![h] = NoChunk]
  /\ size' = [size EXCEPT ![h] = 0]
  /\ UNCHANGED region

DynamicFree(h) ==
  /\ status = "running"
  /\ held[h] # NoChunk
  /\ Freed(h)
  /\ UNCHANGED <<static, status>>

-----------------------------------------------------------------------------

(* A static block: size words behind the first offset words of a chunk.    *)
StaticBlock(c, off, n) == [chunk |-> c, offset |-> off, size |-> n]

CleanStatic(cap, n) ==
  [capacity |-> cap, head |-> n, buffer |-> [i \in 1 .. cap |-> 0]]

(* Two deviations of arena_alloc: the index of the new current chunk taken *)
(* after the count went up, and a new chunk whose head was left at zero.   *)
AllocResultLateIndex(n) ==
  LET cur == statics[current]
      next == Len(statics) + 1
  IN IF n >= StaticMin \/ cur.head + n > cur.capacity
     THEN [chunks |-> Append(statics, CleanStatic(IF n >= StaticMin THEN n ELSE StaticMin, n)),
           current |-> IF n >= StaticMin THEN current ELSE next + 1,
           block |-> StaticBlock(next, 0, n)]
     ELSE [chunks |-> [statics EXCEPT ![current].head = @ + n],
           current |-> current, block |-> StaticBlock(current, cur.head, n)]

AllocResultZeroHead(n) ==
  LET cur == statics[current]
      next == Len(statics) + 1
  IN IF cur.head + n > cur.capacity
     THEN [chunks |-> Append(statics, CleanStatic(IF n >= StaticMin THEN n ELSE StaticMin, 0)),
           current |-> next, block |-> StaticBlock(next, 0, n)]
     ELSE [chunks |-> [statics EXCEPT ![current].head = @ + n],
           current |-> current, block |-> StaticBlock(current, cur.head, n)]

(* What arena_alloc(n) leaves of the static chunks, and the block it hands *)
(* out: a large one has a chunk of its own, a small one follows the last   *)
(* small one or, where it does not fit, starts the next current chunk.     *)
AllocResult(n) ==
  LET cur == statics[current]
      next == Len(statics) + 1
  IN CASE n >= StaticMin ->
            [chunks |-> Append(statics, CleanStatic(n, n)),
             current |-> current, block |-> StaticBlock(next, 0, n)]
       [] n < StaticMin /\ cur.head + n <= cur.capacity ->
            [chunks |-> [statics EXCEPT ![current].head = @ + n],
             current |-> current, block |-> StaticBlock(current, cur.head, n)]
       [] n < StaticMin /\ cur.head + n > cur.capacity ->
            [chunks |-> Append(statics, CleanStatic(StaticMin, n)),
             current |-> next, block |-> StaticBlock(next, 0, n)]

WrittenOneEarly(chunks, b, data) ==
  [chunks EXCEPT ![b.chunk].buffer =
     [i \in DOMAIN @ |-> IF i \in b.offset .. b.offset + b.size - 1
                         THEN data[i - b.offset + 1] ELSE @[i]]]

Written(chunks, b, data) ==
  [chunks EXCEPT ![b.chunk].buffer =
     [i \in DOMAIN @ |-> IF i \in b.offset + 1 .. b.offset + b.size
                         THEN data[i - b.offset] ELSE @[i]]]

Alloc(n) ==
  LET result == AllocResult(n)
  IN /\ status = "running"
     /\ Len(issued) < MaxStatic
     /\ statics' = result.chunks
     /\ current' = result.current
     /\ issued' = Append(issued, result.block)
     /\ UNCHANGED <<dynamic, status>>

(* arena_copy of as many words as the tag says, then arena_dynamic_free.   *)
DynamicFinalize(h) ==
  LET result == AllocResult(TagOf(h))
      words == [i \in 1 .. TagOf(h) |->
                  region[ChunkOf(held[h], i - 1)][WordOf(i - 1)]]
  IN /\ status = "running"
     /\ held[h] # NoChunk
     /\ Len(issued) < MaxStatic
     /\ statics' = Written(result.chunks, result.block, words)
     /\ current' = result.current
     /\ issued' = Append(issued, result.block)
     /\ Freed(h)
     /\ UNCHANGED status

-----------------------------------------------------------------------------

NoFlags == [k \in Chunk |-> FALSE]
BlankRegion == [k \in Chunk |-> [w \in Word |-> 0]]
FirstStatics == <<CleanStatic(StaticMin, 0)>>
NoneHeld == [h \in Clients |-> NoChunk]
NoSizes == [h \in Clients |-> 0]

(* The process ends, and its memory with it. *)
MemoryIsGone ==
  /\ inUse' = NoFlags
  /\ region' = BlankRegion
  /\ statics' = FirstStatics
  /\ current' = 1
  /\ held' = NoneHeld
  /\ size' = NoSizes
  /\ issued' = <<>>

(* error("unable to find an available dynamic memory chunk") exits. *)
Exhausted ==
  /\ status = "running"
  /\ \E slack \in BOOLEAN, h \in Clients, n \in Sizes :
       /\ Searches(h, n, slack)
       /\ \A c \in Chunk : ~Found(c, Required(n), slack)
  /\ status' = "exhausted"
  /\ MemoryIsGone

(* The flags read behind the array came out free and the block crosses the *)
(* end of the region.  What its flags and words overwrite is undefined, so *)
(* the behaviour stops here.                                               *)
Overrun ==
  /\ status = "running"
  /\ \E slack \in BOOLEAN, h \in Clients, n \in Sizes :
       \/ /\ Searches(h, n, slack)
          /\ \E c \in Chunk : /\ Found(c, Required(n), slack)
                              /\ ~InRegion(c, Required(n))
       \/ /\ Required(n) < ChunkCount
          /\ Grows(h, n)
          /\ RoomAhead(h, n, slack)
          /\ ~InRegion(held[h], Required(n))
  /\ status' = "overrun"
  /\ MemoryIsGone

(* A client fills its block, and the holder of a static block fills it.    *)
Fill(h, v) ==
  /\ status = "running"
  /\ held[h] # NoChunk
  /\ region' = [k \in Chunk |-> [w \in Word |->
       IF <<k, w>> \in Cells(held[h], 0, size[h]) THEN v ELSE region[k][w]]]
  /\ UNCHANGED <<inUse, held, size, static, status>>

FillStatic(s, v) ==
  /\ status = "running"
  /\ statics' = Written(statics, issued[s], [i \in 1 .. issued[s].size |-> v])
  /\ UNCHANGED <<dynamic, current, issued, status>>

-----------------------------------------------------------------------------

Init ==
  /\ inUse = NoFlags
  /\ region = BlankRegion
  /\ statics = FirstStatics
  /\ current = 1
  /\ held = NoneHeld
  /\ size = NoSizes
  /\ issued = <<>>
  /\ status = "running"

Next ==
  \/ \E h \in Clients, n \in Sizes : DynamicAlloc(h, n)
  \/ \E h \in Clients, n \in Sizes : DynamicRealloc(h, n)
  \/ \E h \in Clients : DynamicFree(h)
  \/ \E h \in Clients : DynamicFinalize(h)
  \/ \E h \in Clients, v \in Values : Fill(h, v)
  \/ \E n \in Sizes : Alloc(n)
  \/ \E s \in DOMAIN issued, v \in Values : FillStatic(s, v)
  \/ Exhausted
  \/ Overrun

Spec == Init /\ [][Next]_vars

-----------------------------------------------------------------------------

Span(h) == held[h] .. held[h] + Required(size[h]) - 1
Holders == {h \in Clients : held[h] # NoChunk}

TypeOK ==
  /\ inUse \in [Chunk -> BOOLEAN]
  /\ region \in [Chunk -> [Word -> Nat]]
  /\ held \in [Clients -> Chunk \cup {NoChunk}]
  /\ size \in [Clients -> Nat]
  /\ statics \in Seq([capacity : Nat, head : Nat, buffer : Seq(Nat)])
  /\ current \in DOMAIN statics
  /\ issued \in Seq([chunk : Nat, offset : Nat, size : Nat])
  /\ status \in {"running", "exhausted", "overrun"}

(* The size tag the allocator trusts in realloc, finalize and free is      *)
(* still the size the holder of the block asked for, whatever all clients  *)
(* stored since.                                                           *)
TagsIntact == \A h \in Holders : TagOf(h) = size[h]

(* Every block lies inside the region, and no two clients share a chunk.   *)
BlocksDisjoint ==
  /\ \A h \in Holders : InRegion(held[h], Required(size[h]))
  /\ \A h, g \in Holders : h # g => Span(h) \cap Span(g) = {}

(* The chunks flagged in use are those of the blocks held: none is lost,   *)
(* none is handed out while somebody holds it.                             *)
FlagsExact ==
  \A k \in Chunk : inUse[k] <=> \E h \in Holders : k \in Span(h)

(* find_dynamic_chunk is named to return an available chunk: a block never *)
(* reaches past the end of the dynamic region.                             *)
InsideRegion == status # "overrun"

(* Static blocks lie inside the used part of their chunk and never overlap.*)
StaticsDisjoint ==
  /\ \A s \in DOMAIN issued :
       issued[s].offset + issued[s].size <= statics[issued[s].chunk].head
  /\ \A c \in DOMAIN statics : statics[c].head <= statics[c].capacity
  /\ \A s, t \in DOMAIN issued :
       (s # t /\ issued[s].chunk = issued[t].chunk) =>
         \/ issued[s].offset + issued[s].size <= issued[t].offset
         \/ issued[t].offset + issued[t].size <= issued[s].offset

(* The words a client sees through its pointers. *)
Contents(h) ==
  [i \in 1 .. size[h] |-> region[ChunkOf(held[h], i - 1)][WordOf(i - 1)]]

StaticContents(s) ==
  [i \in 1 .. issued[s].size |->
     statics[issued[s].chunk].buffer[issued[s].offset + i]]

Store == INSTANCE BlockStore WITH
  block <- [h \in Clients |-> IF held[h] = NoChunk THEN <<>> ELSE Contents(h)],
  frozen <- [s \in DOMAIN issued |-> StaticContents(s)],
  halted <- status # "running"

(* Whatever the clients do, in whatever order, each sees in its blocks     *)
(* only what it stored there: resizing keeps the words that fit, freezing  *)
(* copies them, and no block is disturbed by another client.               *)
RefinesBlockStore == Store!Spec
=============================================================================
