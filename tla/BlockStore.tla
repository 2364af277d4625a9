----------------------------- MODULE BlockStore -----------------------------
(***************************************************************************)
(* What the arena of the compiler promises to the vectors, tables and      *)
(* instruction sequences built on it, without chunks, flags or size tags:  *)
(* every client holds at most one growing block whose words only that      *)
(* client changes, and may freeze the block into the static store, where   *)
(* it stays for the rest of the compilation.                               *)
(***************************************************************************)
EXTENDS Naturals, Sequences

CONSTANTS
  Clients,   \* the holders of dynamic blocks
  Sizes,     \* the block sizes a client may ask for, in words
  Values     \* the words a client may store, 0 being the cleared word

NoBlock == <<>>

VARIABLES
  block,     \* block[c] is the sequence of words c holds, or NoBlock
  frozen,    \* the static blocks handed out so far, oldest first
  halted     \* the program has stopped: no memory left

vars == <<block, frozen, halted>>

Constantly(v, n) == [i \in 1..n |-> v]

Init ==
  /\ block = [c \in Clients |-> NoBlock]
  /\ frozen = <<>>
  /\ halted = FALSE

(* A new block is cleared. *)
Alloc(c, n) ==
  /\ block[c] = NoBlock
  /\ block' = [block EXCEPT ![c] = Constantly(0, n)]
  /\ UNCHANGED <<frozen, halted>>

(* A resized block keeps the words that still fit; nothing is said of the  *)
(* words a growing block gains.                                            *)
Resize(c, n) ==
  /\ block[c] # NoBlock
  /\ block' \in [Clients -> Seq(Nat)]
  /\ Len(block'[c]) = n
  /\ \A i \in 1..n : i <= Len(block[c]) => block'[c][i] = block[c][i]
  /\ \A d \in Clients \ {c} : block'[d] = block[d]
  /\ UNCHANGED <<frozen, halted>>

Store(c, v) ==
  /\ block[c] # NoBlock
  /\ block' = [block EXCEPT ![c] = Constantly(v, Len(block[c]))]
  /\ UNCHANGED <<frozen, halted>>

Release(c) ==
  /\ block[c] # NoBlock
  /\ block' = [block EXCEPT ![c] = NoBlock]
  /\ UNCHANGED <<frozen, halted>>

(* The frozen copy holds the words the block held. *)
Freeze(c) ==
  /\ block[c] # NoBlock
  /\ frozen' = Append(frozen, block[c])
  /\ block' = [block EXCEPT ![c] = NoBlock]
  /\ UNCHANGED halted

AllocStatic(n) ==
  /\ frozen' = Append(frozen, Constantly(0, n))
  /\ UNCHANGED <<block, halted>>

StoreStatic(s, v) ==
  /\ frozen' = [frozen EXCEPT ![s] = Constantly(v, Len(frozen[s]))]
  /\ UNCHANGED <<block, halted>>

(* Out of memory the process ends, and its blocks with it. *)
Halt ==
  /\ halted' = TRUE
  /\ block' = [c \in Clients |-> NoBlock]
  /\ frozen' = <<>>

Next ==
  /\ ~halted
  /\ \/ \E c \in Clients, n \in Sizes : Alloc(c, n) \/ Resize(c, n)
     \/ \E c \in Clients, v \in Values : Store(c, v)
     \/ \E c \in Clients : Release(c) \/ Freeze(c)
     \/ \E n \in Sizes : AllocStatic(n)
     \/ \E s \in DOMAIN frozen, v \in Values : StoreStatic(s, v)
     \/ Halt

Spec == Init /\ [][Next]_vars
=============================================================================
