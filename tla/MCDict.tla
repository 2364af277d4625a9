------------------------------- MODULE MCDict -------------------------------
EXTENDS Dict, TLC

CONSTANTS k1, k2, k3, k4, v1, v2

ItemOf(k, v) == [key |-> k, val |-> v]

(* Hashes for lookup tables of 8 and of 16 slots.  Two keys share a home  *)
(* at the end of the table, a third one's home is where they run to around *)
(* the end, and the fourth shares their home until the table grows.        *)
Clusters == (k1 :> 7 @@ k2 :> 7 @@ k3 :> 0 @@ k4 :> 15)
MCHashes == {Clusters}

MCAssignments == {ItemOf(k, v1) : k \in Keys} \cup {ItemOf(k1, v2)}
MCOthers == {<<ItemOf(k4, v1), ItemOf(k1, v1)>>}
=============================================================================
