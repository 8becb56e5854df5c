------------------------------- MODULE FatMap -------------------------------
(***************************************************************************)
(* What fs_read_fat and fs_write_fat promise the rest of filesystem.c: the *)
(* allocation table is a map from clusters to values, and a write changes  *)
(* one of them; formatting clears them all.                                *)
(***************************************************************************)
CONSTANTS Clusters, Values

VARIABLE fat

Init == fat = [c \in Clusters |-> 0]

Write(c, v) == fat' = [fat EXCEPT ![c] = v]

Clear == fat' = [c \in Clusters |-> 0]

Next == Clear \/ \E c \in Clusters, v \in Values : Write(c, v)

Spec == Init /\ [][Next]_fat
=============================================================================
