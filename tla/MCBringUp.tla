----------------------------- MODULE MCBringUp -----------------------------
(* BringUp for TLC: fewer ports than eight, one of each kind at least. *)
EXTENDS BringUp

MCChip == [r1    |-> [p \in 0 .. 1 |-> "454"],
           r2    |-> [p \in 0 .. 2 |-> IF p = 0 THEN "454" ELSE IF p = 1 THEN "452" ELSE "FX"],
           probe |-> [p \in {} |-> "454"]]
=============================================================================
