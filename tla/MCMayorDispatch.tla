--------------------------- MODULE MCMayorDispatch ---------------------------
(* Instances of MayorDispatch for TLC. *)
EXTENDS MayorDispatch, TLC

CONSTANTS left, right, join, caller1, caller2

(* join is a rendezvous of left and right. *)
JoinNeeds == (left :> {}) @@ (right :> {}) @@ (join :> {left, right})

JoinTwice  == [b \in Bead |-> IF b = join THEN 2 ELSE 1]

Callers == Permutations({caller1, caller2})
=============================================================================
