-------------------------- MODULE MCReviewPipeline --------------------------
(* An instance of ReviewPipeline for TLC: a critical bead that the         *)
(* Refinery sees first, and a plain one.                                   *)
EXTENDS ReviewPipeline, TLC

CONSTANTS b1, b2, c1, c2

Limits(submits, verdicts, faults) ==
  [e \in Event |-> IF e = "submit" THEN submits ELSE IF e = "verdict" THEN verdicts
                   ELSE IF e \in faults THEN 1 ELSE 0]
Limited == {Limits(2, 0, {"overlap"}), Limits(1, 1, {"crash", "kgfail"}),
            Limits(1, 0, {"overlap", "crash", "kgfail", "locktimeout"})}

Symmetric == Permutations(Cycle)
=============================================================================
