--------------------------- MODULE MCWorkerRuntime ---------------------------
(* Instances of WorkerRuntime for TLC. *)
EXTENDS WorkerRuntime, TLC

CONSTANTS base, dep, other   \* beads

(* dep needs base. *)
PairBeads == {base, dep}
PairNeeds == (base :> {}) @@ (dep :> {base})
PairTask  == (base :> "first") @@ (dep :> "second")

(* All ask for the same, but only base and other also need the same: each  *)
(* of them can take over the result of the other one.                      *)
TwinBeads == {base, dep, other}
TwinNeeds == PairNeeds @@ (other :> {})
TwinTask  == [n \in TwinBeads |-> "same"]

(* All are recorded, or the line of base is corrupt or missing. *)
SomeRecorded == {TwinBeads, {dep, other}}
LiveRecorded == {{base, dep}}
PairRecorded == {PairBeads}

CONSTANTS p1, p2, c1, c2
Alike == Permutations({p1, p2}) \cup Permutations({c1, c2})

(* n dispatches, and each of the given events once. *)
Events(n, once) ==
  [e \in Event |-> IF e = "dispatch" THEN n ELSE IF e \in once THEN 1 ELSE 0]

TownBudgets ==
  { [Events(2, {}) EXCEPT !["overlap"] = 1],
    Events(2, {"restart", "drain"}),
    [Events(1, {}) EXCEPT !["stall"] = 3],
    Events(1, {"stall", "deadlock"}),
    Events(1, {"stall", "violation"}),
    Events(1, {"deadlock", "violation"}),
    Events(2, {"unheard"}) }
LiveBudgets    == { Events(2, {"locktimeout", "scanfail", "slowscan"}),
                    Events(2, {"sendfail"}) }
RequeueBudgets == {Events(2, {})}
=============================================================================
