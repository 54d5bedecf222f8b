---------------------------- MODULE MCTownMemory ----------------------------
(* An instance of TownMemory for TLC: two task types, one named as an     *)
(* extension of the other, and two models.                                *)
EXTENDS TownMemory, TLC

CONSTANTS town, shell, script, r1, r2, small, large, unit, unitDeep, rig

Prefixes == (unit :> {unit, unitDeep}) @@ (unitDeep :> {unitDeep})
ByComplexity == (unit :> small) @@ (unitDeep :> large)
Seeds == {<<small, unitDeep>>}
Tools == {<<"mayor", small, "locked_to", unitDeep>>}

Of(s, f) == [success |-> s, fail |-> f, open |-> 0]
Tally(smallUnit, smallDeep, largeUnit, largeDeep) ==
  (small :> ((unit :> smallUnit) @@ (unitDeep :> smallDeep)))
  @@ (large :> ((unit :> largeUnit) @@ (unitDeep :> largeDeep)))

(* The large model takes over a type it does better; a locked model fails; *)
(* one does well in both types.                                            *)
Promoted == <<Tally(Of(3, 0), Of(0, 0), Of(2, 0), Of(0, 0)),
              Tally(Of(3, 0), Of(0, 0), Of(20, 0), Of(0, 4))>>
Demoted == <<Tally(Of(0, 0), Of(2, 0), Of(0, 0), Of(20, 1)),
             Tally(Of(0, 0), Of(2, 0), Of(0, 0), Of(20, 30))>>
Preferred == <<Tally(Of(3, 0), Of(3, 0), Of(3, 1), Of(0, 0))>>
Evidence == {Promoted, Demoted, Preferred}

Pair(e, f) == [g \in Event |-> IF g \in {e, f} THEN 1 ELSE 0]
Pairs == {Pair("plan", "lockdown"), Pair("seed", "crash"), Pair("tool", "crash"),
          Pair("day", "tool"), Pair("overlap", "crash")}

Hosts == (r1 :> town) @@ (r2 :> shell)
=============================================================================
