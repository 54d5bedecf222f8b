--------------------------- MODULE DependencyGraph ---------------------------
(***************************************************************************)
(* Beads and what they need: the search for cycles that the Mayor makes    *)
(* before a plan is written (src/swarm/tools.ts), and the order in which   *)
(* SwarmCoordinator hands out beads (src/swarm/coordinator.ts).  A graph   *)
(* maps each bead of a list to its needs, among which there may be ids of  *)
(* no bead of the list; these are skipped by both.                         *)
(***************************************************************************)
EXTENDS Integers, Sequences, SequencesExt

(* What a cycle is: beads none of which can come first. *)
Acyclic(p) ==
  \A S \in SUBSET DOMAIN p : S # {} => \E b \in S : p[b] \cap S = {}

-----------------------------------------------------------------------------
(* Depth first.  Of a state m of the search, ids are the beads that are    *)
(* still to be looked at, one after the other, grey is the path to them    *)
(* and black what is done.  The first one on the path ends the search.     *)

Marks(p) == [ids : SUBSET DOMAIN p, grey : SUBSET DOMAIN p, black : SUBSET DOMAIN p]

Look(p, dfs, m) ==
  LET id == CHOOSE i \in m.ids : TRUE
      below == dfs[[ids |-> p[id] \cap DOMAIN p, grey |-> m.grey \cup {id}, black |-> m.black]]
      others(black) == dfs[[ids |-> m.ids \ {id}, grey |-> m.grey, black |-> black]]
  IN  IF m.ids = {} THEN [cycle |-> FALSE, black |-> m.black]
      ELSE IF id \in m.grey THEN [cycle |-> TRUE, black |-> m.black]
      ELSE IF id \in m.black THEN others(m.black)
      ELSE IF below.cycle THEN below
      ELSE others(below.black \cup {id})

(* Mutant of detectCycles: a bead that needs itself is not noticed. *)
detectLongCycles(p) == ~Acyclic([b \in DOMAIN p |-> p[b] \ {b}])

detectCycles(p) ==
  LET dfs[m \in Marks(p)] == Look(p, dfs, m)
  IN  dfs[[ids |-> DOMAIN p, grey |-> {}, black |-> {}]].cycle

-----------------------------------------------------------------------------
(* SwarmCoordinator. *)

(* Mutant of Freed: one need done is enough. *)
FreedEarly(p, id, sorted, b) == id \in p[b] /\ b \notin ToSet(sorted)

(* The in-degree of b falls to zero with id. *)
Freed(p, id, sorted, b) == id \in p[b] /\ p[b] \cap DOMAIN p \subseteq ToSet(sorted)

(* The beads of S in the order of the list. *)
InOrder(beads, S) ==
  LET kept[i \in 0..Len(beads)] ==
        IF i = 0 THEN <<>>
        ELSE IF beads[i] \in S THEN Append(kept[i - 1], beads[i]) ELSE kept[i - 1]
  IN  kept[Len(beads)]

(* Kahn's algorithm over the list beads.  After n rounds of its loop found *)
(* is what has ever been in the queue: the first n of it have left it and  *)
(* are sorted, the rest is still there.  No bead gets there twice, so the  *)
(* queue is empty after as many rounds as there are beads.  The code       *)
(* throws where the result is shorter than the list.                       *)
Round(p, beads, n, found) ==
  IF Len(found) < n THEN found
  ELSE found \o InOrder(beads, {b \in DOMAIN p : Freed(p, found[n], SubSeq(found, 1, n), b)})

topologicalSort(p, beads) ==
  LET found[n \in 0..Len(beads)] ==
        IF n = 0 THEN InOrder(beads, {b \in DOMAIN p : p[b] \cap DOMAIN p = {}})
        ELSE Round(p, beads, n, found[n - 1])
  IN  found[Len(beads)]

(* Critical beads first, then by weight, then as sorted. *)
priorityScore(bead) == (IF bead.critical THEN 1000 ELSE 0) + 10 * bead.weight

ByPriority(sorted, info) ==
  LET above(i, j) == \/ priorityScore(info[sorted[i]]) > priorityScore(info[sorted[j]])
                     \/ /\ priorityScore(info[sorted[i]]) = priorityScore(info[sorted[j]])
                        /\ i < j
  IN  [n \in DOMAIN sorted |->
         sorted[CHOOSE i \in DOMAIN sorted :
                  n = 1 + Cardinality({j \in DOMAIN sorted : above(j, i)})]]

(* Mutant of Turn: completed when the dispatch starts. *)
TurnOptimistically(p, works, b, s) ==
  IF p[b] \subseteq s.done
  THEN [sent |-> Append(s.sent, b), done |-> s.done \cup {b}] ELSE s

(* A bead whose needs are not completed is passed over; of those           *)
(* dispatched, the ones in works do not fail.  The needs that are no bead  *)
(* of the list have to be completed too.                                   *)
Turn(p, works, b, s) ==
  IF p[b] \subseteq s.done
  THEN [sent |-> Append(s.sent, b), done |-> s.done \cup ({b} \cap works)] ELSE s

(* One call. *)
dispatchWithPriority(p, beads, info, works, done) ==
  LET queue == ByPriority(topologicalSort(p, beads), info)
      turns[i \in 0..Len(queue)] ==
        IF i = 0 THEN [sent |-> <<>>, done |-> done]
        ELSE Turn(p, works, queue[i], turns[i - 1])
  IN  turns[Len(queue)]

-----------------------------------------------------------------------------

Lists(p) == SetToSeqs(DOMAIN p)
Sorts(p, sorted) ==
  /\ ToSet(sorted) = DOMAIN p /\ Len(sorted) = Cardinality(DOMAIN p)
  /\ \A i \in DOMAIN sorted : p[sorted[i]] \cap DOMAIN p \subseteq ToSet(SubSeq(sorted, 1, i - 1))

(* Both searches say what a cycle is, and a sorted list has every bead     *)
(* behind its needs.                                                       *)
SearchedRightly(p) ==
  /\ detectCycles(p) <=> ~Acyclic(p)
  /\ \A beads \in Lists(p) :
       LET sorted == topologicalSort(p, beads)
       IN  IF Acyclic(p) THEN Sorts(p, sorted) ELSE Len(sorted) < Len(beads)

Infos(p) == [DOMAIN p -> [critical : BOOLEAN, weight : {1}] \cup [critical : {FALSE}, weight : {2}]]

(* Calls of dispatchWithPriority for one acyclic list, works being the     *)
(* beads that do not fail: nothing goes out before all it needs has been   *)
(* completed, and as many calls as there are beads complete whatever can be. *)
DispatchedRightly(p, info, works) ==
  LET beads == SetToSeq(DOMAIN p)
      call(done) == dispatchWithPriority(p, beads, info, works, done)
      calls[n \in 0 .. Len(beads)] == IF n = 0 THEN {} ELSE call(calls[n - 1]).done
      sent(n) == call(calls[n]).sent
  IN  /\ \A n \in 0 .. Len(beads) - 1 : \A i \in DOMAIN sent(n) :
           p[sent(n)[i]] \subseteq calls[n] \cup (works \cap ToSet(SubSeq(sent(n), 1, i - 1)))
      /\ \A b \in works : p[b] \subseteq calls[Len(beads)] => b \in calls[Len(beads)]
=============================================================================
