------------------------------ MODULE MayorPlan ------------------------------
(***************************************************************************)
(* Mayor.orchestrate with decompose and covePass, and Mayor.startup        *)
(* (src/roles/mayor.ts): from a task to beads in the ledger.  What the     *)
(* language model answers is an arbitrary choice: any plan over fresh bead *)
(* ids, any corrections, or an error.  The Mayor awaits each answer and    *)
(* each ledger append; workers record their progress meanwhile.            *)
(***************************************************************************)
EXTENDS BeadRecords, DependencyGraph, FiniteSets

CONSTANTS noSuchBead,    \* a need that is no bead's id
          Limit,         \* in-flight limit
          Expanded,      \* the limit while throughput is high (swarmRebalanceLimits)
          MaxPlans       \* bound: calls of orchestrate

ASSUME IdAssumption == IsFiniteSet(Bead) /\ noSuchBead \notin Bead
ASSUME LimitAssumption ==
  Limit \in Nat /\ Expanded \in Nat /\ Limit <= Expanded /\ MaxPlans \in Nat

VARIABLES
  needs,     \* needs[b]: bead.needs as written
  stage,     \* what orchestrate awaits
  plan,      \* the plan in hand: a function from its beads to their needs
  todo,      \* beads of the plan still to be written
  planned,   \* beads of the plans orchestrate returned
  dispatched,\* beads sent to a mailbox
  refusal,   \* why the last call of orchestrate threw
  adopted,   \* what the last startup() returned
  drawn,     \* the ids drawn so far: createBead never draws one twice
  plans

planVars == <<ledger, needs, stage, plan, todo, planned, dispatched, refusal, adopted,
              drawn, plans>>

Known == {b \in Bead : ledger[b] # <<>>}
noPlan == <<>>

PlanInit ==
  /\ ledger = [b \in Bead |-> <<>>]
  /\ needs = [b \in Bead |-> {}]
  /\ stage = "idle" /\ plan = noPlan /\ todo = {}
  /\ planned = {} /\ dispatched = {}
  /\ refusal = "none" /\ adopted = FALSE /\ drawn = {} /\ plans = 0

-----------------------------------------------------------------------------
(* orchestrate. *)

(* Records count, not beads: every bead that ever ran has one. *)
inProgressCount ==
  Cardinality(UNION {{b} \X {i \in DOMAIN ledger[b] : IsRunning(ledger[b][i])} : b \in Bead})

Throw(reason) ==
  /\ stage' = "idle" /\ plan' = noPlan /\ todo' = {}
  /\ refusal' = reason

(* The limit depends on the throughput and error rate of the last minute, *)
(* the second check on the depth of the mailboxes: both are choices here.  *)
Refuse(limit) ==
  /\ stage = "idle" /\ plans < MaxPlans
  /\ plans' = plans + 1
  /\ \/ inProgressCount >= limit /\ Throw("capacity")
     \/ inProgressCount < limit /\ Throw("inbox")
  /\ UNCHANGED <<ledger, needs, planned, dispatched, adopted, drawn>>

orchestrate(limit) ==
  /\ stage = "idle" /\ plans < MaxPlans
  /\ inProgressCount < limit
  /\ plans' = plans + 1
  /\ stage' = "decomposing" /\ refusal' = "none"
  /\ UNCHANGED <<ledger, needs, plan, todo, planned, dispatched, adopted, drawn>>

(* The cycle guard, after decompose returned p. *)
Guard(p) ==
  IF detectCycles(p)
  THEN Throw("cycle")
  ELSE stage' = "writing" /\ plan' = p /\ todo' = DOMAIN p /\ UNCHANGED refusal

(* The ids are drawn after the model named the needs, so these can be ids  *)
(* of older beads at best.  A plan of several beads is reviewed, any other *)
(* one is final; without a usable answer it is one bead without needs.     *)
Decomposed(S) ==
  /\ stage = "decomposing"
  /\ S \cap drawn = {} /\ drawn' = drawn \cup S
  /\ \E p \in [S -> SUBSET (Known \cup {noSuchBead})] :
       \/ /\ Cardinality(S) > 1
          /\ stage' = "reviewing" /\ plan' = p
          /\ UNCHANGED <<todo, refusal>>
       \/ Cardinality(S) <= 1 /\ Guard(p)
  /\ UNCHANGED <<ledger, needs, planned, dispatched, adopted, plans>>

DecomposeFails(b) ==
  /\ stage = "decomposing"
  /\ b \notin drawn /\ drawn' = drawn \cup {b}
  /\ Guard([x \in {b} |-> {}])
  /\ UNCHANGED <<ledger, needs, planned, dispatched, adopted, plans>>

(* Mutant of covePass: the corrected plan is not checked again. *)
covePassUnchecked(add) ==
  /\ stage = "reviewing"
  /\ Guard([b \in DOMAIN plan |-> plan[b] \cup add[b]])
  /\ UNCHANGED <<ledger, needs, planned, dispatched, adopted, drawn, plans>>

(* Corrections name beads of the plan; those that make a cycle are dropped *)
(* (a failing review adds nothing).                                        *)
covePass(add) ==
  /\ stage = "reviewing"
  /\ LET updated == [b \in DOMAIN plan |-> plan[b] \cup add[b]]
     IN  Guard(IF detectCycles(updated) THEN plan ELSE updated)
  /\ UNCHANGED <<ledger, needs, planned, dispatched, adopted, drawn, plans>>

WriteBead(b) ==
  /\ stage = "writing" /\ b \in todo
  /\ ledger' = Written(ledger, b, "pending", "none")
  /\ needs' = [needs EXCEPT ![b] = plan[b]]
  /\ todo' = todo \ {b}
  /\ UNCHANGED <<stage, plan, planned, dispatched, refusal, adopted, drawn, plans>>

(* The ledger lock: what is written stays, orchestrate throws. *)
WriteTimeout ==
  /\ stage = "writing" /\ todo # {}
  /\ Throw("lock")
  /\ UNCHANGED <<ledger, needs, planned, dispatched, adopted, drawn, plans>>

(* orchestrate returns the plan to index.ts, which prints it. *)
ReturnPlan ==
  /\ stage = "writing" /\ todo = {}
  /\ planned' = planned \cup DOMAIN plan
  /\ stage' = "idle" /\ plan' = noPlan
  /\ UNCHANGED <<ledger, needs, todo, dispatched, refusal, adopted, drawn, plans>>

-----------------------------------------------------------------------------
(* A replacement Mayor. *)

(* Mutant of startup: only beads in progress are adopted. *)
startupRunningOnly ==
  /\ stage' = "idle" /\ plan' = noPlan /\ todo' = {}
  /\ adopted' = \E b \in Bead : Some(ledger[b], IsRunning)
  /\ UNCHANGED <<ledger, needs, planned, dispatched, refusal, drawn, plans>>

(* The old Mayor is gone, whatever it did; startup reads the ledger. *)
startup ==
  /\ stage' = "idle" /\ plan' = noPlan /\ todo' = {}
  /\ adopted' = \E b \in Bead : Some(ledger[b], IsOpen)
  /\ UNCHANGED <<ledger, needs, planned, dispatched, refusal, drawn, plans>>

-----------------------------------------------------------------------------
(* Whoever holds the plan dispatches its beads (MayorDispatch); a worker   *)
(* takes one up and reports.                                               *)

DispatchBead(b) ==
  /\ b \in planned \ dispatched
  /\ dispatched' = dispatched \cup {b}
  /\ UNCHANGED <<ledger, needs, stage, plan, todo, planned, refusal, adopted, drawn, plans>>

Progress(b) ==
  /\ b \in dispatched
  /\ \/ LatestIs(ledger[b], LAMBDA r : r.status = "pending")
        /\ ledger' = Written(ledger, b, "in_progress", "none")
     \/ LatestIs(ledger[b], IsRunning)
        /\ ledger' \in {Written(ledger, b, "done", "SUCCESS"),
                        Written(ledger, b, "failed", "FAILURE")}
  /\ UNCHANGED <<needs, stage, plan, todo, planned, dispatched, refusal, adopted, drawn, plans>>

PlanNext ==
  \/ \E limit \in {Limit, Expanded} : orchestrate(limit) \/ Refuse(limit)
  \/ \E S \in SUBSET Bead : Decomposed(S)
  \/ \E b \in Bead : DecomposeFails(b) \/ WriteBead(b) \/ DispatchBead(b) \/ Progress(b)
  \/ \E add \in [DOMAIN plan -> SUBSET DOMAIN plan] : covePass(add)
  \/ WriteTimeout \/ ReturnPlan \/ startup

PlanSpec == PlanInit /\ [][PlanNext]_planVars

-----------------------------------------------------------------------------

(* While orchestrate writes, the plan in hand is what the ledger gets. *)
PlanTypeOK ==
  /\ ledger \in [Bead -> Seq(Record)]
  /\ needs \in [Bead -> SUBSET (Bead \cup {noSuchBead})]
  /\ stage \in {"idle", "decomposing", "reviewing", "writing"}
  /\ DOMAIN plan \subseteq Bead
  /\ todo \subseteq DOMAIN plan
  /\ stage = "writing" => \A b \in DOMAIN plan : b \in todo <=> b \notin Known
  /\ planned \subseteq Known /\ dispatched \subseteq planned
  /\ refusal \in {"none", "capacity", "inbox", "cycle", "lock"}
  /\ adopted \in BOOLEAN /\ Known \cup DOMAIN plan \subseteq drawn /\ plans \in 0..MaxPlans

(* HARDENING.md 2.3: no cycle of needs ever reaches the ledger, not even   *)
(* through corrections or through a plan that was written only in part.    *)
LedgerIsAcyclic == Acyclic([b \in Known |-> needs[b]])

(* "CoVe corrections that introduce cycles are silently discarded", and    *)
(* nothing else can close one: no plan is refused for a cycle.             *)
ReviewNeverBreaksPlan == refusal # "cycle"

(* RESILIENCE.md, Mayor Session Recovery: a replacement Mayor adopts       *)
(* whenever a bead is unfinished.                                          *)
Unfinished == {b \in Bead : LatestIs(ledger[b], IsOpen)}
UnfinishedAreAdopted == [][startup /\ Unfinished # {} => adopted']_planVars

(* The search for cycles finds exactly those of any corrected plan, the    *)
(* ones of a bead that needs itself too and whatever needs point outside   *)
(* the plan (tools.ts:189), and the coordinator's sort agrees with it in   *)
(* any order of the list (coordinator.ts:31).                              *)
SearchesAgree ==
  stage = "reviewing" =>
    \A add \in [DOMAIN plan -> SUBSET DOMAIN plan] :
      SearchedRightly([b \in DOMAIN plan |-> plan[b] \cup add[b]])

(* "Dispatch beads in priority order, respecting dependencies"             *)
(* (coordinator.ts:106), for every plan the guard lets through, whatever   *)
(* the priorities and whoever fails.                                       *)
DispatchFollowsNeeds ==
  stage = "writing" /\ todo = DOMAIN plan =>
    \A info \in Infos(plan), works \in SUBSET DOMAIN plan :
      DispatchedRightly(plan, info, works)
=============================================================================
