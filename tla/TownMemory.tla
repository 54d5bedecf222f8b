----------------------------- MODULE TownMemory -----------------------------
(***************************************************************************)
(* Who writes and reads the knowledge graph: the Historian's runs          *)
(* (src/roles/historian.ts), nightly in the town's process or from a       *)
(* shell, the script that seeds routes (src/historian/bootstrap-kg.ts),    *)
(* lockdowns (src/roles/safeguard.ts), hooks (src/hooks), and the Mayor,   *)
(* who asks it for a playbook and for routes (src/routing/dispatch.ts).    *)
(* Rows that no code reads (closing records, fallbacks) are left out.      *)
(***************************************************************************)
EXTENDS KnowledgeGraph, FiniteSetsExt

CONSTANTS Town,        \* the process of the Mayor, Safeguard, hooks and nightly runs
          Boot,        \* the process of the seeding script
          Run, host,   \* the Historian's runs, and the process of each
          Histories,   \* possible ledgers over time: sequences of tallies, tally[m][t]
          Table,       \* the routing table: pairs of a model and a task type
          Added,       \* what hooks may add: <<agent, model, relation, task>>
          Primary,     \* TASK_COMPLEXITY and COMPLEXITY_MODELS
          Fallback,    \* getFallbackModel
          PreferTypes, \* task types a preferred model does well in (5 in the code)
          MaxPolls,    \* MAX_POLL_ATTEMPTS
          Budgets      \* bound: how often each of Event may happen in one behaviour

ASSUME MemoryAssumption ==
  /\ Town \in Process /\ Boot \in Process /\ host \in [Run -> Process]
  /\ Fallback \in Model /\ Table \subseteq Model \X Task
  /\ Added \subseteq (DOMAIN ROLE_PRECEDENCE \ {"historian"}) \X Model
                     \X {"locked_to", "demoted_from"} \X Task

VARIABLES ledger, age,  \* the history of the ledger, and how far it has come
          todo,         \* todo[p]: rows that p writes before it does anything else
          run,          \* the Historian's runs
          best,         \* best[r][t]: the model that r takes for the best at t
          plan,         \* the call of Mayor.orchestrate
          spent         \* spent[e]: how often e has happened

Event == {"plan", "lockdown", "tool", "crash", "day", "seed", "overlap"}
townvars == <<ledger, age, todo, run, best, plan, spent>>
vars == <<kgvars, townvars>>

NoRun == [pc |-> "idle", seen |-> 0, polls |-> 0,
          nth |-> 0, alone |-> TRUE]
NoPlan == [pc |-> "idle", task |-> NoTask, hit |-> 0, since |-> 0]

Init ==
  /\ KGInit
  /\ ledger \in Histories /\ age = 1
  /\ todo = [p \in Process |-> {}]
  /\ run = [r \in Run |-> NoRun] /\ best = [r \in Run |-> [t \in Task |-> Fallback]]
  /\ plan = NoPlan
  /\ spent = [e \in Event |-> 0]

Free(p) == todo[p] = {} /\ writing[p].pc = "idle"
Spend(e) ==
  /\ spent' = [spent EXCEPT ![e] = @ + 1]
  /\ \E b \in Budgets : \A f \in Event : spent'[f] <= b[f]

NewRow(subject, relation, object, agent, from, task, hint, fresh) ==
  [subject |-> subject, relation |-> relation, object |-> object, agent |-> agent,
   from |-> from, to |-> Never, pending |-> FALSE,
   task |-> task, hint |-> hint, fresh |-> fresh]
ByHistorian(subject, relation, object) ==
  NewRow(subject, relation, object, "historian", day, NoTask, NoModel, FALSE)

(* Every statement of a process that has rows to write. *)
Write(p) ==
  /\ \/ \E row \in todo[p] : addTriple(p, row) /\ todo' = [todo EXCEPT ![p] = @ \ {row}]
     \/ selectConflicts(p) /\ UNCHANGED todo
     \/ (\E k \in writing[p].rivals : settleConflict(p, k)) /\ UNCHANGED todo
  /\ UNCHANGED <<ledger, age, run, best, plan, spent>>

-----------------------------------------------------------------------------
(* The Historian. *)

(* Of the beads of each task type: outcomes, and how many each model has.  *)
minePatterns(tally) ==
  [t \in Task |->
    [success |-> MapThenSumSet(LAMBDA m : tally[m][t].success, Model),
     fail    |-> MapThenSumSet(LAMBDA m : tally[m][t].fail, Model),
     models  |-> [m \in Model |-> tally[m][t].success + tally[m][t].fail + tally[m][t].open]]]

patterns(r) == minePatterns(ledger[run[r].seen])
Total(p) == p.success + p.fail

MostUsed(p) == {m \in Model : p.models[m] > 0 /\ \A n \in Model : p.models[n] <= p.models[m]}

PlaybookTasks(r) ==
  {t \in Task : LET p == patterns(r)[t] IN
                p.success >= 3 /\ 10 * p.success >= 7 * Total(p)}
LockedTasks(r) ==
  {t \in Task : LET p == patterns(r)[t] IN
                Total(p) >= 5 /\ 10 * p.success >= 9 * Total(p)}
DemotedTasks(r) ==
  {t \in Task : LET p == patterns(r)[t] IN Total(p) >= 10 /\ 2 * p.success < Total(p)}

(* A run is over when the rows of its last stage are written. *)
Underway(r) ==
  /\ run[r].pc \notin {"idle", "dead"}
  /\ ~(run[r].pc = "preferring" /\ Free(host[r]))

(* The ledger has grown, or not, since anybody looked. *)
runNightly(r) ==
  /\ run[r].pc = "idle" /\ Free(host[r])
  /\ IF \E o \in Run : Underway(o) THEN Spend("overlap") ELSE UNCHANGED spent
  /\ age' \in age .. Len(ledger)
  /\ best' \in {[best EXCEPT ![r] = of] : of \in [Task -> Model]}
  /\ \A t \in Task : LET used == MostUsed(minePatterns(ledger[age'])[t]) IN
                     best'[r][t] \in IF used = {} THEN {Fallback} ELSE used
  /\ run' = [q \in Run |->
       IF q = r
       THEN [pc |-> "synthesizing", seen |-> age', polls |-> 0,
             nth |-> 1 + Cardinality({o \in Run : run[o].pc # "idle"}),
             alone |-> ~\E o \in Run : Underway(o)]
       ELSE IF Underway(q) THEN [run[q] EXCEPT !.alone = FALSE] ELSE run[q]]
  /\ UNCHANGED <<kgvars, ledger, todo, plan>>

(* A stage of r leaves its host rows to write. *)
Stage(r, from, to, rows) ==
  /\ run[r].pc = from /\ Free(host[r])
  /\ run' = [run EXCEPT ![r].pc = to]
  /\ todo' = [todo EXCEPT ![host[r]] = rows]
  /\ UNCHANGED <<kgvars, ledger, age, best, plan, spent>>

PlaybookRow(r, t) ==
  LET p == patterns(r)[t] IN
  NewRow(Rig, "has_playbook", t, "historian", day, t, best[r][t],
         10 * p.success > 9 * Total(p) /\ Total(p) >= 20)

(* Of the playbooks asked for, any may fail, and is then left out.         *)
generatePlaybook(r, from) ==
  /\ run[r].pc = from
  /\ \E made \in SUBSET PlaybookTasks(r) :
       Stage(r, from, "playbooks", {PlaybookRow(r, t) : t \in made})

(* One task type is asked for at once, two or more through the batch API. *)
generatePlaybooks(r) ==
  /\ run[r].pc = "synthesizing" /\ Cardinality(PlaybookTasks(r)) < 2
  /\ generatePlaybook(r, "synthesizing")
createBatch(r) ==
  /\ run[r].pc = "synthesizing" /\ Cardinality(PlaybookTasks(r)) >= 2
  /\ Stage(r, "synthesizing", "batch", {})

(* The job goes on while there are polls left ... *)
pollBatch(r) ==
  /\ run[r].pc = "batch" /\ run[r].polls + 1 < MaxPolls
  /\ run' = [run EXCEPT ![r].polls = @ + 1]
  /\ UNCHANGED <<kgvars, ledger, age, todo, best, plan, spent>>

(* ... or ends, with results for some, or fails or expires, with none. *)
generatePlaybooksBatch(r) == generatePlaybook(r, "batch")

(* The rate is the task type's, the model the one with most of its beads.  *)
updateRoutingKG(r) ==
  Stage(r, "playbooks", "routing",
        {ByHistorian(best[r][t], "locked_to", t) : t \in LockedTasks(r)}
        \cup {ByHistorian(best[r][t], "demoted_from", t) : t \in DemotedTasks(r)})

(* Which models the witnesses approve of too seldom is a choice. *)
Reviewed(r, m) == MapThenSumSet(LAMBDA t : patterns(r)[t].models[m], Task) >= 5
autoValidatePromotedModels(r) ==
  /\ run[r].pc = "routing"
  /\ \E poor \in SUBSET {m \in Model : queryTriples(m, "locked_to") # {} /\ Reviewed(r, m)} :
       Stage(r, "routing", "validating",
             UNION {{ByHistorian(m, "demoted_from", triples[i].object) :
                       i \in queryTriples(m, "locked_to")} : m \in poor})

DoneWell(tally, m, t) ==
  LET o == tally[m][t] IN 100 * o.success > 85 * (o.success + o.fail)
updateRigPreferences(r) ==
  LET tally == ledger[run[r].seen]
      all(m) == MapThenSumSet(LAMBDA t : tally[m][t].success + tally[m][t].fail, Task)
      well(m) == MapThenSumSet(LAMBDA t : tally[m][t].success, Task)
  IN  Stage(r, "validating", "preferring",
            {ByHistorian(m, "preferred_for", Rig) :
               m \in {n \in Model :
                        /\ run[r].pc = "validating" /\ 100 * well(n) > 85 * all(n)
                        /\ Cardinality({t \in Task : DoneWell(tally, n, t)}) >= PreferTypes}})

-----------------------------------------------------------------------------
(* The other writers. *)

alreadyBootstrapped ==
  \E i \in DOMAIN triples : triples[i].from = 0 /\ triples[i].agent = "other"

writeBootstrapTriples ==
  /\ Free(Boot) /\ ~alreadyBootstrapped /\ Spend("seed")
  /\ todo' = [todo EXCEPT ![Boot] =
                {NewRow(e[1], "locked_to", e[2], "other", 0, NoTask, NoModel, FALSE) : e \in Table}]
  /\ UNCHANGED <<kgvars, ledger, age, run, best, plan>>

(* For one task type, or for all: a polecat's scan names none. *)
emitLockdown(t) ==
  /\ Free(Town) /\ Spend("lockdown")
  /\ addTriple(Town, NewRow("lockdown", "triggered_by", "reason", "safeguard", day,
                            t, NoModel, FALSE))
  /\ UNCHANGED <<ledger, age, todo, run, best, plan>>

(* kg_add: addTriple goes on in the town's process. *)
handleMcpTool(a) ==
  /\ Free(Town) /\ Spend("tool")
  /\ addTriple(Town, NewRow(a[2], a[3], a[4], a[1], day, NoTask, NoModel, FALSE))
  /\ UNCHANGED <<ledger, age, todo, run, best, plan>>

Crash(p) ==
  /\ ~Free(p) \/ \E r \in Run : host[r] = p /\ Underway(r)
  /\ Spend("crash") /\ die(p)
  /\ todo' = [todo EXCEPT ![p] = {}]
  /\ run' = [r \in Run |-> IF host[r] = p /\ Underway(r)
                           THEN [run[r] EXCEPT !.pc = "dead"] ELSE run[r]]
  /\ plan' = IF p = Town THEN NoPlan ELSE plan
  /\ UNCHANGED <<ledger, age, best>>

Midnight == Spend("day") /\ tomorrow /\ UNCHANGED <<ledger, age, todo, run, best, plan>>

-----------------------------------------------------------------------------
(* The Mayor. *)

(* orchestrate asks for a playbook, then whether it is fresh, ... *)
lookUp(t) ==
  /\ plan.pc = "idle" /\ Free(Town) /\ Spend("plan")
  /\ plan' = [pc |-> "looked", task |-> t, hit |-> queryPlaybook(t), since |-> Len(triples)]
  /\ UNCHANGED <<kgvars, ledger, age, todo, run, best>>

isPlaybookFresh ==
  /\ plan.pc = "looked" /\ Free(Town)
  /\ plan' = [pc |-> "decomposing", task |-> plan.task, since |-> plan.since,
               hit |-> IF plan.hit # 0 /\ triples[plan.hit].fresh /\ ~hasActiveLockdown(plan.task)
                       THEN plan.hit ELSE 0]
  /\ UNCHANGED <<kgvars, ledger, age, todo, run, best, spent>>

(* ... and awaits a plan, whose beads it routes. *)
decomposed ==
  /\ plan.pc = "decomposing" /\ Free(Town)
  /\ plan' = NoPlan
  /\ UNCHANGED <<kgvars, ledger, age, todo, run, best, spent>>

(* The models a bead of type t may get; of several preferred ones it is    *)
(* the one with the best rate, which the model does not tell apart.        *)
dispatch(t, hit) ==
  LET locks == queryEntity(t, "locked_to")
      demotions == queryEntity(t, "demoted_from")
      demoted == IF demotions = {} THEN NoModel ELSE triples[Newest(demotions)].subject
      preferred == {triples[i].subject : i \in queryEntity(Rig, "preferred_for")}
      complexity == IF demoted = Primary[t] THEN Fallback ELSE Primary[t]
  IN  IF locks # {} THEN {triples[Newest(locks)].subject}
      ELSE IF hit # 0 /\ plan.task = t THEN {triples[hit].hint}
      ELSE (preferred \ {demoted})
           \cup (IF preferred \ {demoted} = preferred /\ preferred # {} THEN {} ELSE {complexity})

-----------------------------------------------------------------------------

Next ==
  \/ \E p \in Process : Write(p) \/ Crash(p)
  \/ \E r \in Run : \/ runNightly(r) \/ generatePlaybooks(r) \/ createBatch(r) \/ pollBatch(r)
                    \/ generatePlaybooksBatch(r) \/ updateRoutingKG(r)
                    \/ autoValidatePromotedModels(r) \/ updateRigPreferences(r)
  \/ (\E t \in Task \cup {NoTask} : emitLockdown(t)) \/ (\E a \in Added : handleMcpTool(a))
  \/ (\E t \in Task : lookUp(t)) \/ isPlaybookFresh \/ decomposed
  \/ Midnight \/ writeBootstrapTriples

Spec == Init /\ [][Next]_vars

-----------------------------------------------------------------------------

(* A plan rests on no playbook that a lockdown, for its task type or for   *)
(* all, forbade before the plan was asked for (mayor.ts:165-168,           *)
(* dispatch.ts:130-139), whatever runs, crashes and days pass.             *)
LockdownBlocksPlaybook ==
  plan.pc = "decomposing" /\ plan.hit # 0 =>
    ~\E i \in 1 .. plan.since :
       triples[i].relation = "triggered_by" /\ triples[i].task \in {plan.task, NoTask}

(* r has written its routes for t, no other run was underway with it, none *)
(* has ruled since, and no hook has spoken on t.                           *)
LastWord(r, t) ==
  /\ \/ run[r].pc \in {"validating", "preferring"}
     \/ run[r].pc = "routing" /\ Free(host[r])
  /\ run[r].alone
  /\ \A q \in Run :
       run[q].nth > run[r].nth => run[q].pc \in {"synthesizing", "batch", "playbooks"}
  /\ \A i \in DOMAIN triples :
       triples[i].object = t => triples[i].agent = "historian" \/ triples[i].from = 0

(* The Mayor routes by the Historian's last word (historian.ts:296-352,    *)
(* dispatch.ts:65-121): a locked type goes to the model locked to it,      *)
(* whatever was seeded, superseded or promised by a playbook, and a type   *)
(* that was never locked never to the model demoted from it, unless that   *)
(* is the fallback itself.                                                 *)
NeverLocked(t) ==
  ~\E i \in DOMAIN triples : triples[i].relation = "locked_to" /\ triples[i].object = t
RoutesByEvidence ==
  \A r \in Run, t \in Task : LastWord(r, t) =>
    /\ t \in LockedTasks(r) => dispatch(t, plan.hit) = {best[r][t]}
    /\ t \in DemotedTasks(r) /\ NeverLocked(t) /\ best[r][t] # Fallback
       => best[r][t] \notin dispatch(t, 0)
=============================================================================
