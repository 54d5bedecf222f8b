--------------------------- MODULE KnowledgeGraph ---------------------------
(***************************************************************************)
(* The knowledge graph (src/kg/index.ts): one SQLite table that several    *)
(* processes write.  Each statement commits on its own, so an insertion    *)
(* and the settling of its conflicts interleave with other processes, and  *)
(* a crash leaves what was committed.                                      *)
(***************************************************************************)
EXTENDS Integers, Sequences

CONSTANTS Process, Task, Model, Rig, NoTask, NoModel,
          Extends,   \* Extends[t]: the task types that match playbook_<t>_%
          MaxDay     \* bound: days that pass

ASSUME DayAssumption == MaxDay \in Nat /\ MaxDay >= 1

VARIABLES triples,   \* the rows; the id of a row is its place
          day,       \* today
          writing,   \* writing[p]: how far p's addTriple has come
          orphans    \* history: ids whose writer died in addTriple

kgvars == <<triples, day, writing, orphans>>

(* By the first part of agent_id; any other agent, like bootstrap, has 0. *)
ROLE_PRECEDENCE == [historian |-> 5, mayor |-> 4, witness |-> 3, safeguard |-> 2,
                    polecat |-> 1, other |-> 0]
CRITICAL_RELATIONS == {"locked_to", "demoted_from", "owned_by", "safeguard_lockdown"}
Relation == CRITICAL_RELATIONS \cup {"has_playbook", "triggered_by", "preferred_for"}

Never == -1
Row == [subject : Model \cup {Rig, "lockdown"}, relation : Relation,
        object : Task \cup {Rig, "reason"}, agent : DOMAIN ROLE_PRECEDENCE,
        from : 0 .. MaxDay, to : {Never} \cup 0 .. MaxDay, pending : BOOLEAN,
        task : Task \cup {NoTask}, hint : Model \cup {NoModel}, fresh : BOOLEAN]

Rank(i) == ROLE_PRECEDENCE[triples[i].agent]
Critical(i) == triples[i].relation \in CRITICAL_RELATIONS
SameKey(i, j) ==
  /\ triples[i].subject = triples[j].subject
  /\ triples[i].relation = triples[j].relation
Active(i) ==
  /\ triples[i].from <= day
  /\ triples[i].to = Never \/ triples[i].to > day
Standing(i) == triples[i].to = Never

Idle == [pc |-> "idle", id |-> 0, rivals |-> {}, asof |-> 0]

KGInit ==
  /\ triples = <<>> /\ day = 1
  /\ writing = [p \in Process |-> Idle] /\ orphans = {}

-----------------------------------------------------------------------------
(* The INSERT of addTriple. *)
addTriple(p, row) ==
  /\ writing[p].pc = "idle"
  /\ triples' = Append(triples, row)
  /\ writing' = [writing EXCEPT ![p] =
       IF row.relation \in CRITICAL_RELATIONS
       THEN [pc |-> "inserted", id |-> Len(triples) + 1, rivals |-> {}, asof |-> 0] ELSE Idle]
  /\ UNCHANGED <<day, orphans>>

(* The SELECT of resolveCriticalConflicts: whatever their objects. *)
selectConflicts(p) ==
  LET id == writing[p].id
      rivals == {k \in DOMAIN triples : SameKey(k, id) /\ k # id /\ Active(k)}
  IN  /\ writing[p].pc = "inserted"
      /\ writing' = [writing EXCEPT ![p] =
           IF rivals = {} THEN Idle
           ELSE [pc |-> "settling", id |-> id, rivals |-> rivals, asof |-> day]]
      /\ UNCHANGED <<triples, day, orphans>>

(* Mutant of settleConflict: among equals the new row wins. *)
settleForTheNew(p, k) ==
  LET new == writing[p].id IN
  /\ writing[p].pc = "settling" /\ k \in writing[p].rivals
  /\ triples' = [triples EXCEPT ![IF Rank(new) >= Rank(k) THEN k ELSE new].to = writing[p].asof]
  /\ writing' = [writing EXCEPT ![p] =
       IF @.rivals = {k} THEN Idle
       ELSE [pc |-> "settling", id |-> new, rivals |-> @.rivals \ {k}, asof |-> @.asof]]
  /\ UNCHANGED <<day, orphans>>

(* Mutant of settleConflict: a weaker new row is flagged, not ended. *)
settleWithoutBlocking(p, k) ==
  LET new == writing[p].id IN
  /\ writing[p].pc = "settling" /\ k \in writing[p].rivals
  /\ triples' = IF Rank(new) > Rank(k) THEN [triples EXCEPT ![k].to = writing[p].asof]
                ELSE [triples EXCEPT ![k].pending = TRUE]
  /\ writing' = [writing EXCEPT ![p] =
       IF @.rivals = {k} THEN Idle
       ELSE [pc |-> "settling", id |-> new, rivals |-> @.rivals \ {k}, asof |-> @.asof]]
  /\ UNCHANGED <<day, orphans>>

(* One turn of its loop: the weaker of the two ends, equals are flagged.   *)
settleConflict(p, k) ==
  LET new == writing[p].id IN
  /\ writing[p].pc = "settling" /\ k \in writing[p].rivals
  /\ triples' =
       IF Rank(new) > Rank(k) THEN [triples EXCEPT ![k].to = writing[p].asof]
       ELSE IF Rank(k) > Rank(new) THEN [triples EXCEPT ![new].to = writing[p].asof]
       ELSE [triples EXCEPT ![k].pending = TRUE]
  /\ writing' = [writing EXCEPT ![p] =
       IF @.rivals = {k} THEN Idle
       ELSE [pc |-> "settling", id |-> new, rivals |-> @.rivals \ {k}, asof |-> @.asof]]
  /\ UNCHANGED <<day, orphans>>

die(p) ==
  /\ orphans' = IF writing[p].pc = "idle" THEN orphans ELSE orphans \cup {writing[p].id}
  /\ writing' = [writing EXCEPT ![p] = Idle]
  /\ UNCHANGED <<triples, day>>

tomorrow == day < MaxDay /\ day' = day + 1 /\ UNCHANGED <<triples, writing, orphans>>

Unwritten(row) == row.from <= day /\ row.to = Never /\ ~row.pending

KGNext ==
  \/ \E p \in Process :
       \/ \E row \in Row : Unwritten(row) /\ addTriple(p, row)
       \/ selectConflicts(p) \/ (\E k \in writing[p].rivals : settleConflict(p, k)) \/ die(p)
  \/ tomorrow

-----------------------------------------------------------------------------
(* Queries: ORDER BY valid_from DESC, created_at DESC. *)
(* Mutant of Later: the last of the result, not the first. *)
Earlier(i, j) ==
  triples[i].from < triples[j].from \/ (triples[i].from = triples[j].from /\ i < j)

Later(i, j) ==
  triples[i].from > triples[j].from \/ (triples[i].from = triples[j].from /\ i > j)

Newest(S) == CHOOSE i \in S : \A j \in S \ {i} : Later(i, j)

queryTriples(subject, relation) ==
  {i \in DOMAIN triples :
     triples[i].subject = subject /\ triples[i].relation = relation /\ Active(i)}
queryEntity(object, relation) ==
  {i \in DOMAIN triples :
     triples[i].object = object /\ triples[i].relation = relation /\ Active(i)}

(* The row of the newest playbook, 0 if there is none. *)
queryPlaybook(t) ==
  LET rows == UNION {queryEntity(u, "has_playbook") : u \in Extends[t]}
  IN  IF rows = {} THEN 0 ELSE Newest(rows)

(* Mutant of hasActiveLockdown: a lockdown of no task type matches none. *)
hasOwnLockdown(t) ==
  \E i \in queryEntity("reason", "triggered_by") : triples[i].task = t

hasActiveLockdown(t) ==
  \E i \in queryEntity("reason", "triggered_by") : triples[i].task \in {t, NoTask}

-----------------------------------------------------------------------------

KGTypeOK ==
  /\ triples \in Seq(Row) /\ day \in 1 .. MaxDay /\ orphans \subseteq DOMAIN triples
  /\ writing \in [Process -> [pc : {"idle", "inserted", "settling"}, id : Nat,
                              rivals : SUBSET Nat, asof : 0 .. MaxDay]]

(* resolveCriticalConflicts ends a row only for a stronger one (kg/index.ts *)
(* :102-153): whatever writers insert, settle and die at the same time,     *)
(* each critical row has one of its key that stands and is no weaker.       *)
StrongestStands ==
  \A i \in DOMAIN triples : Critical(i) =>
    \E j \in DOMAIN triples : SameKey(i, j) /\ Rank(j) >= Rank(i) /\ Standing(j)

(* What is left of a conflict once the younger row's writer has settled it *)
(* (a writer that died never will).                                        *)
Unsettled(i, j) ==
  \/ j \in orphans
  \/ \E p \in Process :
       /\ writing[p].id = j
       /\ writing[p].pc = "inserted" \/ i \in writing[p].rivals
Contradict(i, j) ==
  /\ Critical(i) /\ SameKey(i, j) /\ triples[i].object # triples[j].object
  /\ Standing(i) /\ Standing(j)

(* The first and the third rule for critical rows (KNOWLEDGE_GRAPH.md:171, *)
(* :173): of two that contradict one another and are settled neither is    *)
(* weaker, and of the same date the older one is flagged for review.       *)
NoContradictionStands ==
  \A j \in DOMAIN triples : \A i \in 1 .. (j - 1) :
    Contradict(i, j) =>
      \/ Unsettled(i, j)
      \/ /\ Rank(i) = Rank(j)
         /\ triples[i].from = triples[j].from => triples[i].pending
=============================================================================
