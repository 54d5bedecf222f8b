---------------------------- MODULE BeadRecords ----------------------------
(***************************************************************************)
(* The ledger as the Mayor reads it: for each bead the records appendBead  *)
(* wrote for it, oldest first (src/ledger/index.ts).  The runtime reads    *)
(* the last record; the Mayor's guards filter over all of them.            *)
(***************************************************************************)
EXTENDS Sequences, Naturals

CONSTANT Bead     \* bead ids
VARIABLE ledger   \* ledger[b]: the records of b

Status  == {"pending", "in_progress", "blocked", "done", "failed"}
Outcome == {"none", "SUCCESS", "FAILURE"}
Record  == [status : Status, outcome : Outcome]

Written(records, b, s, o) ==
  [records EXCEPT ![b] = Append(@, [status |-> s, outcome |-> o])]

Latest(history) == history[Len(history)]

Some(history, P(_)) == \E i \in DOMAIN history : P(history[i])

IsDone(r)   == r.status = "done" \/ r.outcome = "SUCCESS"
IsFailed(r) == r.status = "failed" \/ r.outcome = "FAILURE"
IsOpen(r)   == r.status \in {"pending", "in_progress"}
IsRunning(r) == r.status = "in_progress"

LatestIs(history, P(_)) == history # <<>> /\ P(Latest(history))
=============================================================================
