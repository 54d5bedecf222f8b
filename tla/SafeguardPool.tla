---------------------------- MODULE SafeguardPool ----------------------------
(***************************************************************************)
(* SafeguardPool (src/roles/safeguard.ts): the runtime's scans of beads    *)
(* and the polecats' scans of results share the workers.  A step is what   *)
(* runs when scan is called or when a worker's promise settles.            *)
(***************************************************************************)
EXTENDS Naturals, Sequences, SequencesExt

CONSTANTS Scan,
          Worker, NoWorker,
          Flaky,      \* the workers whose scan may throw
          Priorities  \* 0, and 10 for the result of a critical bead

ASSUME PoolAssumption ==
  IsFiniteSet(Worker) /\ Cardinality(Worker) >= 2 /\ NoWorker \notin Worker
  /\ Flaky \subseteq Worker /\ Priorities \subseteq Nat

VARIABLES availableWorkers, queue,
          scan,   \* the entry of each scan
          calls   \* how many scans were called

vars == <<availableWorkers, queue, scan, calls>>

Init ==
  /\ availableWorkers \in SetToSeqs(Worker)
  /\ queue = <<>> /\ calls = 0
  /\ scan = [s \in Scan |-> [pc |-> "idle", priority |-> 0, failCount |-> 0,
                             worker |-> NoWorker, call |-> 0]]

-----------------------------------------------------------------------------

Run(entry, w) == [entry EXCEPT !.pc = "scanning", !.worker = w]

Settled(entry, pc) == [entry EXCEPT !.pc = pc, !.worker = NoWorker]

(* Mutant of dispatch: entries wait for two free workers. *)
dispatchLate(w, q, entries) ==
  LET n == IF Len(w) < 2 THEN 0 ELSE IF Len(w) < Len(q) THEN Len(w) ELSE Len(q) IN
  /\ availableWorkers' = SubSeq(w, n + 1, Len(w))
  /\ queue' = SubSeq(q, n + 1, Len(q))
  /\ scan' = [s \in Scan |->
       IF \E i \in 1..n : q[i] = s
       THEN Run(entries[s], w[CHOOSE i \in 1..n : q[i] = s]) ELSE entries[s]]

(* The free workers w take the first entries of q, as long as both last.   *)
dispatch(w, q, entries) ==
  LET n == IF Len(w) < Len(q) THEN Len(w) ELSE Len(q) IN
  /\ availableWorkers' = SubSeq(w, n + 1, Len(w))
  /\ queue' = SubSeq(q, n + 1, Len(q))
  /\ scan' = [s \in Scan |->
       IF \E i \in 1..n : q[i] = s
       THEN Run(entries[s], w[CHOOSE i \in 1..n : q[i] = s]) ELSE entries[s]]

(* Mutant of Place: before its equals. *)
PlaceFirst(priority) ==
  1 + Cardinality({i \in DOMAIN queue : scan[queue[i]].priority > priority})

(* Where an entry of this priority goes: after its equals. *)
Place(priority) ==
  1 + Cardinality({i \in DOMAIN queue : scan[queue[i]].priority >= priority})

enqueueAndDispatch(s, priority) ==
  /\ scan[s].pc = "idle"
  /\ calls' = calls + 1
  /\ dispatch(availableWorkers, InsertAt(queue, Place(priority), s),
              [scan EXCEPT ![s] = [@ EXCEPT !.pc = "queued", !.priority = priority,
                                            !.call = calls + 1]])

(* runEntry, when the worker has scanned. *)
Scanned(s) ==
  /\ scan[s].pc = "scanning"
  /\ dispatch(Append(availableWorkers, scan[s].worker), queue,
              [scan EXCEPT ![s] = Settled(@, "scanned")])
  /\ UNCHANGED calls

(* Mutant of Failed: the retry takes a worker that another scan may have.  *)
FailedAndKept(s) ==
  LET free == Append(availableWorkers, scan[s].worker)
      entry == [scan[s] EXCEPT !.failCount = @ + 1]
  IN  /\ scan[s].pc = "scanning" /\ scan[s].worker \in Flaky
      /\ IF entry.failCount >= Cardinality(Worker)
         THEN dispatch(free, queue, [scan EXCEPT ![s] = Settled(entry, "rejected")])
         ELSE dispatch(free, queue, [scan EXCEPT ![s] = Run(entry, Head(free))])
      /\ UNCHANGED calls

(* Mutant of Failed: failures are not counted. *)
FailedUncounted(s) ==
  LET free == Append(availableWorkers, scan[s].worker) IN
  /\ scan[s].pc = "scanning" /\ scan[s].worker \in Flaky
  /\ dispatch(Tail(free), queue, [scan EXCEPT ![s] = Run(@, Head(free))])
  /\ UNCHANGED calls

(* When it has thrown: it is free again, so a worker is there for a retry, *)
(* and the branch that would requeue the entry is never taken.             *)
Failed(s) ==
  LET free == Append(availableWorkers, scan[s].worker)
      entry == [scan[s] EXCEPT !.failCount = @ + 1]
  IN  /\ scan[s].pc = "scanning" /\ scan[s].worker \in Flaky
      /\ IF entry.failCount >= Cardinality(Worker)
         THEN dispatch(free, queue, [scan EXCEPT ![s] = Settled(entry, "rejected")])
         ELSE dispatch(Tail(free), queue, [scan EXCEPT ![s] = Run(entry, Head(free))])
      /\ UNCHANGED calls

Next ==
  \E s \in Scan : (\E p \in Priorities : enqueueAndDispatch(s, p)) \/ Scanned(s) \/ Failed(s)

Spec == Init /\ [][Next]_vars

(* A worker's scan ends: its API call answers or times out. *)
Fairness == \A s \in Scan : WF_vars(Scanned(s) \/ Failed(s))
FairSpec == Spec /\ Fairness

-----------------------------------------------------------------------------

Scanning == {s \in Scan : scan[s].pc = "scanning"}
Queued == {s \in Scan : scan[s].pc = "queued"}

TypeOK ==
  /\ availableWorkers \in Seq(Worker) /\ queue \in Seq(Scan) /\ calls \in Nat
  /\ scan \in [Scan -> [pc : {"idle", "queued", "scanning", "scanned", "rejected"},
                        priority : Priorities \cup {0}, failCount : 0 .. Cardinality(Worker),
                        worker : Worker \cup {NoWorker}, call : Nat]]

(* No failure, retry or rejection loses a worker or shares it: each is     *)
(* free, once, or runs one scan.                                           *)
WorkersConserved ==
  /\ IsInjective(availableWorkers)
  /\ \A s, t \in Scanning : scan[s].worker = scan[t].worker => s = t
  /\ ToSet(availableWorkers) = Worker \ {scan[s].worker : s \in Scanning}

(* No scan waits while a worker is free, and exactly those that wait are   *)
(* in the queue.                                                           *)
NoneWaitsInVain ==
  /\ availableWorkers = <<>> \/ queue = <<>>
  /\ IsInjective(queue) /\ ToSet(queue) = Queued

(* Scans leave the queue by priority, and among equals in the order of the *)
(* calls.                                                                  *)
Precedes(s, t) ==
  \/ scan[s].priority > scan[t].priority
  \/ scan[s].priority = scan[t].priority /\ scan[s].call < scan[t].call
LeaveInOrder ==
  [][\A s, t \in Queued : scan'[s].pc # "queued" /\ scan'[t].pc = "queued" => Precedes(s, t)]_vars

(* Every scan is answered, whatever fails and however many urgent ones     *)
(* come.                                                                   *)
ScansSettle ==
  \A s \in Scan : scan[s].pc \in {"queued", "scanning"} ~> scan[s].pc \in {"scanned", "rejected"}
=============================================================================
