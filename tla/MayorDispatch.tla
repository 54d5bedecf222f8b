---------------------------- MODULE MayorDispatch ----------------------------
(***************************************************************************)
(* Mayor.dispatchBead and Mayor.drainOutageQueue (src/roles/mayor.ts): the *)
(* guards a bead passes before its convoy is sent, and the queue that      *)
(* holds it during an outage of the provider.  Calls interleave at their   *)
(* awaits: the ledger append of a blocked bead and the signing of a        *)
(* convoy.  Sequence numbers come from ConvoyBus.getNextSeq when the call  *)
(* is made and are checked by ConvoyBus.send.                              *)
(***************************************************************************)
EXTENDS BeadRecords, FiniteSets, SequencesExt

CONSTANTS Needs,         \* the plan: Needs[b] is bead.needs
          Caller,        \* callers of dispatchBead
          MaxCalls,      \* bound: MaxCalls[b] calls of dispatchBead for b
          MaxRestarts,   \* bound: restarts of the Mayor
          MaxUnsent      \* bound: the largest number used up by an unwritten convoy

\* drainOutageQueue calls dispatchBead too, one bead after the other.
Drain == "drainOutageQueue"
Proc  == Caller \cup {Drain}

ASSUME PlanAssumption ==
  /\ Bead # {} /\ Needs \in [Bead -> SUBSET Bead] /\ \A b \in Bead : IsFiniteSet(Needs[b])
  /\ Drain \notin Caller /\ MaxRestarts \in Nat

VARIABLES
  outageActive, outageQueue,
  pc,            \* pc[p]: what the call of p awaits, "idle" without a call
  bead, seq,     \* arguments of the call of p
  batch,         \* the queue drainOutageQueue took over
  next,          \* index of the next bead of batch, 0 when no drain runs
  nextSeq,       \* the sequence number drainOutageQueue passes next
  counted,       \* what drainOutageQueue has counted as dispatched
  lastSeq,       \* ConvoyBus: last sequence number sent by the Mayor
  sent,          \* the convoys sent, in order
  inbox,         \* indices of sent still in the polecat mailbox
  accepted,      \* beads a call returned normally for, in this process
  calls, restarts

mayorVars == <<outageActive, outageQueue, batch, next, nextSeq, counted, accepted>>
callVars  == <<pc, bead, seq>>
busVars   == <<lastSeq, sent, inbox>>
vars == <<ledger, mayorVars, callVars, busVars, calls, restarts>>

Init ==
  /\ ledger = [b \in Bead |-> <<[status |-> "pending", outcome |-> "none"]>>]
  /\ outageActive = FALSE /\ outageQueue = <<>>
  /\ pc = [p \in Proc |-> "idle"]
  /\ bead = [p \in Proc |-> CHOOSE b \in Bead : TRUE]
  /\ seq = [p \in Proc |-> 0]
  /\ batch = <<>> /\ next = 0 /\ nextSeq = 0 /\ counted = 0
  /\ lastSeq = 0 /\ sent = <<>> /\ inbox = {}
  /\ accepted = {}
  /\ calls = [b \in Bead |-> 0] /\ restarts = 0

-----------------------------------------------------------------------------
(* The guards. *)

(* Mutant of isRendezvousNode: two prerequisites are not enough. *)
isLargeRendezvousNode(b) == Cardinality(Needs[b]) > 2
isRendezvousNode(b) == Cardinality(Needs[b]) > 1

completed(b) == Some(ledger[b], IsDone)
unmetPrereqs(b) == {n \in Needs[b] : ~completed(n)}
failedDeps(b)   == {n \in Needs[b] : Some(ledger[n], IsFailed)}

-----------------------------------------------------------------------------
(* How a call of dispatchBead ends. *)

(* drainOutageQueue counts a call that returns. *)
Returns(p) ==
  /\ pc' = [pc EXCEPT ![p] = "idle"]
  /\ accepted' = accepted \cup {bead[p]}
  /\ counted' = IF p = Drain THEN counted + 1 ELSE counted
  /\ UNCHANGED <<batch, next, nextSeq>>

(* Mutant of Throws: the bead whose dispatch failed is not queued again. *)
ThrowsAway(p) ==
  /\ pc' = [pc EXCEPT ![p] = "idle"]
  /\ UNCHANGED <<outageQueue, batch, next, nextSeq, counted, accepted>>

(* A caller sees the error; drainOutageQueue queues the bead again. *)
Throws(p) ==
  /\ pc' = [pc EXCEPT ![p] = "idle"]
  /\ outageQueue' = IF p = Drain THEN Append(outageQueue, bead[p]) ELSE outageQueue
  /\ UNCHANGED <<batch, next, nextSeq, counted, accepted>>

(* dispatchBead up to its first await, with the outage state it finds. *)
Guards(p, b, active, queue) ==
  \/ /\ (isRendezvousNode(b) /\ unmetPrereqs(b) # {}) \/ failedDeps(b) # {}
     /\ pc' = [pc EXCEPT ![p] = "blocking"]
     /\ outageQueue' = queue
     /\ UNCHANGED accepted
  \/ /\ isRendezvousNode(b) => unmetPrereqs(b) = {}
     /\ failedDeps(b) = {}
     /\ IF active
        THEN /\ outageQueue' = Append(queue, b)
             /\ accepted' = accepted \cup {b}
             /\ UNCHANGED pc
        ELSE /\ pc' = [pc EXCEPT ![p] = "signing"]
             /\ outageQueue' = queue
             /\ UNCHANGED accepted

dispatchBead(c, b) ==
  /\ pc[c] = "idle"
  /\ calls[b] < MaxCalls[b]
  /\ calls' = [calls EXCEPT ![b] = @ + 1]
  /\ bead' = [bead EXCEPT ![c] = b]
  /\ seq' = [seq EXCEPT ![c] = lastSeq + 1]
  /\ Guards(c, b, outageActive, outageQueue)
  /\ UNCHANGED <<ledger, outageActive, batch, next, nextSeq, counted, busVars, restarts>>

(* The blocked record is on disk; the call returns. *)
Blocked(p) ==
  /\ pc[p] = "blocking"
  /\ ledger' = Written(ledger, bead[p], "blocked", "none")
  /\ Returns(p)
  /\ UNCHANGED <<outageActive, outageQueue, bead, seq, busVars, calls, restarts>>

LockTimeout(p) ==
  /\ pc[p] = "blocking"
  /\ Throws(p)
  /\ UNCHANGED <<ledger, outageActive, bead, seq, busVars, calls, restarts>>

(* The convoy is signed; send runs to its end. *)
Send(p) ==
  /\ pc[p] = "signing" /\ seq[p] > lastSeq
  /\ lastSeq' = seq[p]
  /\ sent' = Append(sent, [bead |-> bead[p], by |-> p])
  /\ inbox' = inbox \cup {Len(sent')}
  /\ Returns(p)
  /\ UNCHANGED <<ledger, outageActive, outageQueue, bead, seq, calls, restarts>>

(* send throws: "Replay attack detected", or the number is taken and the   *)
(* mailbox cannot be written.                                              *)
SendThrows(p) ==
  /\ pc[p] = "signing"
  /\ \/ seq[p] <= lastSeq /\ UNCHANGED lastSeq
     \/ seq[p] \in lastSeq + 1 .. MaxUnsent /\ lastSeq' = seq[p]
  /\ Throws(p)
  /\ UNCHANGED <<ledger, outageActive, bead, seq, sent, inbox, calls, restarts>>

-----------------------------------------------------------------------------
(* Outage and drain. *)

setOutageActive(active) ==
  /\ outageActive # active
  /\ outageActive' = active
  /\ UNCHANGED <<ledger, outageQueue, batch, next, nextSeq, counted, accepted,
                 callVars, busVars, calls, restarts>>

(* The drain dispatches bead i of queue q; a bead that goes back into the *)
(* queue because the outage returned counts as dispatched.                *)
DrainOne(q, i, n, active, queue, count) ==
  /\ bead' = [bead EXCEPT ![Drain] = q[i]]
  /\ seq' = [seq EXCEPT ![Drain] = n]
  /\ batch' = q /\ next' = i + 1 /\ nextSeq' = n + 1
  /\ Guards(Drain, q[i], active, queue)
  /\ counted' = IF pc'[Drain] = "idle" THEN count + 1 ELSE count
  /\ UNCHANGED <<ledger, busVars, calls, restarts>>

(* Mutant of drainOutageQueue: the queue is copied and not emptied. *)
drainKeepsQueue ==
  /\ next = 0 /\ outageQueue # <<>>
  /\ outageActive' = FALSE
  /\ DrainOne(outageQueue, 1, lastSeq + 1, FALSE, outageQueue, 0)

(* One drain at a time; its caller passes a fresh sequence number. *)
drainOutageQueue ==
  /\ next = 0 /\ outageQueue # <<>>
  /\ outageActive' = FALSE
  /\ DrainOne(outageQueue, 1, lastSeq + 1, FALSE, <<>>, 0)

DrainNext ==
  /\ next \in DOMAIN batch /\ pc[Drain] = "idle"
  /\ DrainOne(batch, next, nextSeq, outageActive, outageQueue, counted)
  /\ UNCHANGED outageActive

(* The drain returns counted. *)
DrainReturns ==
  /\ next > Len(batch) /\ pc[Drain] = "idle"
  /\ next' = 0 /\ batch' = <<>>
  /\ UNCHANGED <<ledger, outageActive, outageQueue, nextSeq, counted, accepted,
                 callVars, busVars, calls, restarts>>

(* The queue and every call in progress are in memory only. *)
Restart ==
  /\ restarts < MaxRestarts
  /\ restarts' = restarts + 1
  /\ outageActive' = FALSE /\ outageQueue' = <<>>
  /\ pc' = [p \in Proc |-> "idle"]
  /\ batch' = <<>> /\ next' = 0
  /\ accepted' = {}
  /\ UNCHANGED <<ledger, nextSeq, counted, bead, seq, busVars, calls>>

-----------------------------------------------------------------------------
(* The runtime takes a convoy up once the needs of its bead have succeeded *)
(* (the needs gate of WorkerRuntime) and reports.                          *)

Work(i) ==
  /\ i \in inbox
  /\ LET b == sent[i].bead IN
       /\ \A n \in Needs[b] : LatestIs(ledger[n], IsDone)
       /\ ledger' = Written(ledger, b, "in_progress", "none")
  /\ inbox' = inbox \ {i}
  /\ UNCHANGED <<mayorVars, callVars, lastSeq, sent, calls, restarts>>

Report(b) ==
  /\ LatestIs(ledger[b], IsRunning)
  /\ ledger' \in {Written(ledger, b, "done", "SUCCESS"),
                  Written(ledger, b, "failed", "FAILURE")}
  /\ UNCHANGED <<mayorVars, callVars, busVars, calls, restarts>>

Next ==
  \/ \E c \in Caller, b \in Bead : dispatchBead(c, b)
  \/ \E p \in Proc : Blocked(p) \/ LockTimeout(p) \/ Send(p) \/ SendThrows(p)
  \/ \E active \in BOOLEAN : setOutageActive(active)
  \/ drainOutageQueue \/ DrainNext \/ DrainReturns \/ Restart
  \/ \E i \in inbox : Work(i)
  \/ \E b \in Bead : Report(b)

Spec == Init /\ [][Next]_vars

-----------------------------------------------------------------------------

TypeOK ==
  /\ ledger \in [Bead -> Seq(Record)]
  /\ outageActive \in BOOLEAN
  /\ outageQueue \in Seq(Bead) /\ batch \in Seq(Bead)
  /\ pc \in [Proc -> {"idle", "blocking", "signing"}]
  /\ bead \in [Proc -> Bead] /\ seq \in [Proc -> Nat]
  /\ next \in 0 .. Len(batch) + 1
  /\ pc[Drain] # "idle" => next > 1 /\ bead[Drain] = batch[next - 1]
  /\ nextSeq \in Nat /\ counted \in Nat /\ lastSeq \in Nat
  /\ sent \in Seq([bead : Bead, by : Proc])
  /\ inbox \subseteq DOMAIN sent
  /\ accepted \subseteq Bead
  /\ calls \in [Bead -> Nat] /\ restarts \in 0..MaxRestarts

(* SWARM.md, rendezvous: the convoy of a bead with several prerequisites   *)
(* is sent only after all of them were done once, also when the bead waits *)
(* in the outage queue or for its signature in between.                    *)
RendezvousWaits ==
  \A i \in DOMAIN sent :
    Cardinality(Needs[sent[i].bead]) >= 2 =>
      \A n \in Needs[sent[i].bead] : completed(n)

(* A bead a call returned for is sent, recorded as blocked, or still in    *)
(* the hands of this Mayor: refused sends, lock timeouts and an outage     *)
(* that returns in the middle of a drain lose none.                        *)
Held(b) ==
  \/ \E i \in DOMAIN sent : sent[i].bead = b
  \/ Some(ledger[b], LAMBDA r : r.status = "blocked")
  \/ b \in Range(outageQueue)
  \/ \E i \in DOMAIN batch : i >= next /\ batch[i] = b
  \/ \E p \in Proc : pc[p] # "idle" /\ bead[p] = b

AcceptedIsHeld == \A b \in accepted : Held(b)

(* Every call puts at most one convoy into a mailbox: queueing a bead      *)
(* again after a failed drain never duplicates it.                         *)
SentOncePerCall ==
  \A b \in Bead : Cardinality({i \in DOMAIN sent : sent[i].bead = b}) <= calls[b]
=============================================================================
