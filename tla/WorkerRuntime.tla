---------------------------- MODULE WorkerRuntime ----------------------------
(***************************************************************************)
(* The worker runtime of NOS Town (src/runtime/worker-loop.ts) with the    *)
(* mailboxes it drains (src/convoys/bus.ts), the polecats it runs          *)
(* (src/roles/polecat.ts) and the ledger they share (src/ledger/index.ts). *)
(*                                                                         *)
(* JavaScript runs to the next await without interruption, so an action is *)
(* the code between two awaits.  start() fires processOnce from a timer    *)
(* without waiting for the previous one: poll cycles overlap, and each is  *)
(* a process here.  So is each polecat slot.                               *)
(***************************************************************************)
EXTENDS Convoys, Naturals, Sequences, FiniteSets

CONSTANTS Bead,             \* beads of the plan
          NoBead,           \* not a bead
          Recordings,       \* which of them may have a readable ledger line
          Needs,            \* Needs[b]: bead.needs
          Task,             \* Task[b]: bead.task_description
          WitnessRequired,  \* beads with witness_required
          Polecat,          \* polecat slots
          Cycle,            \* processOnce calls that can be in progress at once
          MaxInflight,      \* maxInflightBeads
          Budgets           \* how often each event of the environment may happen:
                            \* a behaviour stays within one of them

Event == {"dispatch", "drain", "restart", "stall", "deadlock", "violation",
          "locktimeout", "sendfail", "unheard", "scanfail", "slowscan", "overlap"}

ASSUME PlanAssumption ==
  /\ Recordings \subseteq SUBSET Bead
  /\ Needs \in [Bead -> SUBSET Bead]
  /\ WitnessRequired \subseteq Bead
  /\ NoBead \notin Bead

ASSUME SizeAssumption ==
  /\ IsFiniteSet(Polecat)
  /\ MaxInflight \in Nat

VARIABLES
  inbox,       \* convoy files in the mailboxes
  quarantine,  \* convoy files moved to the quarantine directory
  sent,        \* number of convoys written so far: names the files
  dispatched,  \* dispatched[b]: BEAD_DISPATCH convoys the Mayor sent for b
  ledger,      \* ledger[b]: the records of b, oldest first
  lateFail,    \* lateFail[b]: failure records waiting for the ledger lock
               \* that no poll cycle or slot waits for
  pollPc,      \* what a poll cycle awaits
  pollRole,    \* whose mailbox it drains
  pollTodo,    \* the files of its listing it has not looked at yet
  pollFile,    \* the convoy in hand
  slotPc,      \* what the execution in a polecat slot awaits
  slotBead,    \* the bead it executes, NoBead when it is free
  background,  \* background[b]: scans of b still running after their window
  drain,       \* progress of drain()
  stallCounts, \* the runtime's stall counter per bead
  spent        \* how often each event happened

busVars  == <<inbox, quarantine, sent>>
logVars  == <<ledger, lateFail>>
pollVars == <<pollPc, pollRole, pollTodo, pollFile>>
slotVars == <<slotPc, slotBead>>
vars == <<busVars, dispatched, logVars, pollVars, slotVars, background, drain,
          stallCounts, spent>>

-----------------------------------------------------------------------------
(* The ledger. *)

Status  == {"pending", "in_progress", "blocked", "done", "failed"}
Outcome == {"none", "SUCCESS", "FAILURE"}
Record  == [status : Status, outcome : Outcome]

appendBead(b, status, outcome) ==
  ledger' = [ledger EXCEPT ![b] = Append(@, [status |-> status, outcome |-> outcome])]

Known(b)   == ledger[b] # <<>>
getBead(b) == ledger[b][Len(ledger[b])]

Succeeding(b) == Known(b) /\ getBead(b).outcome = "SUCCESS"

Failing(b) ==
  Known(b) /\ (getBead(b).outcome = "FAILURE" \/ getBead(b).status = "failed")

(* A record of b reports a success, even if a later one does not. *)
HasSucceeded(b) == \E i \in DOMAIN ledger[b] : ledger[b][i].outcome = "SUCCESS"

(* Mutants of findCachedBead: the needs, or the outcome, are not compared. *)
findCachedTask(b) == {o \in Bead \ {b} : Succeeding(o) /\ Task[o] = Task[b]}
findCachedUnfinished(b) ==
  {o \in Bead \ {b} : Known(o) /\ Task[o] = Task[b] /\ Needs[o] = Needs[b]}

(* Another bead with the same task and needs whose latest record succeeded. *)
findCachedBead(b) ==
  {o \in Bead \ {b} : Succeeding(o) /\ Task[o] = Task[b] /\ Needs[o] = Needs[b]}

-----------------------------------------------------------------------------
(* Mailboxes. *)

Mailbox == <<"polecat", "mayor", "witness">>   \* the order processOnce drains them

Convoy == [id : Nat, to : {"polecat", "mayor", "witness"}, sender : Sender,
           type : ConvoyType, bead : Bead, signed : BOOLEAN]

NoConvoy == [id |-> 0]

Files(role) == {f \in inbox : f.to = role}

Signed(to, sender, type, b) ==
  [id |-> sent + 1, to |-> to, sender |-> sender, type |-> type, bead |-> b,
   signed |-> TRUE]

(* What the runtime sends to itself and to the other roles. *)
Internal(n, to, type, b) ==
  [id |-> n, to |-> to, sender |-> "runtime", type |-> type, bead |-> b,
   signed |-> FALSE]

(* send one internal convoy while the mailboxes hold files *)
SendInternal(files, to, type, b) ==
  /\ inbox' = files \cup {Internal(sent + 1, to, type, b)}
  /\ sent' = sent + 1

Spend(event) ==
  /\ spent' = [spent EXCEPT ![event] = @ + 1]
  /\ \E budget \in Budgets : \A e \in Event : spent'[e] <= budget[e]

-----------------------------------------------------------------------------
(* Life cycle. *)

Paused  == drain # "off"                     \* dispatchPaused
Running == drain \in {"off", "waiting"}      \* the poll timer is set
Busy    == {p \in Polecat : slotPc[p] # "idle"}

Init ==
  /\ inbox = {} /\ quarantine = {} /\ sent = 0
  /\ dispatched = [b \in Bead |-> 0]
  /\ \E recorded \in Recordings :
       ledger = [b \in Bead |-> IF b \in recorded
                                THEN <<[status |-> "pending", outcome |-> "none"]>>
                                ELSE <<>>]
  /\ lateFail = [b \in Bead |-> 0]
  /\ pollPc = [c \in Cycle |-> "idle"]
  /\ pollRole = [c \in Cycle |-> "polecat"]
  /\ pollTodo = [c \in Cycle |-> {}]
  /\ pollFile = [c \in Cycle |-> NoConvoy]
  /\ slotPc = [p \in Polecat |-> "idle"]
  /\ slotBead = [p \in Polecat |-> NoBead]
  /\ background = [b \in Bead |-> 0]
  /\ drain = "off"
  /\ stallCounts = [b \in Bead |-> 0]
  /\ spent = [e \in Event |-> 0]

(* The Mayor sends a signed BEAD_DISPATCH with a checkpoint. *)
Dispatch(b) ==
  /\ Spend("dispatch")
  /\ inbox' = inbox \cup {Signed("polecat", "mayor", "BEAD_DISPATCH", b)}
  /\ sent' = sent + 1
  /\ dispatched' = [dispatched EXCEPT ![b] = @ + 1]
  /\ UNCHANGED <<quarantine, logVars, pollVars, slotVars, background, drain,
                 stallCounts>>

(* A safeguard reports a violation of b to the Mayor's mailbox. *)
ReportViolation(b) ==
  /\ Spend("violation")
  /\ inbox' = inbox \cup {Signed("mayor", "safeguard", "SECURITY_VIOLATION", b)}
  /\ sent' = sent + 1
  /\ UNCHANGED <<quarantine, dispatched, logVars, pollVars, slotVars, background,
                 drain, stallCounts>>

DrainBegins ==
  /\ drain = "off"
  /\ Spend("drain")
  /\ drain' = "waiting"
  /\ UNCHANGED <<busVars, dispatched, logVars, pollVars, slotVars, background,
                 stallCounts>>

DrainEnds ==
  /\ drain = "waiting"
  /\ drain' = IF Busy = {} THEN "settled" ELSE "timedout"
  /\ UNCHANGED <<busVars, dispatched, logVars, pollVars, slotVars, background,
                 stallCounts, spent>>

(* The process dies, or exits after a drain, and is started again: files *)
(* survive, everything in memory is lost.                                *)
Restart ==
  /\ Spend("restart")
  /\ pollPc' = [c \in Cycle |-> "idle"]
  /\ pollTodo' = [c \in Cycle |-> {}]
  /\ pollFile' = [c \in Cycle |-> NoConvoy]
  /\ pollRole' = [c \in Cycle |-> "polecat"]
  /\ slotPc' = [p \in Polecat |-> "idle"]
  /\ slotBead' = [p \in Polecat |-> NoBead]
  /\ lateFail' = [b \in Bead |-> 0]
  /\ background' = [b \in Bead |-> 0]
  /\ stallCounts' = [b \in Bead |-> 0]
  /\ drain' = "off"
  /\ UNCHANGED <<busVars, dispatched, ledger>>

-----------------------------------------------------------------------------
(* Poll cycles: processOnce and, for each mailbox, processInbox.  A listing *)
(* is worked off in any order; ConvoyBus models the order of priorities.    *)

Advance(c, pc) == pollPc' = [pollPc EXCEPT ![c] = pc]

(* The convoy in hand leaves or stays, and the cycle takes the next one. *)
PutDown(c) ==
  /\ Advance(c, "draining")
  /\ pollFile' = [pollFile EXCEPT ![c] = NoConvoy]
  /\ UNCHANGED <<pollRole, pollTodo>>

(* Mutant of Others: the file is not unlinked. *)
OthersAndThis(c) == inbox

Others(c) == inbox \ {pollFile[c]}

(* The handler returns and the file is unlinked. *)
HandlerReturns(c) ==
  /\ PutDown(c)
  /\ inbox' = Others(c)
  /\ UNCHANGED <<quarantine, sent>>

(* The handler returns after it sent one convoy of the runtime's own. *)
HandlerSends(c, to, type, b) ==
  /\ PutDown(c)
  /\ SendInternal(Others(c), to, type, b)
  /\ UNCHANGED quarantine

(* The handler throws: the file stays for the next cycle. *)
HandlerThrows(c) == PutDown(c) /\ UNCHANGED busVars

Quarantine(f) ==
  /\ inbox' = inbox \ {f}
  /\ quarantine' = quarantine \cup (inbox \cap {f})
  /\ UNCHANGED sent

notPolled == <<dispatched, slotVars, background, drain, stallCounts>>

StartPoll(c) ==
  /\ Running
  /\ pollPc[c] = "idle"
  /\ Advance(c, "draining")
  /\ pollTodo' = [pollTodo EXCEPT ![c] = Files("polecat")]
  /\ IF \A d \in Cycle : pollPc[d] = "idle" THEN UNCHANGED spent ELSE Spend("overlap")
  /\ UNCHANGED <<pollRole, pollFile, busVars, logVars, notPolled>>

(* The listing is worked off: processOnce lists the next mailbox. *)
NextMailbox(c) ==
  /\ pollPc[c] = "draining" /\ pollTodo[c] = {}
  /\ \/ \E i \in 1..2 :
          /\ pollRole[c] = Mailbox[i]
          /\ pollRole' = [pollRole EXCEPT ![c] = Mailbox[i + 1]]
          /\ pollTodo' = [pollTodo EXCEPT ![c] = Files(Mailbox[i + 1])]
          /\ UNCHANGED pollPc
     \/ /\ pollRole[c] = "witness"
        /\ Advance(c, "idle")
        /\ pollRole' = [pollRole EXCEPT ![c] = "polecat"]
        /\ UNCHANGED pollTodo
  /\ UNCHANGED <<pollFile, busVars, logVars, spent, notPolled>>

(* A file another cycle removed cannot be read, nor moved to quarantine. *)
ReadConvoy(c, f) ==
  /\ pollPc[c] = "draining" /\ f \in pollTodo[c]
  /\ pollTodo' = [pollTodo EXCEPT ![c] = @ \ {f}]
  /\ IF f \in inbox /\ f.sender \in KeyHolders
     THEN /\ Advance(c, "validating")
          /\ pollFile' = [pollFile EXCEPT ![c] = f]
          /\ UNCHANGED busVars
     ELSE Quarantine(f) /\ UNCHANGED <<pollPc, pollFile>>
  /\ UNCHANGED <<pollRole, logVars, spent, notPolled>>

Reject(c) ==
  /\ pollPc[c] = "validating"
  /\ ~validateConvoy(pollFile[c])
  /\ Quarantine(pollFile[c])
  /\ PutDown(c)
  /\ UNCHANGED <<logVars, spent, notPolled>>

-----------------------------------------------------------------------------
(* handleBeadDispatch, from the validated convoy to the scan. *)

Handling(c, type) ==
  /\ pollPc[c] = "validating"
  /\ validateConvoy(pollFile[c])
  /\ pollFile[c].type = type

DropWhilePaused(c) ==
  /\ Handling(c, "BEAD_DISPATCH")
  /\ Paused
  /\ HandlerReturns(c)
  /\ UNCHANGED <<logVars, spent, notPolled>>

Accepting(c) == Handling(c, "BEAD_DISPATCH") /\ ~Paused

(* Mutant of AtCapacity: the handler returns instead of throwing. *)
AtCapacityDrops(c) ==
  /\ Accepting(c)
  /\ Cardinality(Busy) >= MaxInflight
  /\ HandlerReturns(c)
  /\ UNCHANGED <<logVars, spent, notPolled>>

(* The re-queue has no plan_checkpoint_id, which send refuses. *)
AtCapacity(c) ==
  /\ Accepting(c)
  /\ Cardinality(Busy) >= MaxInflight
  /\ HandlerThrows(c)
  /\ UNCHANGED <<logVars, spent, notPolled>>

(* Mutant of Admitted: off by one. *)
AdmittedOneMore(c) == Accepting(c) /\ Cardinality(Busy) <= MaxInflight

Admitted(c) == Accepting(c) /\ Cardinality(Busy) < MaxInflight

UnknownBead(c) ==
  /\ Admitted(c)
  /\ ~Known(pollFile[c].bead)
  /\ HandlerReturns(c)
  /\ UNCHANGED <<logVars, spent, notPolled>>

Gated(c, b) == Admitted(c) /\ b = pollFile[c].bead /\ Known(b)

(* Mutant of Unmet: a predecessor without a record is no obstacle. *)
UnmetIfKnown(b) == {n \in Needs[b] : Known(n) /\ ~Succeeding(n)}

Unmet(b) == {n \in Needs[b] : ~Succeeding(n)}

PredecessorFailed(c, b) ==
  /\ Gated(c, b)
  /\ \E n \in Unmet(b) : Failing(n)
  /\ Advance(c, "failing")
  /\ UNCHANGED <<pollRole, pollTodo, pollFile, busVars, logVars, spent, notPolled>>

Waiting(c, b) == Gated(c, b) /\ \E n \in Unmet(b) : ~Failing(n)

WaitForPredecessor(c, b) ==
  /\ Waiting(c, b)
  /\ HandlerSends(c, "polecat", "BEAD_DISPATCH", b)
  /\ UNCHANGED <<logVars, spent, notPolled>>

(* The mailbox cannot be written: nothing catches what send throws. *)
WaitUnsent(c, b) ==
  /\ Waiting(c, b)
  /\ Spend("sendfail")
  /\ HandlerThrows(c)
  /\ UNCHANGED <<logVars, notPolled>>

Ready(c, b) == Gated(c, b) /\ Unmet(b) = {}

ReuseCached(c, b) ==
  /\ Ready(c, b)
  /\ findCachedBead(b) # {}
  /\ Advance(c, "caching")
  /\ UNCHANGED <<pollRole, pollTodo, pollFile, busVars, logVars, spent, notPolled>>

(* A bead that itself succeeded may be what the search finds first. *)
StartScan(c, b) ==
  /\ Ready(c, b)
  /\ findCachedBead(b) = {} \/ Succeeding(b)
  /\ Advance(c, "scanning")
  /\ UNCHANGED <<pollRole, pollTodo, pollFile, busVars, logVars, spent, notPolled>>

-----------------------------------------------------------------------------
(* The records a poll cycle writes, and what follows the release of the   *)
(* ledger lock.                                                           *)

Writing == {"failing", "caching", "violating"}

PollAppends(c) ==
  /\ \/ /\ pollPc[c] = "failing"
        /\ appendBead(pollFile[c].bead, "failed", "FAILURE")
        /\ Advance(c, "reporting")
     \/ /\ pollPc[c] = "caching"
        /\ appendBead(pollFile[c].bead, "done", "SUCCESS")
        /\ Advance(c, "closing")
     \/ /\ pollPc[c] = "violating"
        /\ appendBead(pollFile[c].bead, "failed", "FAILURE")
        /\ Advance(c, "closing")
  /\ UNCHANGED <<pollRole, pollTodo, pollFile, busVars, lateFail, spent, notPolled>>

(* 200 attempts to take the lock failed. *)
PollLockTimeout(c) ==
  /\ pollPc[c] \in Writing
  /\ Spend("locktimeout")
  /\ HandlerThrows(c)
  /\ UNCHANGED <<logVars, notPolled>>

ReportBlocked(c) ==
  /\ pollPc[c] = "reporting"
  /\ HandlerSends(c, "mayor", "CONVOY_BLOCKED", pollFile[c].bead)
  /\ UNCHANGED <<logVars, spent, notPolled>>

CloseConvoy(c) ==
  /\ pollPc[c] = "closing"
  /\ HandlerReturns(c)
  /\ UNCHANGED <<logVars, spent, notPolled>>

(* handleMayorInbox: of what the other roles sign, only this one acts. *)
HandleViolation(c) ==
  /\ Handling(c, "SECURITY_VIOLATION")
  /\ IF Known(pollFile[c].bead)
     THEN /\ Advance(c, "violating")
          /\ UNCHANGED <<pollRole, pollTodo, pollFile, busVars>>
     ELSE HandlerReturns(c)
  /\ UNCHANGED <<logVars, spent, notPolled>>

-----------------------------------------------------------------------------
(* handleBeadDispatch, from the end of the scan window. *)

(* Mutant of ScanRejects: nobody is told. *)
ScanRejectsSilently(c) ==
  /\ pollPc[c] = "scanning"
  /\ HandlerReturns(c)
  /\ UNCHANGED <<logVars, spent, notPolled>>

ScanRejects(c) ==
  /\ pollPc[c] = "scanning"
  /\ HandlerSends(c, "mayor", "LOCKDOWN_BROADCAST", pollFile[c].bead)
  /\ UNCHANGED <<logVars, spent, notPolled>>

(* A report to the Mayor cannot be written: the handler swallows what send *)
(* throws, and the convoy is gone.                                         *)
ReportUnheard(c) ==
  /\ pollPc[c] \in {"reporting", "scanning"}
  /\ Spend("unheard")
  /\ HandlerReturns(c)
  /\ UNCHANGED <<logVars, notPolled>>

ScanFails(c) ==
  /\ pollPc[c] = "scanning"
  /\ Spend("scanfail")
  /\ HandlerThrows(c)
  /\ UNCHANGED <<logVars, notPolled>>

(* This re-queue has no plan_checkpoint_id either. *)
NoFreePolecat(c) ==
  /\ pollPc[c] = "scanning"
  /\ Busy = Polecat
  /\ HandlerThrows(c)
  /\ UNCHANGED <<logVars, spent, notPolled>>

(* getPrerequisites leaves out beads the ledger does not know. *)
PrerequisitesMet(b) == \A n \in Needs[b] : Known(n) => Succeeding(n)

(* The slot is claimed and execute runs to its first append.  late: the   *)
(* scan outlasted its window and goes on.                                 *)
ClaimPolecat(c, p, late) ==
  LET b == pollFile[c].bead IN
  /\ pollPc[c] = "scanning"
  /\ p \notin Busy
  /\ slotPc' = [slotPc EXCEPT ![p] = IF PrerequisitesMet(b) THEN "marking" ELSE "blocking"]
  /\ slotBead' = [slotBead EXCEPT ![p] = b]
  /\ background' = [background EXCEPT ![b] = IF late THEN @ + 1 ELSE @]
  /\ IF late THEN Spend("slowscan") ELSE UNCHANGED spent
  /\ HandlerReturns(c)
  /\ UNCHANGED <<dispatched, logVars, drain, stallCounts>>

BackgroundScan(b) ==
  /\ background[b] > 0
  /\ background' = [background EXCEPT ![b] = @ - 1]
  /\ \/ UNCHANGED busVars
     \/ /\ SendInternal(inbox, "mayor", "LOCKDOWN_BROADCAST", b)
        /\ UNCHANGED quarantine
  /\ UNCHANGED <<dispatched, logVars, pollVars, slotVars, drain, stallCounts, spent>>

-----------------------------------------------------------------------------
(* Polecat.execute, and what the runtime does when it settles. *)

notWorked == <<dispatched, pollVars, background, drain, stallCounts>>

SlotMoves(p, pc) == slotPc' = [slotPc EXCEPT ![p] = pc] /\ UNCHANGED slotBead

(* Mutant of SlotAppends: what follows the success record throws, and the *)
(* catch block records a failure.                                         *)
SlotAppendsThenThrows(p) ==
  /\ \/ /\ slotPc[p] = "marking"
        /\ appendBead(slotBead[p], "in_progress", "none")
        /\ SlotMoves(p, "inferring")
     \/ /\ slotPc[p] = "finishing"
        /\ appendBead(slotBead[p], "done", "SUCCESS")
        /\ SlotMoves(p, "failing")
     \/ /\ slotPc[p] = "failing"
        /\ appendBead(slotBead[p], "failed", "FAILURE")
        /\ SlotMoves(p, "failed")
  /\ UNCHANGED <<busVars, lateFail, spent, notWorked>>

SlotAppends(p) ==
  /\ \/ /\ slotPc[p] = "blocking"
        /\ appendBead(slotBead[p], "blocked", "none")
        /\ SlotMoves(p, "blocked")
     \/ /\ slotPc[p] = "marking"
        /\ appendBead(slotBead[p], "in_progress", "none")
        /\ SlotMoves(p, "inferring")
     \/ /\ slotPc[p] = "finishing"
        /\ appendBead(slotBead[p], "done", "SUCCESS")
        /\ SlotMoves(p, "succeeded")
     \/ /\ slotPc[p] = "failing"
        /\ appendBead(slotBead[p], "failed", "FAILURE")
        /\ SlotMoves(p, "failed")
  /\ UNCHANGED <<busVars, lateFail, spent, notWorked>>

(* Inference answers or throws; the safeguard passes, refuses or throws. *)
Infer(p) ==
  /\ slotPc[p] = "inferring"
  /\ SlotMoves(p, "reviewing") \/ SlotMoves(p, "failing")
  /\ UNCHANGED <<busVars, logVars, spent, notWorked>>

ReviewResult(p) ==
  /\ slotPc[p] = "reviewing"
  /\ SlotMoves(p, "finishing") \/ SlotMoves(p, "failing")
  /\ UNCHANGED <<busVars, logVars, spent, notWorked>>

FreeSlot(p) ==
  /\ slotPc' = [slotPc EXCEPT ![p] = "idle"]
  /\ slotBead' = [slotBead EXCEPT ![p] = NoBead]

(* Mutant of Settle: a slot is freed only when the outcome is no failure. *)
SettleUnlessFailed(p) ==
  /\ slotPc[p] \in {"blocked", "succeeded"}
  /\ FreeSlot(p)
  /\ UNCHANGED <<busVars, logVars, spent, notWorked>>

(* A blocked bead has no outcome, so it goes to the Witness too. *)
Routed(p) == slotBead[p] \in WitnessRequired /\ slotPc[p] # "failed"

Settle(p) ==
  /\ slotPc[p] \in {"blocked", "succeeded", "failed"}
  /\ FreeSlot(p)
  /\ IF Routed(p)
     THEN SendInternal(inbox, "witness", "PATCH_READY", slotBead[p]) /\ UNCHANGED quarantine
     ELSE UNCHANGED busVars
  /\ UNCHANGED <<logVars, spent, notWorked>>

(* routeToWitness throws inside then: catch records a failure, although the *)
(* polecat recorded a success.                                              *)
RouteFails(p) ==
  /\ slotPc[p] \in {"blocked", "succeeded"}
  /\ Routed(p)
  /\ Spend("sendfail")
  /\ FreeSlot(p)
  /\ lateFail' = [lateFail EXCEPT ![slotBead[p]] = @ + 1]
  /\ UNCHANGED <<ledger, busVars, notWorked>>

(* execute rejects, unless the append was inside its try block: the slot   *)
(* is freed before the failure is recorded.                               *)
SlotLockTimeout(p) ==
  /\ Spend("locktimeout")
  /\ \/ /\ slotPc[p] = "finishing"
        /\ SlotMoves(p, "failing")
        /\ UNCHANGED lateFail
     \/ /\ slotPc[p] \in {"blocking", "marking", "failing"}
        /\ FreeSlot(p)
        /\ lateFail' = [lateFail EXCEPT ![slotBead[p]] = @ + 1]
  /\ UNCHANGED <<ledger, busVars, notWorked>>

LateFail(b) ==
  /\ lateFail[b] > 0
  /\ appendBead(b, "failed", "FAILURE")
  /\ lateFail' = [lateFail EXCEPT ![b] = @ - 1]
  /\ UNCHANGED <<busVars, dispatched, pollVars, slotVars, background, drain,
                 stallCounts, spent>>

-----------------------------------------------------------------------------
(* Heartbeat events: handleStall and handleDeadlock. *)

Stalled(b) == \E p \in Polecat : slotBead[p] = b

(* A re-queue that cannot be written is only logged. *)
handleStall(b) ==
  /\ Stalled(b)
  /\ Spend("stall")
  /\ stallCounts' = [stallCounts EXCEPT ![b] = @ + 1]
  /\ IF stallCounts[b] + 1 >= 3
     THEN lateFail' = [lateFail EXCEPT ![b] = @ + 1] /\ UNCHANGED busVars
     ELSE /\ \/ SendInternal(inbox, "polecat", "BEAD_DISPATCH", b) /\ UNCHANGED quarantine
             \/ UNCHANGED busVars
          /\ UNCHANGED lateFail
  /\ UNCHANGED <<dispatched, ledger, pollVars, slotVars, background, drain>>

(* told: the stall exceeded 30 seconds and the Mayor is told to abort;     *)
(* requeued: the re-queue is written.  A send that throws is only logged.  *)
handleDeadlock(b, told, requeued) ==
  /\ Spend("deadlock")
  /\ LET abort == IF told THEN {Internal(sent + 1, "mayor", "SWARM_ABORT", b)} ELSE {}
         again == IF requeued /\ Known(b)
                  THEN {Internal(sent + Cardinality(abort) + 1, "polecat", "BEAD_DISPATCH", b)}
                  ELSE {}
     IN /\ inbox' = inbox \cup abort \cup again
        /\ sent' = sent + Cardinality(abort) + Cardinality(again)
  /\ UNCHANGED <<quarantine, dispatched, logVars, pollVars, slotVars, background,
                 drain, stallCounts>>

-----------------------------------------------------------------------------

CycleStep(c) ==
  \/ StartPoll(c) \/ NextMailbox(c) \/ (\E f \in pollTodo[c] : ReadConvoy(c, f))
  \/ Reject(c) \/ DropWhilePaused(c) \/ AtCapacity(c) \/ UnknownBead(c)
  \/ (\E b \in Bead : \/ PredecessorFailed(c, b) \/ WaitForPredecessor(c, b)
                      \/ WaitUnsent(c, b) \/ ReuseCached(c, b) \/ StartScan(c, b))
  \/ PollAppends(c) \/ PollLockTimeout(c) \/ ReportBlocked(c) \/ CloseConvoy(c)
  \/ HandleViolation(c) \/ ScanRejects(c) \/ ReportUnheard(c) \/ ScanFails(c)
  \/ NoFreePolecat(c)
  \/ (\E p \in Polecat, late \in BOOLEAN : ClaimPolecat(c, p, late))

PolecatStep(p) ==
  SlotAppends(p) \/ Infer(p) \/ ReviewResult(p) \/ Settle(p) \/ RouteFails(p)
  \/ SlotLockTimeout(p)

BeadStep(b) ==
  \/ Dispatch(b) \/ ReportViolation(b) \/ BackgroundScan(b) \/ LateFail(b)
  \/ handleStall(b) \/ (\E told, requeued \in BOOLEAN : handleDeadlock(b, told, requeued))

Next ==
  \/ \E c \in Cycle : CycleStep(c)
  \/ \E p \in Polecat : PolecatStep(p)
  \/ \E b \in Bead : BeadStep(b)
  \/ DrainBegins \/ DrainEnds \/ Restart

Spec == Init /\ [][Next]_vars

(* The timer keeps firing, a cycle that has work goes on, inference and    *)
(* scans answer (or time out) and the ledger lock is granted in the end.   *)
Fairness ==
  /\ \A c \in Cycle : WF_vars(CycleStep(c))
  /\ \A p \in Polecat : WF_vars(PolecatStep(p))
  /\ \A b \in Bead : WF_vars(LateFail(b))

FairSpec == Spec /\ Fairness

-----------------------------------------------------------------------------
(* Types. *)

PollPc == {"idle", "draining", "validating", "scanning", "failing", "caching",
           "violating", "reporting", "closing"}
SlotPc == {"idle", "blocking", "marking", "inferring", "reviewing", "finishing",
           "failing", "blocked", "succeeded", "failed"}

(* The variables hold what the code can hold: a cycle has a convoy in hand *)
(* exactly while a handler or a validation runs, a slot a bead while busy. *)
TypeOK ==
  /\ inbox \subseteq Convoy /\ quarantine \subseteq Convoy
  /\ sent \in Nat
  /\ dispatched \in [Bead -> Nat]
  /\ ledger \in [Bead -> Seq(Record)]
  /\ lateFail \in [Bead -> Nat]
  /\ pollPc \in [Cycle -> PollPc]
  /\ pollRole \in [Cycle -> {"polecat", "mayor", "witness"}]
  /\ pollTodo \in [Cycle -> SUBSET Convoy]
  /\ pollFile \in [Cycle -> Convoy \cup {NoConvoy}]
  /\ \A c \in Cycle : pollPc[c] \notin {"idle", "draining"} => pollFile[c] \in Convoy
  /\ slotPc \in [Polecat -> SlotPc]
  /\ slotBead \in [Polecat -> Bead \cup {NoBead}]
  /\ \A p \in Polecat : slotPc[p] = "idle" <=> slotBead[p] = NoBead
  /\ background \in [Bead -> Nat]
  /\ drain \in {"off", "waiting", "settled", "timedout"}
  /\ stallCounts \in [Bead -> Nat]
  /\ spent \in [Event -> Nat]

-----------------------------------------------------------------------------
(* What the runtime promises. *)

Succeeded == {b \in Bead : HasSucceeded(b)}
Executing == {p \in Polecat : slotPc[p] \in {"marking", "inferring", "reviewing", "finishing"}}

Pipeline == INSTANCE BeadPipeline
              WITH succeeded <- Succeeded, underway <- {slotBead[p] : p \in Executing}

(* HARDENING.md 2.3: no bead ever succeeds before all beads it needs have, *)
(* through the needs gate, the result cache and the polecat's own check.   *)
SuccessIsCausal == Pipeline!SuccessIsCausal

(* The runtime implements the pipeline: polecats start only ready beads,   *)
(* a success comes from work under way or from an identical bead.          *)
ImplementsPipeline == Pipeline!Spec

(* What the gate and the cache establish must still hold when the handler  *)
(* or the slot acts on it, several awaits later.                           *)
GateHolds ==
  /\ \A c \in Cycle : pollPc[c] \in {"scanning", "caching"} =>
       Needs[pollFile[c].bead] \subseteq Succeeded
  /\ \A c \in Cycle : pollPc[c] = "caching" =>
       \E o \in Succeeded \ {pollFile[c].bead} :
          Task[o] = Task[pollFile[c].bead] /\ Needs[o] = Needs[pollFile[c].bead]
  /\ \A p \in Executing : Needs[slotBead[p]] \subseteq Succeeded

Trace(b) ==
  \/ \E f \in inbox \cup quarantine :
        f.bead = b /\ f.type \in {"BEAD_DISPATCH", "LOCKDOWN_BROADCAST"}
  \/ \E p \in Polecat : slotBead[p] = b
  \/ lateFail[b] > 0
  \/ \E i \in DOMAIN ledger[b] : ledger[b][i].status # "pending"

(* A dispatched bead the ledger knows never vanishes: its convoy, its      *)
(* rejection, its slot, a failure being written or a record of it remains  *)
(* (while no drain and no crash drops it and no report is lost).           *)
NoDispatchForgotten ==
  spent["drain"] + spent["restart"] + spent["unheard"] = 0 =>
    \A b \in Bead : Known(b) /\ dispatched[b] > 0 => Trace(b)

(* "Maximum beads allowed in-flight simultaneously."  The check comes      *)
(* before the scan window and the claim after it, so the bound needs poll  *)
(* cycles that do not overlap.                                             *)
InflightCap == Cardinality(Busy) <= MaxInflight

Slots(b) == {p \in Polecat : slotBead[p] = b}

(* Two polecats work on one bead only if the Mayor dispatched it twice:    *)
(* no convoy is delivered twice while poll cycles do not overlap, not even *)
(* across a crash.                                                         *)
TwinsOnlyByRedispatch ==
  spent["overlap"] = 0 => \A b \in Bead : Cardinality(Slots(b)) <= dispatched[b]

(* A bead dispatched once stays successful: nothing runs it again, marks   *)
(* it in progress or fails it after its success was recorded.  For a bead  *)
(* the Witness must see this needs mailboxes that can be written: when     *)
(* PATCH_READY cannot be, the catch block fails the bead (RouteFails).     *)
SuccessSticks ==
  [][\A b \in Bead :
       /\ Succeeding(b) /\ dispatched[b] <= 1
       /\ b \in WitnessRequired => spent["sendfail"] = 0
       => Succeeding(b)']_vars

Final(b) ==
  \/ Known(b) /\ getBead(b).status \in {"done", "failed", "blocked"}
  \/ \E f \in quarantine : f.bead = b /\ f.type \in {"BEAD_DISPATCH", "LOCKDOWN_BROADCAST"}

(* Every bead the Mayor dispatches reaches a final record, or a file in    *)
(* quarantine shows why not.                                               *)
DispatchSettles ==
  \A b \in Bead : Known(b) /\ dispatched[b] > 0 ~> Final(b)

(* Polecats always come free again. *)
SlotsComeFree == \A p \in Polecat : slotPc[p] # "idle" ~> slotPc[p] = "idle"

-----------------------------------------------------------------------------
(* What a comment says, and the code does not do. *)

(* worker-loop.ts:293, "re-queue for next poll": the convoy the runtime    *)
(* writes for a waiting bead is never handled, because no key and no role  *)
(* entry exists for sender "runtime".                                      *)
RequeueIsDelivered ==
  \A f \in quarantine : ~(f.sender = "runtime" /\ f.type = "BEAD_DISPATCH")
=============================================================================
