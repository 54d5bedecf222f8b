------------------------ MODULE WorkerRuntime_proofs ------------------------
(***************************************************************************)
(* Proofs about WorkerRuntime, for any beads, needs, polecats, poll cycles *)
(* and budgets: types; causality and the refinement of BeadPipeline; the   *)
(* cap; late failures; what remains of a dispatched bead; how many         *)
(* polecats one bead has; and what becomes of a success.                   *)
(***************************************************************************)
EXTENDS WorkerRuntime, FiniteSetTheorems, TLAPS

-----------------------------------------------------------------------------
(* A set of at most one convoy has a cardinality. *)
LEMMA AtMostOne ==
  ASSUME NEW S, NEW e \in Convoy, S = {} \/ S = {e}
  PROVE  S \subseteq Convoy /\ Cardinality(S) \in Nat
BY FS_EmptySet, FS_Singleton

(* What the building blocks of the actions do to the types. *)

(* Writing a record of a bead keeps the ledger a function to sequences.    *)
LEMMA AppendType ==
  ASSUME TypeOK, NEW b \in Bead, NEW status \in Status, NEW outcome \in Outcome,
         appendBead(b, status, outcome)
  PROVE  ledger' \in [Bead -> Seq(Record)]
<1>1. [status |-> status, outcome |-> outcome] \in Record
  BY DEF Record
<1>2. ledger[b] \in Seq(Record)
  BY DEF TypeOK
<1>3. Append(ledger[b], [status |-> status, outcome |-> outcome]) \in Seq(Record)
  BY <1>1, <1>2
<1> QED BY <1>3 DEF TypeOK, appendBead

(* A convoy the runtime writes is a convoy, whatever else is in the mailbox. *)
LEMMA SendType ==
  ASSUME TypeOK, NEW files, files \subseteq Convoy,
         NEW to \in {"polecat", "mayor", "witness"}, NEW type \in ConvoyType,
         NEW b \in Bead, SendInternal(files, to, type, b)
  PROVE  inbox' \subseteq Convoy /\ sent' \in Nat
<1>1. sent + 1 \in Nat
  BY DEF TypeOK
<1>2. Internal(sent + 1, to, type, b) \in Convoy
  BY <1>1 DEF Internal, Convoy, Sender
<1> QED BY <1>1, <1>2 DEF SendInternal

(* The counts of events stay natural numbers. *)
LEMMA SpendType ==
  ASSUME TypeOK, NEW event \in Event, Spend(event)
  PROVE  spent' \in [Event -> Nat]
BY DEF TypeOK, Spend

(* Putting a convoy down leaves a well-formed poll cycle. *)
LEMMA PutDownType ==
  ASSUME TypeOK, NEW c \in Cycle, PutDown(c)
  PROVE  /\ pollPc' \in [Cycle -> PollPc]
         /\ pollRole' \in [Cycle -> {"polecat", "mayor", "witness"}]
         /\ pollTodo' \in [Cycle -> SUBSET Convoy]
         /\ pollFile' \in [Cycle -> Convoy \cup {NoConvoy}]
         /\ \A d \in Cycle : pollPc'[d] \notin {"idle", "draining"} => pollFile'[d] \in Convoy
BY DEF TypeOK, PutDown, Advance, PollPc

(* So does waiting for something else with the same convoy in hand. *)
LEMMA AdvanceType ==
  ASSUME TypeOK, NEW c \in Cycle, NEW pc \in PollPc \ {"idle"},
         pc = "draining" \/ pollFile[c] \in Convoy,
         Advance(c, pc), UNCHANGED pollFile
  PROVE  /\ pollPc' \in [Cycle -> PollPc]
         /\ \A d \in Cycle : pollPc'[d] \notin {"idle", "draining"} => pollFile'[d] \in Convoy
BY DEF TypeOK, Advance, PollPc

(* In every pc of a handler there is a convoy in hand, about some bead. *)
LEMMA InHand ==
  ASSUME TypeOK, NEW c \in Cycle, pollPc[c] \notin {"idle", "draining"}
  PROVE  pollFile[c] \in Convoy /\ pollFile[c].bead \in Bead
BY DEF TypeOK, Convoy

-----------------------------------------------------------------------------

(* The initial state is well typed. *)
LEMMA InitType == Init => TypeOK
<1> SUFFICES ASSUME Init PROVE TypeOK
  OBVIOUS
<1>1. ledger \in [Bead -> Seq(Record)]
  <2> PICK recorded \in Recordings :
        ledger = [b \in Bead |-> IF b \in recorded
                                 THEN <<[status |-> "pending", outcome |-> "none"]>>
                                 ELSE <<>>]
    BY DEF Init
  <2>1. <<>> \in Seq(Record) /\ <<[status |-> "pending", outcome |-> "none"]>> \in Seq(Record)
    BY DEF Record, Status, Outcome
  <2> QED BY <2>1 DEF Init
<1>2. spent \in [Event -> Nat]
  BY DEF Init
<1> QED BY <1>1, <1>2, PlanAssumption DEF Init, TypeOK, PollPc, SlotPc

(* Every step of the life cycle, of the Mayor and of the heartbeat keeps   *)
(* the types.                                                              *)
LEMMA EnvironmentType ==
  ASSUME TypeOK, DrainBegins \/ DrainEnds \/ Restart \/ \E b \in Bead : BeadStep(b)
  PROVE  TypeOK'
<1>1. CASE DrainBegins
  BY <1>1, SpendType DEF DrainBegins, Event, TypeOK, busVars, logVars, pollVars, slotVars
<1>2. CASE DrainEnds
  BY <1>2 DEF DrainEnds, TypeOK, busVars, logVars, pollVars, slotVars
<1>3. CASE Restart
  <2>1. spent' \in [Event -> Nat]
    BY <1>3, SpendType DEF Restart, Event
  <2> QED BY <1>3, <2>1 DEF Restart, TypeOK, busVars, PollPc, SlotPc
<1>4. ASSUME NEW b \in Bead, BeadStep(b) PROVE TypeOK'
  <2>1. CASE Dispatch(b)
    <3>1. spent' \in [Event -> Nat]
      BY <2>1, SpendType DEF Dispatch, Event
    <3>2. Signed("polecat", "mayor", "BEAD_DISPATCH", b) \in Convoy
      BY DEF TypeOK, Signed, Convoy, Sender, ConvoyType
    <3> QED BY <2>1, <3>1, <3>2 DEF Dispatch, TypeOK, logVars, pollVars, slotVars
  <2>2. CASE ReportViolation(b)
    <3>1. spent' \in [Event -> Nat]
      BY <2>2, SpendType DEF ReportViolation, Event
    <3>2. Signed("mayor", "safeguard", "SECURITY_VIOLATION", b) \in Convoy
      BY DEF TypeOK, Signed, Convoy, Sender, ConvoyType
    <3> QED BY <2>2, <3>1, <3>2 DEF ReportViolation, TypeOK, logVars, pollVars, slotVars
  <2>3. CASE BackgroundScan(b)
    <3>1. inbox' \subseteq Convoy /\ sent' \in Nat /\ UNCHANGED quarantine
      BY <2>3, SendType DEF BackgroundScan, TypeOK, busVars, ConvoyType
    <3> QED BY <2>3, <3>1 DEF BackgroundScan, TypeOK, logVars, pollVars, slotVars
  <2>4. CASE LateFail(b)
    <3>1. ledger' \in [Bead -> Seq(Record)]
      BY <2>4, AppendType DEF LateFail, Status, Outcome
    <3>2. lateFail' \in [Bead -> Nat]
      BY <2>4 DEF LateFail, TypeOK
    <3> QED BY <2>4, <3>1, <3>2 DEF LateFail, TypeOK, busVars, pollVars, slotVars
  <2>5. CASE handleStall(b)
    <3>1. spent' \in [Event -> Nat]
      BY <2>5, SpendType DEF handleStall, Event
    <3>2. inbox' \subseteq Convoy /\ sent' \in Nat /\ UNCHANGED quarantine
      BY <2>5, SendType DEF handleStall, TypeOK, busVars, ConvoyType
    <3>3. stallCounts' \in [Bead -> Nat] /\ lateFail' \in [Bead -> Nat]
      <4>1. /\ stallCounts' = [stallCounts EXCEPT ![b] = @ + 1]
            /\ lateFail' = lateFail \/ lateFail' = [lateFail EXCEPT ![b] = @ + 1]
        BY <2>5 DEF handleStall
      <4>2. stallCounts \in [Bead -> Nat] /\ lateFail \in [Bead -> Nat]
        BY DEF TypeOK
      <4> QED BY <4>1, <4>2
    <3> QED BY <2>5, <3>1, <3>2, <3>3 DEF handleStall, TypeOK, pollVars, slotVars
  <2>6. ASSUME NEW told \in BOOLEAN, NEW requeued \in BOOLEAN, handleDeadlock(b, told, requeued)
        PROVE  TypeOK'
    <3>1. spent' \in [Event -> Nat]
      BY <2>6, SpendType DEF handleDeadlock, Event
    <3>2. \A n \in Nat : /\ Internal(n, "mayor", "SWARM_ABORT", b) \in Convoy
                         /\ Internal(n, "polecat", "BEAD_DISPATCH", b) \in Convoy
      BY DEF Internal, Convoy, Sender, ConvoyType
    <3> DEFINE abort == IF told THEN {Internal(sent + 1, "mayor", "SWARM_ABORT", b)} ELSE {}
               again == IF requeued /\ Known(b)
                        THEN {Internal(sent + Cardinality(abort) + 1, "polecat", "BEAD_DISPATCH", b)}
                        ELSE {}
    <3>3. abort \subseteq Convoy /\ Cardinality(abort) \in Nat
      <4>1. Internal(sent + 1, "mayor", "SWARM_ABORT", b) \in Convoy
        BY <3>2 DEF TypeOK
      <4>2. abort = {} \/ abort = {Internal(sent + 1, "mayor", "SWARM_ABORT", b)}
        OBVIOUS
      <4> QED BY <4>1, <4>2, AtMostOne
    <3>4. again \subseteq Convoy /\ Cardinality(again) \in Nat
      <4> DEFINE n == sent + Cardinality(abort) + 1
      <4>1. again = {} \/ again = {Internal(n, "polecat", "BEAD_DISPATCH", b)}
        OBVIOUS
      <4> HIDE DEF abort, again
      <4>2. n \in Nat
        BY <3>3 DEF TypeOK
      <4> HIDE DEF n
      <4> QED BY <3>2, <4>1, <4>2, AtMostOne
    <3>5. inbox' = inbox \cup abort \cup again /\ sent' = sent + Cardinality(abort) + Cardinality(again)
      BY <2>6 DEF handleDeadlock
    <3>6. inbox' \subseteq Convoy /\ sent' \in Nat
      <4> HIDE DEF abort, again
      <4> QED BY <3>3, <3>4, <3>5 DEF TypeOK
    <3> QED BY <2>6, <3>1, <3>6 DEF handleDeadlock, TypeOK, logVars, pollVars, slotVars
  <2> QED BY <1>4, <2>1, <2>2, <2>3, <2>4, <2>5, <2>6 DEF BeadStep
<1> QED BY <1>1, <1>2, <1>3, <1>4

(* Every step of a polecat slot keeps the types. *)
LEMMA PolecatType ==
  ASSUME TypeOK, NEW p \in Polecat, PolecatStep(p)
  PROVE  TypeOK'
<1>0. slotPc[p] # "idle" => slotBead[p] \in Bead
  BY DEF TypeOK
<1>1. CASE SlotAppends(p)
  <2>1. ledger' \in [Bead -> Seq(Record)]
    BY <1>0, <1>1, AppendType DEF SlotAppends, Status, Outcome
  <2> QED BY <1>1, <2>1 DEF SlotAppends, SlotMoves, TypeOK, SlotPc, busVars, notWorked, pollVars
<1>2. CASE Infer(p) \/ ReviewResult(p)
  BY <1>2 DEF Infer, ReviewResult, SlotMoves, TypeOK, SlotPc, busVars, logVars, notWorked, pollVars
<1>3. CASE Settle(p)
  <2>1. inbox' \subseteq Convoy /\ sent' \in Nat /\ UNCHANGED quarantine
    BY <1>0, <1>3, SendType DEF Settle, Routed, TypeOK, busVars, ConvoyType
  <2> QED BY <1>3, <2>1 DEF Settle, FreeSlot, TypeOK, SlotPc, logVars, notWorked, pollVars
<1>4. CASE SlotLockTimeout(p)
  <2>1. spent' \in [Event -> Nat]
    BY <1>4, SpendType DEF SlotLockTimeout, Event
  <2>2. lateFail' \in [Bead -> Nat]
    <3>1. \/ lateFail' = lateFail
          \/ slotBead[p] \in Bead /\ lateFail' = [lateFail EXCEPT ![slotBead[p]] = @ + 1]
      BY <1>0, <1>4 DEF SlotLockTimeout
    <3>2. lateFail \in [Bead -> Nat]
      BY DEF TypeOK
    <3> QED BY <3>1, <3>2
  <2> QED BY <1>4, <2>1, <2>2 DEF SlotLockTimeout, SlotMoves, FreeSlot, TypeOK, SlotPc, busVars, notWorked, pollVars
<1>5. CASE RouteFails(p)
  <2>1. spent' \in [Event -> Nat]
    BY <1>5, SpendType DEF RouteFails, Event
  <2>2. lateFail' \in [Bead -> Nat]
    BY <1>0, <1>5 DEF RouteFails, TypeOK
  <2> QED BY <1>5, <2>1, <2>2 DEF RouteFails, FreeSlot, TypeOK, SlotPc, busVars, notWorked, pollVars
<1> QED BY <1>1, <1>2, <1>3, <1>4, <1>5 DEF PolecatStep

(* Every step of a poll cycle keeps the types. *)
LEMMA CycleType ==
  ASSUME TypeOK, NEW c \in Cycle, CycleStep(c)
  PROVE  TypeOK'
<1> USE DEF notPolled, slotVars, logVars
<1>1. CASE StartPoll(c)
  <2>1. spent' \in [Event -> Nat]
    BY <1>1, SpendType DEF StartPoll, Event, TypeOK
  <2> QED BY <1>1, <2>1 DEF StartPoll, Advance, Files, TypeOK, PollPc, busVars
<1>2. CASE NextMailbox(c)
  <2>1. \A i \in 1..2 : Mailbox[i + 1] \in {"polecat", "mayor", "witness"}
    BY DEF Mailbox
  <2> QED BY <1>2, <2>1 DEF NextMailbox, Advance, Files, TypeOK, PollPc, busVars
<1>3. ASSUME NEW f \in pollTodo[c], ReadConvoy(c, f) PROVE TypeOK'
  BY <1>3 DEF ReadConvoy, Quarantine, Advance, TypeOK, PollPc, busVars
<1>4. CASE Reject(c)
  BY <1>4, PutDownType DEF Reject, Quarantine, TypeOK
<1>5. CASE DropWhilePaused(c) \/ UnknownBead(c) \/ CloseConvoy(c)
  BY <1>5, PutDownType DEF DropWhilePaused, UnknownBead, CloseConvoy, HandlerReturns, Others, TypeOK
<1>6. CASE AtCapacity(c) \/ NoFreePolecat(c)
  BY <1>6, PutDownType DEF AtCapacity, NoFreePolecat, HandlerThrows, busVars, TypeOK
<1>7. CASE PollLockTimeout(c) \/ ScanFails(c) \/ \E b \in Bead : WaitUnsent(c, b)
  <2>1. spent' \in [Event -> Nat]
    BY <1>7, SpendType DEF PollLockTimeout, ScanFails, WaitUnsent, Event
  <2> QED BY <1>7, <2>1, PutDownType
          DEF PollLockTimeout, ScanFails, WaitUnsent, HandlerThrows, busVars, TypeOK
<1>8. ASSUME NEW b \in Bead, PredecessorFailed(c, b) \/ ReuseCached(c, b) \/ StartScan(c, b)
      PROVE  TypeOK'
  <2>1. pollFile[c] \in Convoy
    BY <1>8, InHand DEF PredecessorFailed, ReuseCached, StartScan, Ready, Gated, Admitted, Accepting, Handling
  <2> QED BY <1>8, <2>1, AdvanceType
          DEF PredecessorFailed, ReuseCached, StartScan, busVars, TypeOK, PollPc
<1>9. ASSUME NEW b \in Bead, WaitForPredecessor(c, b) PROVE TypeOK'
  <2>1. inbox' \subseteq Convoy /\ sent' \in Nat
    BY <1>9, SendType DEF WaitForPredecessor, HandlerSends, Others, TypeOK, ConvoyType
  <2> QED BY <1>9, <2>1, PutDownType DEF WaitForPredecessor, HandlerSends, TypeOK
<1>10. CASE PollAppends(c)
  <2>1. pollFile[c] \in Convoy /\ pollFile[c].bead \in Bead
    BY <1>10, InHand DEF PollAppends
  <2>2. ledger' \in [Bead -> Seq(Record)]
    BY <1>10, <2>1, AppendType DEF PollAppends, Status, Outcome
  <2> QED BY <1>10, <2>1, <2>2, AdvanceType DEF PollAppends, busVars, TypeOK, PollPc
<1>11. CASE ReportBlocked(c) \/ ScanRejects(c)
  <2>1. pollFile[c].bead \in Bead
    BY <1>11, InHand DEF ReportBlocked, ScanRejects
  <2>2. inbox' \subseteq Convoy /\ sent' \in Nat
    BY <1>11, <2>1, SendType DEF ReportBlocked, ScanRejects, HandlerSends, Others, TypeOK, ConvoyType
  <2> QED BY <1>11, <2>2, PutDownType DEF ReportBlocked, ScanRejects, HandlerSends, TypeOK
<1>12. CASE HandleViolation(c)
  <2>1. pollFile[c] \in Convoy
    BY <1>12, InHand DEF HandleViolation, Handling
  <2>2. CASE Known(pollFile[c].bead)
    BY <1>12, <2>1, <2>2, AdvanceType DEF HandleViolation, busVars, TypeOK, PollPc
  <2>3. CASE ~Known(pollFile[c].bead)
    BY <1>12, <2>3, PutDownType DEF HandleViolation, HandlerReturns, Others, TypeOK
  <2> QED BY <2>2, <2>3
<1>13. ASSUME NEW p \in Polecat, NEW late \in BOOLEAN, ClaimPolecat(c, p, late) PROVE TypeOK'
  <2>1. pollFile[c].bead \in Bead
    BY <1>13, InHand DEF ClaimPolecat
  <2>2. spent' \in [Event -> Nat]
    BY <1>13, SpendType DEF ClaimPolecat, Event, TypeOK
  <2>3. background' \in [Bead -> Nat]
    BY <1>13, <2>1 DEF ClaimPolecat, TypeOK
  <2>4. /\ slotPc' \in [Polecat -> SlotPc]
        /\ slotBead' \in [Polecat -> Bead \cup {NoBead}]
        /\ \A q \in Polecat : slotPc'[q] = "idle" <=> slotBead'[q] = NoBead
    BY <1>13, <2>1, PlanAssumption DEF ClaimPolecat, TypeOK, SlotPc
  <2> QED BY <1>13, <2>2, <2>3, <2>4, PutDownType DEF ClaimPolecat, HandlerReturns, Others, TypeOK
<1>14. CASE ReportUnheard(c)
  <2>1. spent' \in [Event -> Nat]
    BY <1>14, SpendType DEF ReportUnheard, Event
  <2> QED BY <1>14, <2>1, PutDownType DEF ReportUnheard, HandlerReturns, Others, TypeOK
<1> QED BY <1>1, <1>2, <1>3, <1>4, <1>5, <1>6, <1>7, <1>8, <1>9, <1>10, <1>11, <1>12, <1>13, <1>14
        DEF CycleStep

(* Every step keeps the types. *)
LEMMA NextType == TypeOK /\ [Next]_vars => TypeOK'
<1> SUFFICES ASSUME TypeOK, [Next]_vars PROVE TypeOK'
  OBVIOUS
<1>1. CASE Next
  BY <1>1, EnvironmentType, PolecatType, CycleType DEF Next
<1>2. CASE UNCHANGED vars
  BY <1>2 DEF TypeOK, vars, busVars, logVars, pollVars, slotVars
<1> QED BY <1>1, <1>2

(* The variables always hold what TypeOK says: in particular a slot shows  *)
(* a bead exactly while it is busy.                                        *)
THEOREM TypeCorrect == Spec => []TypeOK
BY InitType, NextType, PTL DEF Spec

-----------------------------------------------------------------------------
(* Causality and the refinement.  SuccessIsCausal is not inductive: when a *)
(* polecat reports a success its predecessors were checked several awaits  *)
(* ago.  GateHolds carries the check from the gate to the report; it holds *)
(* on because a success once recorded stays in the append-only ledger.     *)

IInv == TypeOK /\ GateHolds /\ SuccessIsCausal

Exec == {"marking", "inferring", "reviewing", "finishing"}

(* A latest record that reports a success is a record that does. *)
LEMMA SucceedingSucceeded ==
  ASSUME TypeOK, NEW b \in Bead, Succeeding(b)
  PROVE  b \in Succeeded
<1>1. ledger[b] \in Seq(Record) /\ ledger[b] # <<>>
  BY DEF TypeOK, Succeeding, Known
<1>2. Len(ledger[b]) \in DOMAIN ledger[b]
  BY <1>1
<1>3. ledger[b][Len(ledger[b])].outcome = "SUCCESS"
  BY DEF Succeeding, getBead
<1> QED BY <1>2, <1>3 DEF Succeeded, HasSucceeded

(* An append adds its bead to the successes exactly if it reports one. *)
LEMMA AppendSucceeded ==
  ASSUME TypeOK, NEW b \in Bead, NEW status \in Status, NEW outcome \in Outcome,
         appendBead(b, status, outcome)
  PROVE  Succeeded' = IF outcome = "SUCCESS" THEN Succeeded \cup {b} ELSE Succeeded
<1> DEFINE r == [status |-> status, outcome |-> outcome]
<1>1. ledger[b] \in Seq(Record) /\ DOMAIN ledger = Bead
  BY DEF TypeOK
<1>2. /\ ledger'[b] = Append(ledger[b], r)
      /\ \A n \in Bead \ {b} : ledger'[n] = ledger[n]
  BY <1>1 DEF appendBead
<1>3. r \in Record
  BY DEF Record
<1> HIDE DEF r
<1>4. /\ DOMAIN ledger'[b] = DOMAIN ledger[b] \cup {Len(ledger[b]) + 1}
      /\ \A i \in DOMAIN ledger[b] : ledger'[b][i] = ledger[b][i]
      /\ ledger'[b][Len(ledger[b]) + 1] = r
  BY <1>1, <1>2, <1>3
<1>5. r.outcome = outcome
  BY DEF r
<1>6. HasSucceeded(b)' <=> HasSucceeded(b) \/ outcome = "SUCCESS"
  BY <1>4, <1>5 DEF HasSucceeded
<1>7. \A n \in Bead \ {b} : HasSucceeded(n)' <=> HasSucceeded(n)
  BY <1>2 DEF HasSucceeded
<1> QED BY <1>6, <1>7 DEF Succeeded

(* Steps that record no success, open no gate and start no work. *)
Quiet ==
  /\ Succeeded' = Succeeded
  /\ \A c \in Cycle : pollPc'[c] \in {"scanning", "caching"} =>
       pollPc[c] = pollPc'[c] /\ pollFile'[c] = pollFile[c]
  /\ \A p \in Polecat : slotPc'[p] \in Exec =>
       slotPc[p] \in Exec /\ slotBead'[p] = slotBead[p]

Preserved == /\ GateHolds' /\ SuccessIsCausal'
             /\ [Pipeline!Next]_(Pipeline!vars)

(* A quiet step keeps the invariant; the pipeline sees work abandoned. *)
LEMMA QuietStep == ASSUME IInv, Quiet PROVE Preserved
<1>1. GateHolds'
  BY DEF IInv, Quiet, GateHolds, Executing, Exec
<1>2. SuccessIsCausal'
  BY DEF IInv, Quiet, SuccessIsCausal, Pipeline!SuccessIsCausal
<1>3. Pipeline!Abandon
  BY DEF Quiet, Executing, Exec, Pipeline!Abandon
<1> QED BY <1>1, <1>2, <1>3 DEF Preserved, Pipeline!Next

(* Unless the ledger changes, neither do the successes. *)
LEMMA SameLedger == UNCHANGED ledger => Succeeded' = Succeeded
BY DEF Succeeded, HasSucceeded

(* The environment, the Mayor and the heartbeat take quiet steps. *)
LEMMA EnvironmentQuiet ==
  ASSUME IInv, DrainBegins \/ DrainEnds \/ Restart \/ \E b \in Bead : BeadStep(b)
  PROVE  Quiet
<1>1. CASE DrainBegins \/ DrainEnds
  BY <1>1, SameLedger DEF DrainBegins, DrainEnds, Quiet, Exec, logVars, pollVars, slotVars
<1>2. CASE Restart
  BY <1>2, SameLedger DEF Restart, Quiet, Exec
<1>3. ASSUME NEW b \in Bead, BeadStep(b) PROVE Quiet
  <2>1. Succeeded' = Succeeded
    <3>1. CASE LateFail(b)
      BY <3>1, AppendSucceeded DEF LateFail, IInv, Status, Outcome
    <3>2. CASE ~LateFail(b)
      BY <1>3, <3>2, SameLedger
         DEF BeadStep, Dispatch, ReportViolation, BackgroundScan, handleStall, handleDeadlock, logVars
    <3> QED BY <3>1, <3>2
  <2>2. UNCHANGED <<pollVars, slotVars>>
    BY <1>3 DEF BeadStep, Dispatch, ReportViolation, BackgroundScan, LateFail, handleStall, handleDeadlock
  <2> QED BY <2>1, <2>2 DEF Quiet, Exec, pollVars, slotVars
<1> QED BY <1>1, <1>2, <1>3

(* A polecat that reports its success is under way in the pipeline, and    *)
(* GateHolds says its predecessors succeeded; its other steps are quiet.   *)
LEMMA PolecatPreserves ==
  ASSUME IInv, NEW p \in Polecat, PolecatStep(p)
  PROVE  Preserved
<1>0. TypeOK /\ (slotPc[p] # "idle" => slotBead[p] \in Bead)
  BY DEF IInv, TypeOK
<1>1. CASE SlotAppends(p) /\ slotPc[p] = "finishing"
  <2> DEFINE b == slotBead[p]
  <2>1. b \in Bead /\ p \in Executing /\ Needs[b] \subseteq Succeeded
    BY <1>0, <1>1 DEF IInv, GateHolds, Executing
  <2>2. Succeeded' = Succeeded \cup {b}
    BY <1>0, <1>1, <2>1, AppendSucceeded DEF SlotAppends, Status, Outcome
  <2>3. /\ slotPc' = [slotPc EXCEPT ![p] = "succeeded"]
        /\ UNCHANGED <<slotBead, pollVars>>
    BY <1>1 DEF SlotAppends, SlotMoves, notWorked
  <2>4. Executing' = Executing \ {p}
    BY <1>0, <2>3 DEF Executing, TypeOK
  <2>5. GateHolds'
    BY <2>2, <2>3, <2>4 DEF IInv, GateHolds, pollVars
  <2>6. SuccessIsCausal'
    BY <2>1, <2>2 DEF IInv, SuccessIsCausal, Pipeline!SuccessIsCausal
  <2>7. Pipeline!Succeed(b)
    <3>1. {slotBead'[q] : q \in Executing'} \in {{slotBead[q] : q \in Executing},
                                               {slotBead[q] : q \in Executing} \ {b}}
      <4>1. {slotBead'[q] : q \in Executing'} = {slotBead[q] : q \in Executing \ {p}}
        BY <2>3, <2>4
      <4>2. {slotBead[q] : q \in Executing} = {slotBead[q] : q \in Executing \ {p}} \cup {b}
        BY <2>1
      <4> QED BY <4>1, <4>2
    <3> QED BY <2>1, <2>2, <3>1 DEF Pipeline!Succeed
  <2>8. Pipeline!Next
    <3> HIDE DEF b
    <3> QED BY <2>1, <2>7 DEF Pipeline!Next, Pipeline!Succeed
  <2> QED BY <2>5, <2>6, <2>8 DEF Preserved
<1>2. CASE ~(SlotAppends(p) /\ slotPc[p] = "finishing")
  <2>1. Succeeded' = Succeeded
    <3>1. CASE SlotAppends(p)
      BY <1>0, <1>2, <3>1, AppendSucceeded DEF SlotAppends, Status, Outcome
    <3>2. CASE ~SlotAppends(p)
      BY <3>2, SameLedger DEF PolecatStep, Infer, ReviewResult, Settle, Routed, RouteFails,
         SlotLockTimeout, logVars
    <3> QED BY <3>1, <3>2
  <2>2. UNCHANGED pollVars
    BY DEF PolecatStep, SlotAppends, Infer, ReviewResult, Settle, Routed, RouteFails,
       SlotLockTimeout, notWorked
  <2>3. \A q \in Polecat : slotPc'[q] \in Exec => slotPc[q] \in Exec /\ slotBead'[q] = slotBead[q]
    BY <1>0, <1>2 DEF PolecatStep, SlotAppends, Infer, ReviewResult, Settle, Routed, RouteFails,
       SlotLockTimeout, SlotMoves, FreeSlot, TypeOK, Exec
  <2> QED BY <2>1, <2>2, <2>3, QuietStep DEF Quiet, pollVars
<1> QED BY <1>1, <1>2

(* Past the gate, all a bead needs has succeeded. *)
LEMMA GateEstablishes ==
  ASSUME IInv, NEW c \in Cycle, NEW b \in Bead, Ready(c, b)
  PROVE  b = pollFile[c].bead /\ Needs[b] \subseteq Succeeded
<1>1. \A n \in Needs[b] : n \in Bead /\ Succeeding(n)
  BY PlanAssumption DEF Ready, Unmet
<1>2. \A n \in Needs[b] : n \in Succeeded
  BY <1>1, SucceedingSucceeded DEF IInv
<1> QED BY <1>2 DEF Ready, Gated

(* The gate, the cache and the claim are the steps of a poll cycle that    *)
(* matter to the pipeline; the others are quiet.                           *)
LEMMA CyclePreserves ==
  ASSUME IInv, NEW c \in Cycle, CycleStep(c)
  PROVE  Preserved
<1>0. TypeOK
  BY DEF IInv
<1> USE DEF notPolled
<1>1. ASSUME NEW b \in Bead, ReuseCached(c, b) PROVE Preserved
  <2>1. b = pollFile[c].bead /\ Needs[b] \subseteq Succeeded
    BY <1>1, GateEstablishes DEF ReuseCached
  <2>2. PICK o \in Bead \ {b} : Succeeding(o) /\ Task[o] = Task[b] /\ Needs[o] = Needs[b]
    BY <1>1 DEF ReuseCached, findCachedBead
  <2>3. o \in Succeeded
    BY <1>0, <2>2, SucceedingSucceeded
  <2>4. pollPc' = [pollPc EXCEPT ![c] = "caching"] /\ UNCHANGED <<pollFile, ledger, slotVars>>
    BY <1>1 DEF ReuseCached, Advance, logVars
  <2>5. Succeeded' = Succeeded /\ Executing' = Executing
    BY <2>4, SameLedger DEF Executing, slotVars
  <2>6. GateHolds'
    BY <1>0, <2>1, <2>2, <2>3, <2>4, <2>5 DEF IInv, GateHolds, TypeOK, slotVars
  <2>7. UNCHANGED Pipeline!vars /\ SuccessIsCausal'
    BY <2>4, <2>5 DEF IInv, SuccessIsCausal, Pipeline!SuccessIsCausal, Pipeline!vars, slotVars
  <2> QED BY <2>6, <2>7 DEF Preserved
<1>2. ASSUME NEW b \in Bead, StartScan(c, b) PROVE Preserved
  <2>1. b = pollFile[c].bead /\ Needs[b] \subseteq Succeeded
    BY <1>2, GateEstablishes DEF StartScan
  <2>2. pollPc' = [pollPc EXCEPT ![c] = "scanning"] /\ UNCHANGED <<pollFile, ledger, slotVars>>
    BY <1>2 DEF StartScan, Advance, logVars
  <2>3. Succeeded' = Succeeded /\ Executing' = Executing
    BY <2>2, SameLedger DEF Executing, slotVars
  <2>4. GateHolds'
    BY <1>0, <2>1, <2>2, <2>3 DEF IInv, GateHolds, TypeOK, slotVars
  <2>5. UNCHANGED Pipeline!vars /\ SuccessIsCausal'
    BY <2>2, <2>3 DEF IInv, SuccessIsCausal, Pipeline!SuccessIsCausal, Pipeline!vars, slotVars
  <2> QED BY <2>4, <2>5 DEF Preserved
<1>3. CASE PollAppends(c) /\ pollPc[c] = "caching"
  <2> DEFINE b == pollFile[c].bead
  <2>1. b \in Bead
    BY <1>0, <1>3, InHand
  <2>2. Succeeded' = Succeeded \cup {b}
    BY <1>0, <1>3, <2>1, AppendSucceeded DEF PollAppends, Status, Outcome
  <2>3. /\ Needs[b] \subseteq Succeeded
        /\ \E o \in Succeeded \ {b} : Task[o] = Task[b] /\ Needs[o] = Needs[b]
    BY <1>3 DEF IInv, GateHolds
  <2>4. pollPc' = [pollPc EXCEPT ![c] = "closing"] /\ UNCHANGED <<pollFile, slotVars>>
    BY <1>3 DEF PollAppends, Advance
  <2>5. Executing' = Executing
    BY <2>4 DEF Executing, slotVars
  <2>6. GateHolds'
    BY <1>0, <2>2, <2>4, <2>5 DEF IInv, GateHolds, TypeOK, slotVars
  <2>7. SuccessIsCausal'
    BY <2>2, <2>3 DEF IInv, SuccessIsCausal, Pipeline!SuccessIsCausal
  <2>8. Pipeline!Reuse(b)
    BY <2>2, <2>3, <2>4, <2>5 DEF Pipeline!Reuse, Pipeline!Ready, slotVars
  <2> QED BY <2>1, <2>6, <2>7, <2>8 DEF Preserved, Pipeline!Next
<1>4. ASSUME NEW p \in Polecat, NEW late \in BOOLEAN, ClaimPolecat(c, p, late) PROVE Preserved
  <2> DEFINE b == pollFile[c].bead
             pc == IF PrerequisitesMet(b) THEN "marking" ELSE "blocking"
  <2>1. b \in Bead /\ Needs[b] \subseteq Succeeded
    BY <1>0, <1>4, InHand DEF ClaimPolecat, IInv, GateHolds
  <2>2. /\ slotPc[p] = "idle"
        /\ slotPc' = [slotPc EXCEPT ![p] = pc]
        /\ slotBead' = [slotBead EXCEPT ![p] = b]
        /\ pollPc' = [pollPc EXCEPT ![c] = "draining"]
        /\ pollFile' = [pollFile EXCEPT ![c] = NoConvoy]
        /\ UNCHANGED ledger
    BY <1>4 DEF ClaimPolecat, HandlerReturns, PutDown, Advance, Busy, logVars
  <2>3. Succeeded' = Succeeded
    BY <2>2, SameLedger
  <2>4. pc \in {"marking", "blocking"}
    OBVIOUS
  <2> HIDE DEF b, pc
  <2>5. GateHolds'
    BY <1>0, <2>1, <2>2, <2>3, <2>4 DEF IInv, GateHolds, Executing, TypeOK, SlotPc
  <2>6. SuccessIsCausal'
    BY <2>3 DEF IInv, SuccessIsCausal, Pipeline!SuccessIsCausal
  <2>7. p \notin Executing /\ \A q \in Executing : slotBead'[q] = slotBead[q]
    BY <1>0, <2>2 DEF Executing, TypeOK
  <2>8. CASE pc = "marking"
    <3>1. Executing' = Executing \cup {p} /\ slotBead'[p] = b
      BY <1>0, <2>2, <2>8 DEF Executing, TypeOK
    <3>2. {slotBead'[q] : q \in Executing'} = {slotBead[q] : q \in Executing} \cup {b}
      <4>1. {slotBead'[q] : q \in Executing'} = {slotBead'[q] : q \in Executing} \cup {b}
        BY <3>1
      <4>2. {slotBead'[q] : q \in Executing} = {slotBead[q] : q \in Executing}
        BY <2>7
      <4> QED BY <4>1, <4>2
    <3>3. Pipeline!Begin(b)
      BY <2>1, <2>3, <3>2 DEF Pipeline!Begin, Pipeline!Ready
    <3>4. Pipeline!Next
      BY <2>1, <3>3 DEF Pipeline!Next, Pipeline!Begin
    <3> QED BY <2>5, <2>6, <3>4 DEF Preserved
  <2>9. CASE pc = "blocking"
    <3>1. Executing' = Executing
      BY <1>0, <2>2, <2>9 DEF Executing, TypeOK
    <3>2. UNCHANGED Pipeline!vars
      BY <2>3, <2>7, <3>1 DEF Pipeline!vars
    <3> QED BY <2>5, <2>6, <3>2 DEF Preserved
  <2> QED BY <2>4, <2>8, <2>9
<1>5. ASSUME ~(PollAppends(c) /\ pollPc[c] = "caching"),
             \A b \in Bead : ~ReuseCached(c, b) /\ ~StartScan(c, b),
             \A p \in Polecat, late \in BOOLEAN : ~ClaimPolecat(c, p, late)
      PROVE  Preserved
  <2>1. Succeeded' = Succeeded
    <3>1. CASE PollAppends(c)
      <4>1. pollFile[c].bead \in Bead
        BY <1>0, <3>1, InHand DEF PollAppends
      <4> QED BY <1>0, <1>5, <3>1, <4>1, AppendSucceeded DEF PollAppends, Status, Outcome
    <3>2. CASE ~PollAppends(c)
      BY <1>5, <3>2, SameLedger
         DEF CycleStep, StartPoll, NextMailbox, ReadConvoy, Reject, DropWhilePaused, AtCapacity,
             UnknownBead, PredecessorFailed, WaitForPredecessor, Waiting, WaitUnsent,
             PollLockTimeout, ReportBlocked, CloseConvoy, HandleViolation, ScanRejects,
             ReportUnheard, ScanFails, NoFreePolecat, logVars
    <3> QED BY <3>1, <3>2
  <2>2. UNCHANGED slotVars
    BY <1>5 DEF CycleStep, StartPoll, NextMailbox, ReadConvoy, Reject, DropWhilePaused, AtCapacity,
             UnknownBead, PredecessorFailed, WaitForPredecessor, Waiting, WaitUnsent, PollAppends,
             PollLockTimeout, ReportBlocked, CloseConvoy, HandleViolation, ScanRejects,
             ReportUnheard, ScanFails, NoFreePolecat
  <2>3. /\ \A d \in Cycle \ {c} : pollPc'[d] = pollPc[d] /\ pollFile'[d] = pollFile[d]
        /\ pollPc'[c] \notin {"scanning", "caching"}
    BY <1>0, <1>5
       DEF CycleStep, StartPoll, NextMailbox, ReadConvoy, Reject, DropWhilePaused, AtCapacity,
           UnknownBead, PredecessorFailed, WaitForPredecessor, Waiting, WaitUnsent, PollAppends,
           PollLockTimeout, ReportBlocked, CloseConvoy, HandleViolation, ScanRejects, ReportUnheard,
           ScanFails, NoFreePolecat, HandlerReturns, HandlerSends, HandlerThrows, PutDown, Advance,
           TypeOK
  <2> QED BY <2>1, <2>2, <2>3, QuietStep DEF Quiet, slotVars
<1> QED BY <1>1, <1>2, <1>3, <1>4, <1>5 DEF CycleStep

(* The initial ledger reports no success, and nothing is under way. *)
LEMMA InitCausal == Init => IInv /\ Pipeline!Init
<1> SUFFICES ASSUME Init PROVE IInv /\ Pipeline!Init
  OBVIOUS
<1>1. TypeOK
  BY InitType
<1>2. Succeeded = {}
  BY DEF Init, Succeeded, HasSucceeded
<1>3. Executing = {}
  BY DEF Init, Executing
<1>4. GateHolds
  BY <1>3 DEF Init, GateHolds
<1> QED BY <1>1, <1>2, <1>3, <1>4 DEF IInv, SuccessIsCausal, Pipeline!SuccessIsCausal, Pipeline!Init

(* The induction step, and what each step is for the pipeline. *)
LEMMA NextPreserves == IInv /\ [Next]_vars => IInv' /\ [Pipeline!Next]_(Pipeline!vars)
<1> SUFFICES ASSUME IInv, [Next]_vars PROVE TypeOK' /\ Preserved
  BY DEF IInv, Preserved
<1>1. TypeOK'
  BY NextType DEF IInv
<1>2. CASE Next
  BY <1>1, <1>2, EnvironmentQuiet, QuietStep, PolecatPreserves, CyclePreserves DEF Next
<1>3. CASE UNCHANGED vars
  BY <1>1, <1>3, QuietStep, SameLedger DEF Quiet, vars, logVars, pollVars, slotVars
<1> QED BY <1>2, <1>3

(* The inductive invariant holds throughout. *)
THEOREM Inductive == Spec => []IInv
BY InitCausal, NextPreserves, PTL DEF Spec

(* What the gate and the cache established holds whenever it is acted on. *)
THEOREM GatesHold == Spec => []GateHolds
<1>1. IInv => GateHolds
  BY DEF IInv
<1> QED BY <1>1, Inductive, PTL

(* No bead succeeds before the beads it needs, whatever polls, polecats,   *)
(* locks and crashes do (HARDENING.md 2.3).                                *)
THEOREM Causality == Spec => []SuccessIsCausal
<1>1. IInv => SuccessIsCausal
  BY DEF IInv
<1> QED BY <1>1, Inductive, PTL

(* The runtime implements the pipeline. *)
THEOREM Implementation == Spec => ImplementsPipeline
BY InitCausal, NextPreserves, Inductive, PTL DEF Spec, ImplementsPipeline, Pipeline!Spec

-----------------------------------------------------------------------------
(* The in-flight cap.  With one poll cycle nobody claims a slot between its *)
(* capacity check and its claim, so there is room left while it scans.      *)

CapInv ==
  /\ TypeOK
  /\ InflightCap
  /\ \A c \in Cycle : pollPc[c] = "scanning" => Cardinality(Busy) < MaxInflight

(* Fewer busy slots count no more. *)
LEMMA FewerBusy ==
  ASSUME Busy' \subseteq Busy
  PROVE  Cardinality(Busy') <= Cardinality(Busy) /\ Cardinality(Busy') \in Nat /\ Cardinality(Busy) \in Nat
<1>1. IsFiniteSet(Busy)
  BY SizeAssumption, FS_Subset DEF Busy
<1> QED BY <1>1, FS_Subset, FS_CardinalityType

(* A step that claims no slot, and lets no cycle scan but past the check,  *)
(* keeps the cap.                                                          *)
LEMMA CapFrame ==
  ASSUME CapInv, TypeOK', Busy' \subseteq Busy,
         \A c \in Cycle : pollPc'[c] = "scanning" =>
            pollPc[c] = "scanning" \/ Cardinality(Busy) < MaxInflight
  PROVE  CapInv'
BY FewerBusy, SizeAssumption DEF CapInv, InflightCap

(* Slots are only freed by the environment and by polecats. *)
LEMMA CapOthers ==
  ASSUME CapInv, TypeOK',
         \/ DrainBegins \/ DrainEnds \/ Restart
         \/ \E p \in Polecat : PolecatStep(p)
         \/ \E b \in Bead : BeadStep(b)
  PROVE  CapInv'
<1>1. CASE DrainBegins \/ DrainEnds \/ \E b \in Bead : BeadStep(b)
  <2>1. UNCHANGED <<pollPc, slotPc>>
    BY <1>1 DEF DrainBegins, DrainEnds, BeadStep, Dispatch, ReportViolation, BackgroundScan, LateFail,
       handleStall, handleDeadlock, pollVars, slotVars
  <2> QED BY <2>1, CapFrame DEF Busy
<1>2. CASE Restart
  <2>1. Busy' = {} /\ \A c \in Cycle : pollPc'[c] = "idle"
    BY <1>2 DEF Restart, Busy
  <2> QED BY <2>1, CapFrame
<1>3. ASSUME NEW p \in Polecat, PolecatStep(p) PROVE CapInv'
  <2>1. UNCHANGED pollPc
    BY <1>3 DEF PolecatStep, SlotAppends, Infer, ReviewResult, Settle, Routed, RouteFails,
       SlotLockTimeout, notWorked, pollVars
  <2>2. \A q \in Polecat : slotPc'[q] # "idle" => slotPc[q] # "idle"
    BY <1>3 DEF PolecatStep, SlotAppends, Infer, ReviewResult, Settle, Routed, RouteFails,
       SlotLockTimeout, SlotMoves, FreeSlot, CapInv, TypeOK
  <2> QED BY <2>1, <2>2, CapFrame DEF Busy
<1> QED BY <1>1, <1>2, <1>3

(* The one poll cycle claims a slot only while it scans. *)
LEMMA CapCycle ==
  ASSUME NEW c, Cycle = {c}, CapInv, TypeOK', CycleStep(c)
  PROVE  CapInv'
<1>1. ASSUME NEW p \in Polecat, NEW late \in BOOLEAN, ClaimPolecat(c, p, late) PROVE CapInv'
  <2>1. /\ pollPc[c] = "scanning" /\ p \notin Busy /\ pollPc'[c] = "draining"
        /\ Busy' = Busy \cup {p}
    BY <1>1 DEF ClaimPolecat, HandlerReturns, PutDown, Advance, Busy, CapInv, TypeOK
  <2>2. IsFiniteSet(Busy)
    BY SizeAssumption, FS_Subset DEF Busy
  <2>3. Cardinality(Busy') = Cardinality(Busy) + 1 /\ Cardinality(Busy) \in Nat
    BY <2>1, <2>2, FS_AddElement, FS_CardinalityType
  <2>4. Cardinality(Busy) < MaxInflight
    BY <2>1 DEF CapInv
  <2> QED BY <2>1, <2>3, <2>4, SizeAssumption DEF CapInv, InflightCap
<1>2. ASSUME \A p \in Polecat, late \in BOOLEAN : ~ClaimPolecat(c, p, late) PROVE CapInv'
  <2>1. UNCHANGED slotPc
    BY <1>2 DEF CycleStep, StartPoll, NextMailbox, ReadConvoy, Reject, DropWhilePaused, AtCapacity,
       UnknownBead, PredecessorFailed, WaitForPredecessor, Waiting, WaitUnsent, ReuseCached,
       StartScan, PollAppends, PollLockTimeout, ReportBlocked, CloseConvoy, HandleViolation,
       ScanRejects, ReportUnheard, ScanFails, NoFreePolecat, notPolled, slotVars
  <2>2. CASE \E b \in Bead : StartScan(c, b)
    <3>1. Cardinality(Busy) < MaxInflight
      BY <2>2 DEF StartScan, Ready, Gated, Admitted
    <3> QED BY <2>1, <3>1, CapFrame DEF Busy
  <2>3. CASE ~\E b \in Bead : StartScan(c, b)
    <3>1. pollPc'[c] # "scanning"
      BY <1>2, <2>3 DEF CycleStep, StartPoll, NextMailbox, ReadConvoy, Reject, DropWhilePaused,
         AtCapacity, UnknownBead, PredecessorFailed, WaitForPredecessor, Waiting, WaitUnsent,
         ReuseCached, PollAppends, PollLockTimeout, ReportBlocked, CloseConvoy, HandleViolation,
         ScanRejects, ReportUnheard, ScanFails, NoFreePolecat, HandlerReturns, HandlerSends,
         HandlerThrows, PutDown, Advance, CapInv, TypeOK
    <3> QED BY <2>1, <3>1, CapFrame DEF Busy
  <2> QED BY <2>2, <2>3
<1> QED BY <1>1, <1>2

(* Poll cycles that do not overlap never exceed the in-flight cap,         *)
(* whatever the plan, the number of polecats and the cap.                  *)
THEOREM SerialCap ==
  ASSUME NEW c, Cycle = {c}
  PROVE  Spec => []InflightCap
<1>1. Init => CapInv
  <2> SUFFICES ASSUME Init PROVE CapInv
    OBVIOUS
  <2>1. Busy = {} /\ pollPc[c] = "idle"
    BY DEF Init, Busy
  <2> QED BY <2>1, InitType, FS_EmptySet, SizeAssumption DEF CapInv, InflightCap
<1>2. CapInv /\ [Next]_vars => CapInv'
  <2> SUFFICES ASSUME CapInv, [Next]_vars PROVE CapInv'
    OBVIOUS
  <2>1. TypeOK'
    BY NextType DEF CapInv
  <2>2. CASE Next
    BY <2>1, <2>2, CapOthers, CapCycle DEF Next
  <2>3. CASE UNCHANGED vars
    BY <2>1, <2>3, CapFrame DEF vars, pollVars, slotVars, Busy
  <2> QED BY <2>2, <2>3
<1>3. CapInv => InflightCap
  BY DEF CapInv
<1> QED BY <1>1, <1>2, <1>3, PTL DEF Spec
-----------------------------------------------------------------------------
(* What no step takes back: the ledger only grows, and so do the counts of *)
(* the events.                                                             *)

(* A record of b says more than that the Mayor planned it. *)
Recorded(b) == \E i \in DOMAIN ledger[b] : ledger[b][i].status # "pending"

HasFailed(b) == \E i \in DOMAIN ledger[b] : ledger[b][i].status = "failed"

(* An append leaves every record where it was and adds one at the end. *)
LEMMA AppendAdds ==
  ASSUME TypeOK, NEW b \in Bead, NEW status \in Status, NEW outcome \in Outcome,
         appendBead(b, status, outcome)
  PROVE  /\ \A n \in Bead \ {b} : ledger'[n] = ledger[n]
         /\ \A i \in DOMAIN ledger[b] : i \in DOMAIN ledger'[b] /\ ledger'[b][i] = ledger[b][i]
         /\ ledger'[b] # <<>>
         /\ Len(ledger'[b]) \in DOMAIN ledger'[b]
         /\ ledger'[b][Len(ledger'[b])] = [status |-> status, outcome |-> outcome]
<1> DEFINE r == [status |-> status, outcome |-> outcome]
<1>1. ledger[b] \in Seq(Record) /\ DOMAIN ledger = Bead
  BY DEF TypeOK
<1>2. /\ ledger'[b] = Append(ledger[b], r)
      /\ \A n \in Bead \ {b} : ledger'[n] = ledger[n]
  BY <1>1 DEF appendBead
<1>3. r \in Record
  BY DEF Record
<1> HIDE DEF r
<1>4. /\ Len(ledger'[b]) = Len(ledger[b]) + 1 /\ Len(ledger[b]) \in Nat
      /\ DOMAIN ledger'[b] = 1..Len(ledger'[b]) /\ DOMAIN ledger[b] = 1..Len(ledger[b])
      /\ \A i \in 1..Len(ledger[b]) : ledger'[b][i] = ledger[b][i]
      /\ ledger'[b][Len(ledger[b]) + 1] = r
      /\ ledger'[b] # <<>>
  BY <1>1, <1>2, <1>3
<1> QED BY <1>2, <1>4 DEF r

(* Whatever is written is no "pending" record: that one is the Mayor's. *)
LEMMA NextAppends ==
  ASSUME TypeOK, Next
  PROVE  \/ UNCHANGED ledger
         \/ \E b \in Bead, status \in Status \ {"pending"}, outcome \in Outcome :
               appendBead(b, status, outcome)
<1> DEFINE Writes == \E b \in Bead, status \in Status \ {"pending"}, outcome \in Outcome :
                        appendBead(b, status, outcome)
<1>1. CASE DrainBegins \/ DrainEnds \/ Restart
  BY <1>1 DEF DrainBegins, DrainEnds, Restart, logVars
<1>2. ASSUME NEW b \in Bead, BeadStep(b) PROVE UNCHANGED ledger \/ Writes
  BY <1>2 DEF BeadStep, Dispatch, ReportViolation, BackgroundScan, LateFail, handleStall,
     handleDeadlock, logVars, Status, Outcome
<1>3. ASSUME NEW p \in Polecat, PolecatStep(p) PROVE UNCHANGED ledger \/ Writes
  <2>1. CASE SlotAppends(p)
    <3>1. slotBead[p] \in Bead
      BY <2>1 DEF SlotAppends, TypeOK
    <3> QED BY <2>1, <3>1 DEF SlotAppends, Status, Outcome
  <2>2. CASE ~SlotAppends(p)
    BY <1>3, <2>2 DEF PolecatStep, Infer, ReviewResult, Settle, Routed, RouteFails, SlotLockTimeout,
       logVars
  <2> QED BY <2>1, <2>2
<1>4. ASSUME NEW c \in Cycle, CycleStep(c) PROVE UNCHANGED ledger \/ Writes
  <2>1. CASE PollAppends(c)
    <3>1. pollFile[c].bead \in Bead
      BY <2>1, InHand DEF PollAppends
    <3> QED BY <2>1, <3>1 DEF PollAppends, Status, Outcome
  <2>2. CASE ~PollAppends(c)
    BY <1>4, <2>2
       DEF CycleStep, StartPoll, NextMailbox, ReadConvoy, Reject, DropWhilePaused, AtCapacity,
           UnknownBead, PredecessorFailed, WaitForPredecessor, Waiting, WaitUnsent, ReuseCached,
           StartScan, PollLockTimeout, ReportBlocked, CloseConvoy, HandleViolation, ScanRejects,
           ReportUnheard, ScanFails, NoFreePolecat, ClaimPolecat, logVars
  <2> QED BY <2>1, <2>2
<1> QED BY <1>1, <1>2, <1>3, <1>4 DEF Next

(* The bead of such a record has been recorded. *)
LEMMA AppendRecords ==
  ASSUME TypeOK, NEW b \in Bead, NEW status \in Status \ {"pending"}, NEW outcome \in Outcome,
         appendBead(b, status, outcome)
  PROVE  Recorded(b)'
<1>1. /\ Len(ledger'[b]) \in DOMAIN ledger'[b]
      /\ ledger'[b][Len(ledger'[b])] = [status |-> status, outcome |-> outcome]
  BY AppendAdds
<1>2. ledger'[b][Len(ledger'[b])].status = status
  BY <1>1
<1> QED BY <1>1, <1>2 DEF Recorded

(* So records stay, and a bead the ledger comes to know has been recorded. *)
LEMMA RecordsStay ==
  ASSUME TypeOK, Next, NEW b \in Bead
  PROVE  /\ Recorded(b) => Recorded(b)'
         /\ HasFailed(b) => HasFailed(b)'
         /\ HasSucceeded(b) => HasSucceeded(b)'
         /\ Known(b)' => Known(b) \/ Recorded(b)'
<1>1. CASE UNCHANGED ledger
  BY <1>1 DEF Recorded, HasFailed, HasSucceeded, Known
<1>2. CASE \E n \in Bead, status \in Status \ {"pending"}, outcome \in Outcome :
             appendBead(n, status, outcome)
  <2> PICK n \in Bead, status \in Status \ {"pending"}, outcome \in Outcome :
        appendBead(n, status, outcome)
    BY <1>2
  <2>1. CASE n # b
    <3>1. ledger'[b] = ledger[b]
      BY <2>1, AppendAdds
    <3> QED BY <3>1 DEF Recorded, HasFailed, HasSucceeded, Known
  <2>2. CASE n = b
    <3>1. /\ \A i \in DOMAIN ledger[b] : i \in DOMAIN ledger'[b] /\ ledger'[b][i] = ledger[b][i]
          /\ Len(ledger'[b]) \in DOMAIN ledger'[b]
          /\ ledger'[b][Len(ledger'[b])] = [status |-> status, outcome |-> outcome]
      BY ONLY <2>2, TypeOK, appendBead(n, status, outcome), b \in Bead, status \in Status,
         outcome \in Outcome, AppendAdds
    <3>2. ledger'[b][Len(ledger'[b])].status = status
      BY ONLY <3>1
    <3> QED BY <3>1, <3>2 DEF Recorded, HasFailed, HasSucceeded, Known
  <2> QED BY <2>1, <2>2
<1> QED BY <1>1, <1>2, NextAppends

(* A step happens for free, or is one of the counted events. *)
LEMMA NextSpends ==
  ASSUME Next
  PROVE  UNCHANGED spent \/ \E event \in Event : Spend(event)
<1>1. CASE DrainBegins \/ DrainEnds \/ Restart
  BY <1>1 DEF DrainBegins, DrainEnds, Restart, Event
<1>2. ASSUME NEW b \in Bead, BeadStep(b)
      PROVE  UNCHANGED spent \/ \E event \in Event : Spend(event)
  BY <1>2 DEF BeadStep, Dispatch, ReportViolation, BackgroundScan, LateFail, handleStall,
     handleDeadlock, Event
<1>3. ASSUME NEW p \in Polecat, PolecatStep(p)
      PROVE  UNCHANGED spent \/ \E event \in Event : Spend(event)
  BY <1>3 DEF PolecatStep, SlotAppends, Infer, ReviewResult, Settle, Routed, RouteFails,
     SlotLockTimeout, Event
<1>4. ASSUME NEW c \in Cycle, CycleStep(c)
      PROVE  UNCHANGED spent \/ \E event \in Event : Spend(event)
  BY <1>4 DEF CycleStep, StartPoll, NextMailbox, ReadConvoy, Reject, DropWhilePaused, AtCapacity,
       UnknownBead, PredecessorFailed, WaitForPredecessor, Waiting, WaitUnsent, ReuseCached,
       StartScan, PollAppends, PollLockTimeout, ReportBlocked, CloseConvoy, HandleViolation,
       ScanRejects, ReportUnheard, ScanFails, NoFreePolecat, ClaimPolecat, Event
<1> QED BY <1>1, <1>2, <1>3, <1>4 DEF Next

(* No event is taken back. *)
LEMMA SpentGrows ==
  ASSUME TypeOK, Next, NEW e \in Event
  PROVE  spent'[e] >= spent[e] /\ spent[e] \in Nat
<1>1. UNCHANGED spent \/ \E event \in Event : Spend(event)
  BY NextSpends
<1>2. ASSUME NEW event \in Event, Spend(event) PROVE spent'[e] >= spent[e]
  BY <1>2 DEF Spend, TypeOK
<1>3. spent[e] \in Nat
  BY DEF TypeOK
<1> QED BY <1>1, <1>2, <1>3

-----------------------------------------------------------------------------
(* Late failures.                                                          *)

(* A failure record that waits is written before it stops waiting, unless  *)
(* the process dies.                                                       *)
LEMMA LateFailWritten ==
  ASSUME TypeOK, Next, NEW b \in Bead, lateFail[b] > 0
  PROVE  lateFail'[b] > 0 \/ HasFailed(b)' \/ Restart
<1>0. lateFail \in [Bead -> Nat]
  BY DEF TypeOK
<1>1. CASE DrainBegins \/ DrainEnds \/ Restart
  BY <1>1 DEF DrainBegins, DrainEnds, logVars
<1>2. ASSUME NEW n \in Bead, BeadStep(n) PROVE lateFail'[b] > 0 \/ HasFailed(b)'
  <2>1. CASE LateFail(n)
    <3>1. CASE n = b
      <4>1. /\ Len(ledger'[b]) \in DOMAIN ledger'[b]
            /\ ledger'[b][Len(ledger'[b])] = [status |-> "failed", outcome |-> "FAILURE"]
        BY <2>1, <3>1, AppendAdds DEF LateFail, Status, Outcome
      <4>2. ledger'[b][Len(ledger'[b])].status = "failed"
        BY <4>1
      <4> QED BY <4>1, <4>2 DEF HasFailed
    <3>2. CASE n # b
      BY <2>1, <3>2 DEF LateFail, TypeOK
    <3> QED BY <3>1, <3>2
  <2>2. CASE handleStall(n)
    <3>1. lateFail' = lateFail \/ lateFail' = [lateFail EXCEPT ![n] = @ + 1]
      BY <2>2 DEF handleStall
    <3> QED BY <1>0, <3>1
  <2>3. CASE ~LateFail(n) /\ ~handleStall(n)
    BY <1>2, <2>3 DEF BeadStep, Dispatch, ReportViolation, BackgroundScan, handleDeadlock, logVars
  <2> QED BY <2>1, <2>2, <2>3
<1>3. ASSUME NEW p \in Polecat, PolecatStep(p) PROVE lateFail'[b] > 0
  <2>1. lateFail' = lateFail \/ lateFail' = [lateFail EXCEPT ![slotBead[p]] = @ + 1]
    BY <1>3 DEF PolecatStep, SlotAppends, Infer, ReviewResult, Settle, Routed, RouteFails,
       SlotLockTimeout, logVars
  <2> QED BY <1>0, <2>1
<1>4. ASSUME NEW c \in Cycle, CycleStep(c) PROVE lateFail'[b] > 0
  BY <1>4 DEF CycleStep, StartPoll, NextMailbox, ReadConvoy, Reject, DropWhilePaused, AtCapacity,
     UnknownBead, PredecessorFailed, WaitForPredecessor, Waiting, WaitUnsent, ReuseCached,
     StartScan, PollAppends, PollLockTimeout, ReportBlocked, CloseConvoy, HandleViolation,
     ScanRejects, ReportUnheard, ScanFails, NoFreePolecat, ClaimPolecat, logVars
<1> QED BY <1>1, <1>2, <1>3, <1>4 DEF Next

-----------------------------------------------------------------------------
(* No dispatch is forgotten.  A convoy that leaves the mailboxes leaves    *)
(* something else behind; what a handler or a slot has recorded by then,   *)
(* and what a pause says about the budget, is part of the invariant.       *)

Shown == {"BEAD_DISPATCH", "LOCKDOWN_BROADCAST"}

TraceInv ==
  /\ TypeOK
  /\ drain # "off" => spent["drain"] > 0
  /\ \A c \in Cycle : pollPc[c] \in {"reporting", "closing"} => Recorded(pollFile[c].bead)
  /\ \A p \in Polecat :
       slotPc[p] \in {"blocked", "succeeded", "failed"} => Recorded(slotBead[p])
  /\ NoDispatchForgotten

(* Without a drain, a crash or a lost report so far, there was none before. *)
LEMMA CalmBefore ==
  ASSUME TypeOK, Next, spent'["drain"] + spent'["restart"] + spent'["unheard"] = 0
  PROVE  /\ spent["drain"] + spent["restart"] + spent["unheard"] = 0
         /\ ~Restart /\ ~DrainBegins /\ \A c \in Cycle : ~ReportUnheard(c)
<1>1. /\ spent'["drain"] >= spent["drain"] /\ spent["drain"] \in Nat
      /\ spent'["restart"] >= spent["restart"] /\ spent["restart"] \in Nat
      /\ spent'["unheard"] >= spent["unheard"] /\ spent["unheard"] \in Nat
  BY SpentGrows DEF Event
<1>2. spent' \in [Event -> Nat]
  BY NextType DEF TypeOK
<1>3. spent'["drain"] = 0 /\ spent'["restart"] = 0 /\ spent'["unheard"] = 0
  BY <1>1, <1>2 DEF Event
<1>4. ASSUME Restart \/ DrainBegins PROVE FALSE
  BY <1>1, <1>3, <1>4 DEF Restart, DrainBegins, Spend, TypeOK, Event
<1>5. ASSUME NEW c \in Cycle, ReportUnheard(c) PROVE FALSE
  BY <1>1, <1>3, <1>5 DEF ReportUnheard, Spend, TypeOK, Event
<1> QED BY <1>1, <1>3, <1>4, <1>5

(* A trace stays if each thing that may be one does, or leaves another. *)
LEMMA TraceStays ==
  ASSUME TypeOK, Next, NEW b \in Bead, Trace(b), ~Restart,
         \A f \in inbox \cup quarantine :
            f.bead = b /\ f.type \in Shown => f \in inbox' \cup quarantine' \/ Trace(b)',
         \A p \in Polecat :
            slotBead[p] = b => slotBead'[p] = b \/ Recorded(b)' \/ lateFail'[b] > 0
  PROVE  Trace(b)'
<1>1. lateFail[b] > 0 => lateFail'[b] > 0 \/ Recorded(b)'
  BY LateFailWritten DEF HasFailed, Recorded
<1>2. Recorded(b) => Recorded(b)'
  BY RecordsStay
<1>3. Trace(b)' <=> \/ \E f \in inbox' \cup quarantine' : f.bead = b /\ f.type \in Shown
                    \/ \E p \in Polecat : slotBead'[p] = b
                    \/ lateFail'[b] > 0
                    \/ Recorded(b)'
  BY DEF Trace, Shown, Recorded
<1>4. \/ \E f \in inbox \cup quarantine : f.bead = b /\ f.type \in Shown
      \/ \E p \in Polecat : slotBead[p] = b
      \/ lateFail[b] > 0
      \/ Recorded(b)
  BY DEF Trace, Shown, Recorded
<1> QED BY <1>1, <1>2, <1>3, <1>4

(* A bead that has become known to the ledger was recorded. *)
LEMMA KnownTraced ==
  ASSUME TypeOK, Next, NEW b \in Bead, Known(b)', ~Known(b)
  PROVE  Trace(b)'
<1>1. Recorded(b)'
  BY RecordsStay
<1> QED BY <1>1 DEF Trace, Recorded

(* The files a poll cycle removes for good are the convoys it has in hand. *)
LEMMA CycleRemoves ==
  ASSUME TypeOK, NEW c \in Cycle, CycleStep(c),
         NEW f \in inbox \cup quarantine, f \notin inbox' \cup quarantine'
  PROVE  /\ f = pollFile[c]
         /\ \/ DropWhilePaused(c) \/ UnknownBead(c) \/ ReportBlocked(c) \/ CloseConvoy(c)
            \/ HandleViolation(c) \/ ScanRejects(c) \/ ReportUnheard(c)
            \/ \E b \in Bead : WaitForPredecessor(c, b)
            \/ \E p \in Polecat, late \in BOOLEAN : ClaimPolecat(c, p, late)
<1>1. CASE \/ DropWhilePaused(c) \/ UnknownBead(c) \/ CloseConvoy(c) \/ HandleViolation(c)
           \/ ReportUnheard(c)
           \/ \E p \in Polecat, late \in BOOLEAN : ClaimPolecat(c, p, late)
  BY <1>1 DEF DropWhilePaused, UnknownBead, CloseConvoy, HandleViolation, ReportUnheard,
     ClaimPolecat, HandlerReturns, Others, busVars
<1>2. CASE ReportBlocked(c) \/ ScanRejects(c) \/ \E b \in Bead : WaitForPredecessor(c, b)
  BY <1>2 DEF ReportBlocked, ScanRejects, WaitForPredecessor, HandlerSends, SendInternal, Others
<1>3. CASE Reject(c) \/ \E g \in pollTodo[c] : ReadConvoy(c, g)
  BY <1>3 DEF Reject, ReadConvoy, Quarantine, busVars
<1>4. CASE \/ StartPoll(c) \/ NextMailbox(c) \/ AtCapacity(c) \/ PollAppends(c)
           \/ PollLockTimeout(c) \/ ScanFails(c) \/ NoFreePolecat(c)
           \/ \E b \in Bead : \/ PredecessorFailed(c, b) \/ WaitUnsent(c, b)
                              \/ ReuseCached(c, b) \/ StartScan(c, b)
  BY <1>4 DEF StartPoll, NextMailbox, AtCapacity, PollAppends, PollLockTimeout, ScanFails,
     NoFreePolecat, PredecessorFailed, WaitUnsent, ReuseCached, StartScan, HandlerThrows, busVars
<1> QED BY <1>1, <1>2, <1>3, <1>4 DEF CycleStep

(* What a removed convoy leaves: its bead is unknown, paused out, recorded *)
(* already, sent on, reported as rejected, or in a slot.                   *)
LEMMA RemovedTraced ==
  ASSUME TraceInv, Next, NEW c \in Cycle, CycleStep(c), NEW b \in Bead, Known(b),
         spent["drain"] = 0, ~ReportUnheard(c),
         NEW f \in inbox \cup quarantine, f.bead = b, f.type \in Shown,
         f \notin inbox' \cup quarantine'
  PROVE  Trace(b)'
<1>0. TypeOK /\ f = pollFile[c] /\ pollFile[c].bead = b
  BY CycleRemoves DEF TraceInv
<1>1. CASE DropWhilePaused(c)
  BY <1>1 DEF DropWhilePaused, Paused, TraceInv
<1>2. CASE UnknownBead(c)
  BY <1>0, <1>2 DEF UnknownBead
<1>3. CASE ReportBlocked(c) \/ CloseConvoy(c)
  <2>1. Recorded(pollFile[c].bead)
    BY <1>3 DEF ReportBlocked, CloseConvoy, TraceInv
  <2>2. Recorded(b)'
    BY <1>0, <2>1, RecordsStay
  <2> QED BY <2>2 DEF Trace, Recorded
<1>4. CASE HandleViolation(c)
  BY <1>0, <1>4 DEF HandleViolation, Handling, Shown
<1>5. CASE ScanRejects(c) \/ \E n \in Bead : WaitForPredecessor(c, n)
  <2>1. \E to \in {"mayor", "polecat"}, type \in Shown : Internal(sent + 1, to, type, b) \in inbox'
    BY <1>0, <1>5 DEF ScanRejects, WaitForPredecessor, Waiting, Gated, HandlerSends, SendInternal, Shown
  <2>2. PICK to \in {"mayor", "polecat"}, type \in Shown : Internal(sent + 1, to, type, b) \in inbox'
    BY <2>1
  <2> DEFINE g == Internal(sent + 1, to, type, b)
  <2>3. g \in inbox' /\ g.bead = b /\ g.type \in Shown
    BY <2>2 DEF Internal
  <2> HIDE DEF g
  <2> QED BY <2>3 DEF Trace, Shown
<1>6. ASSUME NEW p \in Polecat, NEW late \in BOOLEAN, ClaimPolecat(c, p, late) PROVE Trace(b)'
  <2>1. slotBead'[p] = b
    BY <1>0, <1>6 DEF ClaimPolecat, TypeOK
  <2> QED BY <2>1 DEF Trace
<1> QED BY <1>0, <1>1, <1>2, <1>3, <1>4, <1>5, <1>6, CycleRemoves

(* Poll cycles keep a trace of every dispatched bead. *)
LEMMA CycleTraces ==
  ASSUME TraceInv, Next, NEW c \in Cycle, CycleStep(c)
  PROVE  NoDispatchForgotten'
<1>0. TypeOK
  BY DEF TraceInv
<1> SUFFICES ASSUME spent'["drain"] + spent'["restart"] + spent'["unheard"] = 0,
                    NEW b \in Bead, Known(b)', dispatched'[b] > 0
             PROVE  Trace(b)'
  BY DEF NoDispatchForgotten
<1>1. CASE ~Known(b)
  BY <1>0, <1>1, KnownTraced
<1>2. CASE Known(b)
  <2>1. /\ spent["drain"] + spent["restart"] + spent["unheard"] = 0
        /\ ~Restart /\ ~ReportUnheard(c)
    BY <1>0, CalmBefore
  <2>2. spent["drain"] = 0
    BY <1>0, <2>1 DEF TypeOK, Event
  <2>3. UNCHANGED dispatched
    BY DEF CycleStep, StartPoll, NextMailbox, ReadConvoy, Reject, DropWhilePaused, AtCapacity,
       UnknownBead, PredecessorFailed, WaitForPredecessor, Waiting, WaitUnsent, ReuseCached,
       StartScan, PollAppends, PollLockTimeout, ReportBlocked, CloseConvoy, HandleViolation,
       ScanRejects, ReportUnheard, ScanFails, NoFreePolecat, ClaimPolecat, notPolled
  <2>4. Trace(b)
    BY <1>2, <2>1, <2>3 DEF TraceInv, NoDispatchForgotten
  <2>5. \A p \in Polecat : slotBead[p] = b => slotBead'[p] = b
    <3>1. ASSUME NEW q \in Polecat, NEW late \in BOOLEAN, ClaimPolecat(c, q, late)
          PROVE  slotBead[q] = NoBead /\ slotBead' = [slotBead EXCEPT ![q] = pollFile[c].bead]
      BY <1>0, <3>1 DEF ClaimPolecat, Busy, TypeOK
    <3>2. (\A q \in Polecat, late \in BOOLEAN : ~ClaimPolecat(c, q, late)) => UNCHANGED slotBead
      BY DEF CycleStep, StartPoll, NextMailbox, ReadConvoy, Reject, DropWhilePaused, AtCapacity,
         UnknownBead, PredecessorFailed, WaitForPredecessor, Waiting, WaitUnsent, ReuseCached,
         StartScan, PollAppends, PollLockTimeout, ReportBlocked, CloseConvoy, HandleViolation,
         ScanRejects, ReportUnheard, ScanFails, NoFreePolecat, notPolled, slotVars
    <3> QED BY <1>0, <3>1, <3>2, PlanAssumption DEF TypeOK
  <2> QED BY <1>0, <1>2, <2>1, <2>2, <2>4, <2>5, TraceStays, RemovedTraced
<1> QED BY <1>1, <1>2

(* What a poll cycle records before it reports or closes. *)
LEMMA CycleRecords ==
  ASSUME TraceInv, Next, NEW c \in Cycle, CycleStep(c),
         NEW d \in Cycle, pollPc'[d] \in {"reporting", "closing"}
  PROVE  Recorded(pollFile[d].bead)' /\ pollFile'[d] = pollFile[d]
<1>0. TypeOK
  BY DEF TraceInv
<1>1. pollFile'[d] = pollFile[d] /\ (pollPc'[d] = pollPc[d] \/ (PollAppends(c) /\ c = d))
  BY <1>0 DEF CycleStep, StartPoll, NextMailbox, ReadConvoy, Reject, DropWhilePaused, AtCapacity,
     UnknownBead, PredecessorFailed, WaitForPredecessor, Waiting, WaitUnsent, ReuseCached,
     StartScan, PollAppends, PollLockTimeout, ReportBlocked, CloseConvoy, HandleViolation,
     ScanRejects, ReportUnheard, ScanFails, NoFreePolecat, ClaimPolecat, HandlerReturns,
     HandlerSends, HandlerThrows, PutDown, Advance, TypeOK
<1>2. pollPc'[d] \notin {"idle", "draining"} /\ TypeOK'
  BY <1>0, NextType
<1>3. PICK n \in Bead : pollFile'[d].bead = n
  BY <1>2 DEF TypeOK, Convoy
<1>4. Recorded(n)'
  <2>1. CASE pollPc'[d] = pollPc[d]
    <3>1. Recorded(pollFile[d].bead)
      BY <2>1 DEF TraceInv
    <3> QED BY <1>0, <1>1, <1>3, <3>1, RecordsStay
  <2>2. CASE PollAppends(c) /\ c = d
    <3>1. \E status \in Status \ {"pending"}, outcome \in Outcome : appendBead(n, status, outcome)
      BY <1>1, <1>3, <2>2 DEF PollAppends, Status, Outcome
    <3> QED BY <1>0, <3>1, AppendRecords
  <2> QED BY <1>1, <2>1, <2>2
<1> QED BY <1>1, <1>3, <1>4

(* A slot is freed when its outcome is recorded, or being recorded.        *)
LEMMA PolecatTraces ==
  ASSUME TraceInv, Next, NEW p \in Polecat, PolecatStep(p)
  PROVE  /\ NoDispatchForgotten'
         /\ \A q \in Polecat :
              slotPc'[q] \in {"blocked", "succeeded", "failed"} => Recorded(slotBead[q])'
<1>0. TypeOK /\ (slotPc[p] # "idle" => slotBead[p] \in Bead)
  BY DEF TraceInv, TypeOK
<1>1. UNCHANGED <<dispatched, drain, pollVars>>
  BY DEF PolecatStep, SlotAppends, Infer, ReviewResult, Settle, Routed, RouteFails, SlotLockTimeout,
     notWorked
<1>2. \A f \in inbox \cup quarantine : f \in inbox' \cup quarantine'
  BY DEF PolecatStep, SlotAppends, Infer, ReviewResult, Settle, Routed, RouteFails, SlotLockTimeout,
     SendInternal, busVars
<1>3. \A q \in Polecat \ {p} : slotPc'[q] = slotPc[q] /\ slotBead'[q] = slotBead[q]
  BY <1>0 DEF PolecatStep, SlotAppends, Infer, ReviewResult, Settle, Routed, RouteFails,
     SlotLockTimeout, SlotMoves, FreeSlot, TypeOK
<1>4. NoDispatchForgotten'
  <2> SUFFICES ASSUME spent'["drain"] + spent'["restart"] + spent'["unheard"] = 0,
                      NEW b \in Bead, Known(b)', dispatched'[b] > 0
               PROVE  Trace(b)'
    BY DEF NoDispatchForgotten
  <2>1. CASE ~Known(b)
    BY <1>0, <2>1, KnownTraced
  <2>2. CASE Known(b)
    <3>1. spent["drain"] + spent["restart"] + spent["unheard"] = 0 /\ ~Restart
      BY <1>0, CalmBefore
    <3>2. Trace(b)
      BY <1>1, <2>2, <3>1 DEF TraceInv, NoDispatchForgotten
    <3>3. slotBead[p] = b => slotBead'[p] = b \/ Recorded(b)' \/ lateFail'[b] > 0
      <4> SUFFICES ASSUME slotBead[p] = b PROVE slotBead'[p] = b \/ Recorded(b)' \/ lateFail'[b] > 0
        OBVIOUS
      <4>1. CASE Settle(p)
        <5>1. Recorded(slotBead[p])
          BY <4>1 DEF Settle, TraceInv
        <5> QED BY <1>0, <5>1, RecordsStay
      <4>2. CASE SlotLockTimeout(p)
        <5>1. UNCHANGED slotBead \/ lateFail' = [lateFail EXCEPT ![b] = @ + 1]
          BY <4>2 DEF SlotLockTimeout, SlotMoves
        <5>2. lateFail \in [Bead -> Nat]
          BY <1>0 DEF TypeOK
        <5> QED BY <5>1, <5>2
      <4>3. CASE SlotAppends(p) \/ Infer(p) \/ ReviewResult(p)
        BY <4>3 DEF SlotAppends, Infer, ReviewResult, SlotMoves
      <4>4. CASE RouteFails(p)
        <5>1. Recorded(slotBead[p])
          BY <4>4 DEF RouteFails, TraceInv
        <5> QED BY <1>0, <5>1, RecordsStay
      <4> QED BY <4>1, <4>2, <4>3, <4>4 DEF PolecatStep
    <3> QED BY <1>0, <1>2, <1>3, <3>1, <3>2, <3>3, TraceStays
  <2> QED BY <2>1, <2>2
<1>5. ASSUME NEW q \in Polecat, slotPc'[q] \in {"blocked", "succeeded", "failed"}
      PROVE  Recorded(slotBead[q])'
  <2>1. slotBead'[q] = slotBead[q] /\ slotBead[q] \in Bead
    BY <1>0, <1>3, <1>5 DEF PolecatStep, SlotAppends, Infer, ReviewResult, Settle, Routed,
       RouteFails, SlotLockTimeout, SlotMoves, FreeSlot, TypeOK
  <2>2. PICK n \in Bead : slotBead'[q] = n
    BY <2>1
  <2>3. Recorded(n)'
    <3>1. CASE slotPc[q] \in {"blocked", "succeeded", "failed"}
      <4>1. Recorded(slotBead[q])
        BY <3>1 DEF TraceInv
      <4> QED BY <1>0, <2>1, <2>2, <4>1, RecordsStay
    <3>2. CASE slotPc[q] \notin {"blocked", "succeeded", "failed"}
      <4>1. q = p /\ SlotAppends(p)
        BY <1>0, <1>3, <1>5, <3>2 DEF PolecatStep, Infer, ReviewResult, Settle, Routed, RouteFails,
           SlotLockTimeout, SlotMoves, FreeSlot, TypeOK
      <4>2. \E status \in Status \ {"pending"}, outcome \in Outcome : appendBead(n, status, outcome)
        BY <2>1, <2>2, <4>1 DEF SlotAppends, Status, Outcome
      <4> QED BY <1>0, <4>2, AppendRecords
    <3> QED BY <3>1, <3>2
  <2> QED BY <2>2, <2>3
<1> QED BY <1>4, <1>5

(* The environment, the Mayor and the heartbeat only add files, and a      *)
(* dispatch is a trace of its own.                                         *)
LEMMA EnvironmentTraces ==
  ASSUME TraceInv, Next, DrainBegins \/ DrainEnds \/ \E b \in Bead : BeadStep(b)
  PROVE  NoDispatchForgotten'
<1>0. TypeOK
  BY DEF TraceInv
<1>1. UNCHANGED slotBead
  BY DEF DrainBegins, DrainEnds, BeadStep, Dispatch, ReportViolation, BackgroundScan, LateFail,
     handleStall, handleDeadlock, slotVars
<1>2. \A f \in inbox \cup quarantine : f \in inbox' \cup quarantine'
  BY DEF DrainBegins, DrainEnds, BeadStep, Dispatch, ReportViolation, BackgroundScan, LateFail,
     handleStall, handleDeadlock, SendInternal, busVars
<1> SUFFICES ASSUME spent'["drain"] + spent'["restart"] + spent'["unheard"] = 0,
                    NEW b \in Bead, Known(b)', dispatched'[b] > 0
             PROVE  Trace(b)'
  BY DEF NoDispatchForgotten
<1>3. CASE ~Known(b)
  BY <1>0, <1>3, KnownTraced
<1>4. CASE Dispatch(b)
  <2> DEFINE f == Signed("polecat", "mayor", "BEAD_DISPATCH", b)
  <2>1. f.bead = b /\ f.type \in Shown
    BY DEF Signed, Shown
  <2>2. f \in inbox'
    BY <1>4 DEF Dispatch
  <2> HIDE DEF f
  <2> QED BY <2>1, <2>2 DEF Trace, Shown
<1>5. CASE Known(b) /\ ~Dispatch(b)
  <2>1. spent["drain"] + spent["restart"] + spent["unheard"] = 0 /\ ~Restart
    BY <1>0, CalmBefore
  <2>2. dispatched[b] > 0
    <3>1. \/ UNCHANGED dispatched
          \/ \E n \in Bead \ {b} : dispatched' = [dispatched EXCEPT ![n] = @ + 1]
      BY <1>5 DEF DrainBegins, DrainEnds, BeadStep, Dispatch, ReportViolation, BackgroundScan,
         LateFail, handleStall, handleDeadlock
    <3>2. dispatched \in [Bead -> Nat]
      BY <1>0 DEF TypeOK
    <3> QED BY <3>1, <3>2
  <2>3. Trace(b)
    BY <1>5, <2>1, <2>2 DEF TraceInv, NoDispatchForgotten
  <2> QED BY <1>0, <1>1, <1>2, <2>1, <2>3, TraceStays
<1> QED BY <1>3, <1>4, <1>5

(* A pause is a drain that was paid for. *)
LEMMA PauseSpent ==
  ASSUME TypeOK, Next, drain # "off" => spent["drain"] > 0, drain' # "off"
  PROVE  spent'["drain"] > 0
<1>1. spent'["drain"] >= spent["drain"] /\ spent["drain"] \in Nat /\ spent'["drain"] \in Nat
  <2>1. spent' \in [Event -> Nat] /\ "drain" \in Event
    BY NextType DEF TypeOK, Event
  <2> QED BY <2>1, SpentGrows
<1>2. CASE DrainBegins
  BY <1>2 DEF DrainBegins, Spend, TypeOK, Event
<1>3. CASE ~DrainBegins
  <2>1. drain # "off"
    BY <1>3 DEF Next, DrainEnds, Restart, BeadStep, Dispatch, ReportViolation, BackgroundScan,
       LateFail, handleStall, handleDeadlock, PolecatStep, SlotAppends, Infer, ReviewResult, Settle,
       Routed, RouteFails, SlotLockTimeout, notWorked, CycleStep, StartPoll, NextMailbox,
       ReadConvoy, Reject, DropWhilePaused, AtCapacity, UnknownBead, PredecessorFailed,
       WaitForPredecessor, Waiting, WaitUnsent, ReuseCached, StartScan, PollAppends,
       PollLockTimeout, ReportBlocked, CloseConvoy, HandleViolation, ScanRejects, ReportUnheard,
       ScanFails, NoFreePolecat, ClaimPolecat, notPolled
  <2> QED BY <1>1, <2>1
<1> QED BY <1>2, <1>3

(* Every step leaves a trace of every dispatched bead. *)
LEMMA NextTraces == TraceInv /\ [Next]_vars => TraceInv'
<1>1. CASE UNCHANGED vars
  BY <1>1 DEF vars, busVars, logVars, pollVars, slotVars, TraceInv, TypeOK, NoDispatchForgotten,
     Trace, Known, Recorded
<1>2. ASSUME TraceInv, Next PROVE TraceInv'
  <2>0. TypeOK
    BY <1>2 DEF TraceInv
  <2>1. TypeOK' /\ (drain' # "off" => spent'["drain"] > 0)
    BY <1>2, <2>0, NextType, PauseSpent DEF TraceInv
  <2>2. CASE Restart
    <3>1. spent'["restart"] > 0 /\ spent' \in [Event -> Nat]
      BY <2>0, <2>1, <2>2 DEF Restart, Spend, TypeOK, Event
    <3>2. NoDispatchForgotten'
      BY <3>1 DEF NoDispatchForgotten, Event
    <3> QED BY <2>1, <2>2, <3>2 DEF TraceInv, Restart
  <2>3. ASSUME UNCHANGED <<pollPc, pollFile>>,
               NEW c \in Cycle, pollPc'[c] \in {"reporting", "closing"}
        PROVE  Recorded(pollFile[c].bead)'
    <3>1. PICK n \in Bead : pollFile[c].bead = n
      BY <2>0, <2>3, InHand
    <3>2. Recorded(pollFile[c].bead)
      BY <1>2, <2>3 DEF TraceInv
    <3>3. Recorded(n)'
      BY <1>2, <2>0, <3>1, <3>2, RecordsStay
    <3> QED BY <2>3, <3>1, <3>3
  <2>4. ASSUME NEW p \in Polecat, slotPc'[p] = slotPc[p], slotBead'[p] = slotBead[p],
               slotPc'[p] \in {"blocked", "succeeded", "failed"}
        PROVE  Recorded(slotBead[p])'
    <3>1. PICK n \in Bead : slotBead[p] = n
      BY <2>0, <2>4 DEF TypeOK
    <3>2. Recorded(slotBead[p])
      BY <1>2, <2>4 DEF TraceInv
    <3>3. Recorded(n)'
      BY <1>2, <2>0, <3>1, <3>2, RecordsStay
    <3> QED BY <2>4, <3>1, <3>3
  <2>5. CASE DrainBegins \/ DrainEnds \/ \E b \in Bead : BeadStep(b)
    <3>1. UNCHANGED <<pollPc, pollFile, slotPc, slotBead>>
      BY <2>5 DEF DrainBegins, DrainEnds, BeadStep, Dispatch, ReportViolation, BackgroundScan, LateFail,
         handleStall, handleDeadlock, pollVars, slotVars
    <3> QED BY <1>2, <2>1, <2>3, <2>4, <2>5, <3>1, EnvironmentTraces DEF TraceInv
  <2>6. ASSUME NEW p \in Polecat, PolecatStep(p) PROVE TraceInv'
    <3>1. UNCHANGED <<pollPc, pollFile>>
      BY <2>6 DEF PolecatStep, SlotAppends, Infer, ReviewResult, Settle, Routed, RouteFails,
         SlotLockTimeout, notWorked, pollVars
    <3> QED BY <1>2, <2>1, <2>3, <2>6, <3>1, PolecatTraces DEF TraceInv
  <2>7. ASSUME NEW c \in Cycle, CycleStep(c) PROVE TraceInv'
    <3>1. \A p \in Polecat : \/ slotPc'[p] = slotPc[p] /\ slotBead'[p] = slotBead[p]
                             \/ slotPc'[p] \in {"marking", "blocking"}
      BY <2>0, <2>7 DEF CycleStep, StartPoll, NextMailbox, ReadConvoy, Reject, DropWhilePaused,
         AtCapacity, UnknownBead, PredecessorFailed, WaitForPredecessor, Waiting, WaitUnsent,
         ReuseCached, StartScan, PollAppends, PollLockTimeout, ReportBlocked, CloseConvoy,
         HandleViolation, ScanRejects, ReportUnheard, ScanFails, NoFreePolecat, ClaimPolecat,
         notPolled, slotVars, TypeOK
    <3> QED BY <1>2, <2>1, <2>4, <2>7, <3>1, CycleRecords, CycleTraces DEF TraceInv
  <2> QED BY <1>2, <2>2, <2>5, <2>6, <2>7 DEF Next
<1> QED BY <1>1, <1>2

(* A dispatched bead the ledger knows never vanishes: whatever polls,      *)
(* gates, scans, lock timeouts and stalls do with its convoy               *)
(* (handleBeadDispatch, processInbox and the settling of a slot in         *)
(* worker-loop.ts), something still shows it.                              *)
THEOREM NothingForgotten == Spec => []NoDispatchForgotten
<1>1. Init => TraceInv
  <2> SUFFICES ASSUME Init PROVE TraceInv
    OBVIOUS
  <2>1. NoDispatchForgotten
    BY DEF Init, NoDispatchForgotten
  <2> QED BY <2>1, InitType DEF Init, TraceInv
<1>2. TraceInv => NoDispatchForgotten
  BY DEF TraceInv
<1> QED BY <1>1, <1>2, NextTraces, PTL DEF Spec

-----------------------------------------------------------------------------
(* Poll cycles one at a time.  While no poll started before the previous   *)
(* one had ended, the convoy in hand is still in its mailbox; that it is a *)
(* signed dispatch past the validation holds with overlapping polls too.   *)

HandlerPc == {"scanning", "failing", "caching", "reporting"}

SerialInv ==
  /\ TypeOK
  /\ \A c \in Cycle : pollPc[c] \in HandlerPc =>
       pollFile[c].type = "BEAD_DISPATCH" /\ pollFile[c].signed
  /\ \A c \in Cycle : pollPc[c] = "violating" => pollFile[c].type = "SECURITY_VIOLATION"
  /\ spent["overlap"] = 0 =>
       /\ \A c, d \in Cycle : c # d => pollPc[c] = "idle" \/ pollPc[d] = "idle"
       /\ \A c \in Cycle : pollPc[c] \notin {"idle", "draining"} => pollFile[c] \in inbox

(* What a poll cycle awaits next, and with which convoy in hand. *)
Hands(c) ==
  /\ \A d \in Cycle \ {c} : pollPc'[d] = pollPc[d] /\ pollFile'[d] = pollFile[d]
  /\ \/ pollPc'[c] \in {"idle", "draining"}
     \/ pollPc'[c] = "validating" /\ pollFile'[c] \in inbox /\ UNCHANGED inbox
     \/ /\ pollPc[c] \notin {"idle", "draining"}
        /\ pollFile'[c] = pollFile[c] /\ UNCHANGED inbox
        /\ pollPc'[c] \in HandlerPc =>
             \/ pollPc[c] \in HandlerPc
             \/ pollFile[c].type = "BEAD_DISPATCH" /\ pollFile[c].signed
        /\ pollPc'[c] = "violating" => pollFile[c].type = "SECURITY_VIOLATION"
  /\ pollPc[c] = "idle" => StartPoll(c)

(* A convoy comes in hand from the mailbox, and a handler keeps the one    *)
(* whose signature was verified.                                           *)
LEMMA CycleHands ==
  ASSUME TypeOK, NEW c \in Cycle, CycleStep(c)
  PROVE  Hands(c)
<1> USE DEF Hands
<1>1. CASE StartPoll(c) \/ NextMailbox(c)
  BY <1>1 DEF StartPoll, NextMailbox, Advance, TypeOK
<1>2. ASSUME NEW f \in pollTodo[c], ReadConvoy(c, f) PROVE Hands(c)
  BY <1>2 DEF ReadConvoy, Advance, TypeOK, busVars
<1>3. CASE \/ Reject(c) \/ DropWhilePaused(c) \/ AtCapacity(c) \/ UnknownBead(c)
           \/ PollLockTimeout(c) \/ ReportBlocked(c) \/ CloseConvoy(c) \/ ReportUnheard(c)
           \/ ScanRejects(c) \/ ScanFails(c) \/ NoFreePolecat(c)
           \/ \E b \in Bead : WaitForPredecessor(c, b) \/ WaitUnsent(c, b)
           \/ \E p \in Polecat, late \in BOOLEAN : ClaimPolecat(c, p, late)
  BY <1>3 DEF Reject, DropWhilePaused, AtCapacity, UnknownBead, PollLockTimeout, ReportBlocked,
     CloseConvoy, ReportUnheard, ScanRejects, ScanFails, NoFreePolecat, WaitForPredecessor,
     WaitUnsent, Waiting, ClaimPolecat, HandlerReturns, HandlerSends, HandlerThrows, PutDown,
     Advance, Accepting, Admitted, Gated, Handling, Writing, TypeOK
<1>4. ASSUME NEW b \in Bead, PredecessorFailed(c, b) \/ ReuseCached(c, b) \/ StartScan(c, b)
      PROVE  Hands(c)
  BY <1>4 DEF PredecessorFailed, ReuseCached, StartScan, Ready, Gated, Admitted, Accepting, Handling,
     validateConvoy, verifyConvoy, Advance, TypeOK, busVars
<1>5. CASE PollAppends(c)
  BY <1>5 DEF PollAppends, Advance, TypeOK, busVars, HandlerPc
<1>6. CASE HandleViolation(c)
  BY <1>6 DEF HandleViolation, Handling, HandlerReturns, PutDown, Advance, TypeOK, busVars, HandlerPc
<1> QED BY <1>1, <1>2, <1>3, <1>4, <1>5, <1>6 DEF CycleStep

(* An event that has not happened had not happened before. *)
LEMMA NotBefore ==
  ASSUME TypeOK, Next, NEW e \in Event, spent'[e] = 0
  PROVE  spent[e] = 0
BY SpentGrows

(* Only poll cycles and crashes touch what is in hand; others add files.   *)
LEMMA OthersHands ==
  ASSUME TypeOK,
         \/ DrainBegins \/ DrainEnds
         \/ \E p \in Polecat : PolecatStep(p)
         \/ \E b \in Bead : BeadStep(b)
  PROVE  UNCHANGED pollVars /\ inbox \subseteq inbox'
<1>1. CASE DrainBegins \/ DrainEnds
  BY <1>1 DEF DrainBegins, DrainEnds, busVars
<1>2. ASSUME NEW p \in Polecat, PolecatStep(p) PROVE UNCHANGED pollVars /\ inbox \subseteq inbox'
  BY <1>2 DEF PolecatStep, SlotAppends, Infer, ReviewResult, Settle, Routed, RouteFails,
     SlotLockTimeout, SendInternal, notWorked, busVars
<1>3. ASSUME NEW b \in Bead, BeadStep(b) PROVE UNCHANGED pollVars /\ inbox \subseteq inbox'
  BY <1>3 DEF BeadStep, Dispatch, ReportViolation, BackgroundScan, LateFail, handleStall,
     handleDeadlock, SendInternal, busVars
<1> QED BY <1>1, <1>2, <1>3

(* A poll cycle that starts beside another one is an overlap. *)
LEMMA StartsAlone ==
  ASSUME TypeOK, Next, NEW c \in Cycle, StartPoll(c), spent'["overlap"] = 0
  PROVE  \A d \in Cycle : pollPc[d] = "idle"
<1>1. ASSUME ~\A d \in Cycle : pollPc[d] = "idle" PROVE FALSE
  <2>1. Spend("overlap")
    BY <1>1 DEF StartPoll
  <2>2. spent["overlap"] \in Nat /\ spent \in [Event -> Nat] /\ "overlap" \in Event
    BY DEF TypeOK, Event
  <2>3. spent'["overlap"] = spent["overlap"] + 1
    BY <2>1, <2>2 DEF Spend
  <2> QED BY <2>2, <2>3
<1> QED BY <1>1

(* So the convoy in hand stays in its mailbox until its handler is done. *)
LEMMA NextSerial == SerialInv /\ [Next]_vars => SerialInv'
<1>1. CASE UNCHANGED vars
  BY <1>1 DEF vars, busVars, logVars, pollVars, slotVars, SerialInv, TypeOK
<1>2. ASSUME SerialInv, Next PROVE SerialInv'
  <2>0. TypeOK /\ TypeOK'
    BY <1>2, NextType DEF SerialInv
  <2>1. CASE Restart
    BY <2>0, <2>1 DEF Restart, SerialInv, HandlerPc
  <2>2. spent'["overlap"] = 0 => spent["overlap"] = 0
    BY <1>2, <2>0, NotBefore DEF Event
  <2>3. CASE \/ DrainBegins \/ DrainEnds
             \/ \E p \in Polecat : PolecatStep(p)
             \/ \E b \in Bead : BeadStep(b)
    <3>1. UNCHANGED <<pollPc, pollFile>> /\ inbox \subseteq inbox'
      BY <2>0, <2>3, OthersHands DEF pollVars
    <3> QED BY <1>2, <2>0, <2>2, <3>1 DEF SerialInv
  <2>4. ASSUME NEW c \in Cycle, CycleStep(c) PROVE SerialInv'
    <3>1. Hands(c)
      BY <2>0, <2>4, CycleHands
    <3>2. \A d \in Cycle : pollPc'[d] \in HandlerPc =>
            pollFile'[d].type = "BEAD_DISPATCH" /\ pollFile'[d].signed
      BY <1>2, <2>0, <3>1 DEF Hands, SerialInv, HandlerPc
    <3>3. \A d \in Cycle : pollPc'[d] = "violating" => pollFile'[d].type = "SECURITY_VIOLATION"
      BY <1>2, <2>0, <3>1 DEF Hands, SerialInv
    <3>4. ASSUME spent'["overlap"] = 0
          PROVE  /\ \A d, e \in Cycle : d # e => pollPc'[d] = "idle" \/ pollPc'[e] = "idle"
                 /\ \A d \in Cycle : pollPc'[d] \notin {"idle", "draining"} => pollFile'[d] \in inbox'
      <4>1. \A d \in Cycle \ {c} : pollPc[d] = "idle"
        <5>1. CASE pollPc[c] = "idle"
          BY <1>2, <2>0, <3>1, <3>4, <5>1, StartsAlone DEF Hands
        <5>2. CASE pollPc[c] # "idle"
          BY <1>2, <2>2, <3>4, <5>2 DEF SerialInv
        <5> QED BY <5>1, <5>2
      <4>2. \A d \in Cycle \ {c} : pollPc'[d] = "idle"
        BY <3>1, <4>1 DEF Hands
      <4>3. pollPc'[c] \notin {"idle", "draining"} => pollFile'[c] \in inbox'
        BY <1>2, <2>2, <3>1, <3>4 DEF Hands, SerialInv
      <4> QED BY <4>2, <4>3
    <3> QED BY <2>0, <3>2, <3>3, <3>4 DEF SerialInv
  <2> QED BY <1>2, <2>1, <2>3, <2>4 DEF Next
<1> QED BY <1>1, <1>2

(* What poll cycles have in hand is there, and was verified. *)
LEMMA Serial == Spec => []SerialInv
<1>1. Init => SerialInv
  <2> SUFFICES ASSUME Init PROVE SerialInv
    OBVIOUS
  <2>1. TypeOK /\ \A c \in Cycle : pollPc[c] = "idle"
    BY InitType DEF Init
  <2> QED BY <2>1 DEF SerialInv, HandlerPc
<1> QED BY <1>1, NextSerial, PTL DEF Spec

-----------------------------------------------------------------------------
(* Counting the work the Mayor ordered. *)

(* Part of a finite set, one element less, one element more. *)
LEMMA FewerCount ==
  ASSUME NEW T, IsFiniteSet(T), NEW S, S \subseteq T
  PROVE  /\ IsFiniteSet(S) /\ Cardinality(S) \in Nat /\ Cardinality(T) \in Nat
         /\ Cardinality(S) <= Cardinality(T)
BY FS_Subset, FS_CardinalityType

(* The same with an element left out. *)
LEMMA OneLess ==
  ASSUME NEW T, IsFiniteSet(T), NEW x \in T, NEW S, S \subseteq T \ {x}
  PROVE  /\ IsFiniteSet(S) /\ Cardinality(S) \in Nat /\ Cardinality(T) \in Nat
         /\ Cardinality(S) + 1 <= Cardinality(T)
<1>1. IsFiniteSet(T \ {x}) /\ Cardinality(T \ {x}) = Cardinality(T) - 1
  BY FS_RemoveElement
<1>2. Cardinality(S) <= Cardinality(T \ {x}) /\ IsFiniteSet(S)
  BY <1>1, FS_Subset
<1> QED BY <1>1, <1>2, FS_CardinalityType

(* The same with an element added. *)
LEMMA OneMore ==
  ASSUME NEW T, IsFiniteSet(T), NEW x, NEW S, S \subseteq T \cup {x}
  PROVE  /\ IsFiniteSet(S) /\ Cardinality(S) \in Nat /\ Cardinality(T) \in Nat
         /\ Cardinality(S) <= Cardinality(T) + 1
<1>1. IsFiniteSet(T \cup {x})
  BY FS_AddElement
<1>2. Cardinality(T \cup {x}) <= Cardinality(T) + 1 /\ Cardinality(T) \in Nat
  <2>1. Cardinality(T) \in Nat
    BY FS_CardinalityType
  <2>2. Cardinality(T \cup {x}) = IF x \in T THEN Cardinality(T) ELSE Cardinality(T) + 1
    BY FS_AddElement
  <2> QED BY <2>1, <2>2
<1>3. Cardinality(S) <= Cardinality(T \cup {x}) /\ IsFiniteSet(S) /\ Cardinality(S) \in Nat
  BY <1>1, FS_Subset, FS_CardinalityType
<1>4. Cardinality(T \cup {x}) \in Nat
  BY <1>1, FS_CardinalityType
<1> QED BY <1>2, <1>3, <1>4

(* The convoys with which the Mayor orders work on b. *)
Ordering(f, b) == f.type = "BEAD_DISPATCH" /\ f.signed /\ f.bead = b
Orders(b) == {f \in inbox : Ordering(f, b)}

(* The runtime's own convoys are no orders. *)
LEMMA InternalNoOrder ==
  ASSUME NEW n, NEW to, NEW type, NEW b, NEW m
  PROVE  ~Ordering(Internal(n, to, type, b), m)
BY DEF Internal, Ordering

(* Only the Mayor adds an order, one at a time. *)
LEMMA OrdersArrive ==
  ASSUME TypeOK, Next, NEW b \in Bead
  PROVE  \/ Orders(b)' \subseteq Orders(b)
         \/ Dispatch(b) /\ \E x : Orders(b)' \subseteq Orders(b) \cup {x}
<1>0. Orders(b)' = {f \in inbox' : Ordering(f, b)}
  BY DEF Orders
<1>1. ASSUME inbox' \subseteq inbox PROVE Orders(b)' \subseteq Orders(b)
  BY <1>0, <1>1 DEF Orders
<1>2. ASSUME NEW to, NEW type, NEW m, NEW files, files \subseteq inbox,
             SendInternal(files, to, type, m)
      PROVE  Orders(b)' \subseteq Orders(b)
  BY <1>0, <1>2, InternalNoOrder DEF SendInternal, Orders
<1>3. ASSUME NEW n \in Bead, BeadStep(n)
      PROVE  \/ Orders(b)' \subseteq Orders(b)
             \/ Dispatch(b) /\ \E x : Orders(b)' \subseteq Orders(b) \cup {x}
  <2>1. CASE Dispatch(n)
    <3>1. inbox' = inbox \cup {Signed("polecat", "mayor", "BEAD_DISPATCH", n)}
      BY <2>1 DEF Dispatch
    <3>2. Orders(b)' \subseteq Orders(b) \cup {Signed("polecat", "mayor", "BEAD_DISPATCH", n)}
      BY <1>0, <3>1 DEF Orders
    <3>3. n # b => ~Ordering(Signed("polecat", "mayor", "BEAD_DISPATCH", n), b)
      BY DEF Ordering, Signed
    <3>4. CASE n = b
      BY <2>1, <3>2, <3>4
    <3>5. CASE n # b
      BY <1>0, <3>1, <3>3, <3>5 DEF Orders
    <3> QED BY <3>4, <3>5
  <2>2. CASE ReportViolation(n)
    <3>1. inbox' = inbox \cup {Signed("mayor", "safeguard", "SECURITY_VIOLATION", n)}
      BY <2>2 DEF ReportViolation
    <3>2. ~Ordering(Signed("mayor", "safeguard", "SECURITY_VIOLATION", n), b)
      BY DEF Ordering, Signed
    <3> QED BY <1>0, <3>1, <3>2 DEF Orders
  <2>3. CASE BackgroundScan(n) \/ handleStall(n)
    <3>1. inbox' = inbox \/ \E to, type : SendInternal(inbox, to, type, n)
      BY <2>3 DEF BackgroundScan, handleStall, busVars
    <3> QED BY <1>1, <1>2, <3>1
  <2>4. CASE LateFail(n)
    BY <1>1, <2>4 DEF LateFail, busVars
  <2>5. ASSUME NEW told \in BOOLEAN, NEW requeued \in BOOLEAN, handleDeadlock(n, told, requeued)
        PROVE  Orders(b)' \subseteq Orders(b)
    <3>1. \A f \in inbox' : f \in inbox \/ \E k, to, type : f = Internal(k, to, type, n)
      BY <2>5 DEF handleDeadlock
    <3> QED BY <1>0, <3>1, InternalNoOrder DEF Orders
  <2> QED BY <1>3, <2>1, <2>2, <2>3, <2>4, <2>5 DEF BeadStep
<1>4. CASE DrainBegins \/ DrainEnds \/ Restart
  BY <1>1, <1>4 DEF DrainBegins, DrainEnds, Restart, busVars
<1>5. ASSUME NEW p \in Polecat, PolecatStep(p) PROVE Orders(b)' \subseteq Orders(b)
  <2>1. inbox' = inbox \/ SendInternal(inbox, "witness", "PATCH_READY", slotBead[p])
    BY <1>5 DEF PolecatStep, SlotAppends, Infer, ReviewResult, Settle, Routed, RouteFails,
       SlotLockTimeout, busVars
  <2> QED BY <1>1, <1>2, <2>1
<1>6. ASSUME NEW c \in Cycle, CycleStep(c) PROVE Orders(b)' \subseteq Orders(b)
  <2>1. Others(c) \subseteq inbox
    BY DEF Others
  <2>2. ASSUME NEW n \in Bead, WaitForPredecessor(c, n) PROVE Orders(b)' \subseteq Orders(b)
    BY <1>2, <2>1, <2>2 DEF WaitForPredecessor, HandlerSends
  <2>3. CASE ReportBlocked(c) \/ ScanRejects(c)
    BY <1>2, <2>1, <2>3 DEF ReportBlocked, ScanRejects, HandlerSends
  <2>4. CASE ~ReportBlocked(c) /\ ~ScanRejects(c) /\ \A n \in Bead : ~WaitForPredecessor(c, n)
    <3>1. inbox' \subseteq inbox
      BY <1>6, <2>1, <2>4 DEF CycleStep, StartPoll, NextMailbox, ReadConvoy, Reject, DropWhilePaused,
         AtCapacity, UnknownBead, PredecessorFailed, WaitUnsent, ReuseCached, StartScan,
         PollAppends, PollLockTimeout, CloseConvoy, HandleViolation, ReportUnheard, ScanFails,
         NoFreePolecat, ClaimPolecat, HandlerReturns, HandlerThrows, Quarantine, busVars
    <3> QED BY <1>1, <3>1
  <2> QED BY <2>2, <2>3, <2>4
<1> QED BY <1>3, <1>4, <1>5, <1>6 DEF Next

(* Orders stay finitely many. *)
LEMMA OrdersFinite ==
  ASSUME TypeOK, Next, NEW b \in Bead, IsFiniteSet(Orders(b))
  PROVE  IsFiniteSet(Orders(b))'
<1>1. IsFiniteSet(Orders(b)')
  <2>1. CASE Orders(b)' \subseteq Orders(b)
    BY <2>1, FewerCount
  <2>2. ASSUME NEW x, Orders(b)' \subseteq Orders(b) \cup {x} PROVE IsFiniteSet(Orders(b)')
    BY <2>2, OneMore
  <2> QED BY <2>1, <2>2, OrdersArrive
<1> QED BY <1>1

(* A dispatch counts for its bead only. *)
LEMMA DispatchCounts ==
  ASSUME TypeOK, Next, NEW b \in Bead
  PROVE  /\ dispatched[b] \in Nat /\ dispatched'[b] >= dispatched[b] /\ dispatched'[b] \in Nat
         /\ Dispatch(b) => dispatched'[b] = dispatched[b] + 1
<1>1. dispatched \in [Bead -> Nat]
  BY DEF TypeOK
<1>2. UNCHANGED dispatched \/ \E n \in Bead : Dispatch(n)
  BY DEF Next, DrainBegins, DrainEnds, Restart, BeadStep, ReportViolation, BackgroundScan, LateFail,
     handleStall, handleDeadlock, PolecatStep, SlotAppends, Infer, ReviewResult, Settle, Routed,
     RouteFails, SlotLockTimeout, notWorked, CycleStep, StartPoll, NextMailbox, ReadConvoy, Reject,
     DropWhilePaused, AtCapacity, UnknownBead, PredecessorFailed, WaitForPredecessor, Waiting,
     WaitUnsent, ReuseCached, StartScan, PollAppends, PollLockTimeout, ReportBlocked, CloseConvoy,
     HandleViolation, ScanRejects, ReportUnheard, ScanFails, NoFreePolecat, ClaimPolecat, notPolled
<1>3. ASSUME NEW n \in Bead, Dispatch(n) PROVE dispatched' = [dispatched EXCEPT ![n] = @ + 1]
  BY <1>3 DEF Dispatch
<1> QED BY <1>1, <1>2, <1>3

(* A slot changes its bead when it is freed, and when a cycle claims it.    *)
LEMMA SlotsClaimed ==
  ASSUME TypeOK, Next, NEW p \in Polecat,
         ~\E c \in Cycle, late \in BOOLEAN : CycleStep(c) /\ ClaimPolecat(c, p, late)
  PROVE  slotBead'[p] = slotBead[p] \/ slotBead'[p] = NoBead
<1>1. CASE DrainBegins \/ DrainEnds \/ Restart
  BY <1>1 DEF DrainBegins, DrainEnds, Restart, slotVars
<1>2. CASE \E b \in Bead : BeadStep(b)
  BY <1>2 DEF BeadStep, Dispatch, ReportViolation, BackgroundScan, LateFail, handleStall,
     handleDeadlock, slotVars
<1>3. CASE \E q \in Polecat : PolecatStep(q)
  BY <1>3 DEF PolecatStep, SlotAppends, Infer, ReviewResult, Settle, Routed, RouteFails,
     SlotLockTimeout, SlotMoves, FreeSlot, TypeOK
<1>4. ASSUME NEW c \in Cycle, CycleStep(c) PROVE slotBead'[p] = slotBead[p]
  <2>1. ASSUME NEW q \in Polecat, NEW late \in BOOLEAN, ClaimPolecat(c, q, late)
        PROVE  slotBead'[p] = slotBead[p]
    <3>1. q # p
      BY <1>4, <2>1
    <3> QED BY <2>1, <3>1 DEF ClaimPolecat, TypeOK
  <2>2. CASE \A q \in Polecat, late \in BOOLEAN : ~ClaimPolecat(c, q, late)
    BY <1>4, <2>2 DEF CycleStep, StartPoll, NextMailbox, ReadConvoy, Reject, DropWhilePaused,
       AtCapacity, UnknownBead, PredecessorFailed, WaitForPredecessor, Waiting, WaitUnsent,
       ReuseCached, StartScan, PollAppends, PollLockTimeout, ReportBlocked, CloseConvoy,
       HandleViolation, ScanRejects, ReportUnheard, ScanFails, NoFreePolecat, notPolled, slotVars
  <2> QED BY <2>1, <2>2
<1> QED BY <1>1, <1>2, <1>3, <1>4 DEF Next

(* A claim turns an order in the mailbox into a busy slot. *)
LEMMA ClaimTakesOrder ==
  ASSUME SerialInv, spent["overlap"] = 0,
         NEW c \in Cycle, NEW p \in Polecat, NEW late \in BOOLEAN, ClaimPolecat(c, p, late),
         NEW b \in Bead, pollFile[c].bead = b
  PROVE  /\ pollFile[c] \in Orders(b)
         /\ Orders(b)' = Orders(b) \ {pollFile[c]}
         /\ p \notin Busy /\ slotBead[p] = NoBead
         /\ slotBead' = [slotBead EXCEPT ![p] = b]
         /\ slotPc'[p] \in {"marking", "blocking"}
         /\ \A q \in Polecat \ {p} : slotPc'[q] = slotPc[q]
<1>1. /\ pollPc[c] = "scanning" /\ inbox' = inbox \ {pollFile[c]}
      /\ p \notin Busy /\ slotBead' = [slotBead EXCEPT ![p] = b]
      /\ slotPc' = [slotPc EXCEPT ![p] = IF PrerequisitesMet(b) THEN "marking" ELSE "blocking"]
  BY DEF ClaimPolecat, HandlerReturns, Others
<1>2. pollFile[c] \in inbox /\ Ordering(pollFile[c], b)
  BY <1>1 DEF SerialInv, HandlerPc, Ordering
<1>3. Orders(b)' = {f \in inbox' : Ordering(f, b)}
  BY DEF Orders
<1>4. slotBead[p] = NoBead /\ slotPc \in [Polecat -> SlotPc]
  BY <1>1 DEF SerialInv, TypeOK, Busy
<1> QED BY <1>1, <1>2, <1>3, <1>4 DEF Orders

-----------------------------------------------------------------------------
(* Twins.  An order is in a mailbox or in a slot, never in both: what is   *)
(* counted is the orders and the slots of a bead together.                 *)

TwinInv ==
  /\ SerialInv
  /\ \A b \in Bead : IsFiniteSet(Orders(b))
  /\ spent["overlap"] = 0 =>
       \A b \in Bead : Cardinality(Orders(b)) + Cardinality(Slots(b)) <= dispatched[b]

(* The slots of a bead can be counted. *)
LEMMA SlotsFinite ==
  ASSUME NEW b
  PROVE  IsFiniteSet(Slots(b))
BY SizeAssumption, FS_Subset DEF Slots

(* No step makes more of an order. *)
LEMMA TwinStep ==
  ASSUME TwinInv, Next, spent["overlap"] = 0, NEW b \in Bead
  PROVE  Cardinality(Orders(b)') + Cardinality(Slots(b)') <= dispatched'[b]
<1>0. /\ TypeOK /\ SerialInv /\ IsFiniteSet(Orders(b)) /\ IsFiniteSet(Slots(b))
      /\ Cardinality(Orders(b)) + Cardinality(Slots(b)) <= dispatched[b]
  BY SlotsFinite DEF TwinInv, SerialInv
<1>1. /\ dispatched[b] \in Nat /\ dispatched'[b] >= dispatched[b] /\ dispatched'[b] \in Nat
      /\ Dispatch(b) => dispatched'[b] = dispatched[b] + 1
  BY <1>0, DispatchCounts
<1>2. Slots(b)' = {p \in Polecat : slotBead'[p] = b}
  BY DEF Slots
<1>3. ASSUME NEW c \in Cycle, NEW p \in Polecat, NEW late \in BOOLEAN, CycleStep(c),
             ClaimPolecat(c, p, late), pollFile[c].bead = b
      PROVE  Cardinality(Orders(b)') + Cardinality(Slots(b)') <= dispatched'[b]
  <2>1. /\ pollFile[c] \in Orders(b) /\ Orders(b)' = Orders(b) \ {pollFile[c]}
        /\ slotBead' = [slotBead EXCEPT ![p] = b]
    BY <1>0, <1>3, ClaimTakesOrder
  <2>2. Slots(b)' \subseteq Slots(b) \cup {p}
    BY <1>0, <1>2, <2>1 DEF Slots, TypeOK
  <2>3. /\ Cardinality(Orders(b)') + 1 <= Cardinality(Orders(b))
        /\ Cardinality(Orders(b)') \in Nat /\ Cardinality(Orders(b)) \in Nat
    BY <1>0, <2>1, OneLess
  <2>4. /\ Cardinality(Slots(b)') <= Cardinality(Slots(b)) + 1
        /\ Cardinality(Slots(b)') \in Nat /\ Cardinality(Slots(b)) \in Nat
    BY <1>0, <2>2, OneMore
  <2> QED BY <1>0, <1>1, <2>3, <2>4
<1>4. ASSUME \A c \in Cycle, p \in Polecat, late \in BOOLEAN :
               CycleStep(c) /\ ClaimPolecat(c, p, late) => pollFile[c].bead # b
      PROVE  Cardinality(Orders(b)') + Cardinality(Slots(b)') <= dispatched'[b]
  <2>1. Slots(b)' \subseteq Slots(b)
    <3>1. ASSUME NEW p \in Polecat, slotBead'[p] = b PROVE slotBead[p] = b
      <4>1. CASE \E c \in Cycle, late \in BOOLEAN : CycleStep(c) /\ ClaimPolecat(c, p, late)
        <5>1. slotBead'[p] # b
          BY <1>0, <1>4, <4>1 DEF ClaimPolecat, TypeOK
        <5> QED BY <3>1, <5>1
      <4>2. CASE ~\E c \in Cycle, late \in BOOLEAN : CycleStep(c) /\ ClaimPolecat(c, p, late)
        BY <1>0, <3>1, <4>2, SlotsClaimed, PlanAssumption
      <4> QED BY <4>1, <4>2
    <3> QED BY <1>2, <3>1 DEF Slots
  <2>2. /\ Cardinality(Slots(b)') <= Cardinality(Slots(b))
        /\ Cardinality(Slots(b)') \in Nat /\ Cardinality(Slots(b)) \in Nat
    BY <1>0, <2>1, FewerCount
  <2>3. CASE Orders(b)' \subseteq Orders(b)
    <3>1. /\ Cardinality(Orders(b)') <= Cardinality(Orders(b))
          /\ Cardinality(Orders(b)') \in Nat /\ Cardinality(Orders(b)) \in Nat
      BY <1>0, <2>3, FewerCount
    <3> QED BY <1>0, <1>1, <2>2, <3>1
  <2>4. ASSUME Dispatch(b), NEW x, Orders(b)' \subseteq Orders(b) \cup {x}
        PROVE  Cardinality(Orders(b)') + Cardinality(Slots(b)') <= dispatched'[b]
    <3>1. /\ Cardinality(Orders(b)') <= Cardinality(Orders(b)) + 1
          /\ Cardinality(Orders(b)') \in Nat /\ Cardinality(Orders(b)) \in Nat
      BY <1>0, <2>4, OneMore
    <3> QED BY <1>0, <1>1, <2>2, <2>4, <3>1
  <2> QED BY <1>0, <2>3, <2>4, OrdersArrive
<1> QED BY <1>3, <1>4

(* Two polecats work on one bead only if the Mayor dispatched it as often: *)
(* processInbox, handleBeadDispatch and the claim of a slot never deliver  *)
(* one convoy twice while polls do not overlap, crash or not.              *)
THEOREM NoTwins == Spec => []TwinsOnlyByRedispatch
<1>1. Init => TwinInv
  <2> SUFFICES ASSUME Init PROVE TwinInv
    OBVIOUS
  <2>1. TypeOK /\ \A c \in Cycle : pollPc[c] = "idle"
    BY InitType DEF Init
  <2>2. \A b \in Bead : Orders(b) = {} /\ Slots(b) = {} /\ dispatched[b] = 0
    BY PlanAssumption DEF Init, Orders, Slots
  <2>3. SerialInv
    BY <2>1 DEF SerialInv, HandlerPc
  <2> QED BY <2>2, <2>3, FS_EmptySet DEF TwinInv
<1>2. TwinInv /\ [Next]_vars => TwinInv'
  <2>1. CASE UNCHANGED vars
    BY <2>1, NextSerial
       DEF vars, busVars, logVars, pollVars, slotVars, TwinInv, Orders, Slots
  <2>2. ASSUME TwinInv, Next PROVE TwinInv'
    <3>1. SerialInv' /\ TypeOK
      BY <2>2, NextSerial DEF TwinInv, SerialInv
    <3>2. spent'["overlap"] = 0 => spent["overlap"] = 0
      BY <2>2, <3>1, NotBefore DEF Event
    <3>3. \A b \in Bead : IsFiniteSet(Orders(b))'
      BY <2>2, <3>1, OrdersFinite DEF TwinInv
    <3>4. ASSUME spent["overlap"] = 0, NEW b \in Bead
          PROVE  Cardinality(Orders(b)') + Cardinality(Slots(b)') <= dispatched'[b]
      BY <2>2, <3>4, TwinStep
    <3> QED BY <3>1, <3>2, <3>3, <3>4 DEF TwinInv
  <2> QED BY <2>1, <2>2
<1>3. TwinInv => TwinsOnlyByRedispatch
  <2> SUFFICES ASSUME TwinInv, spent["overlap"] = 0, NEW b \in Bead
               PROVE  Cardinality(Slots(b)) <= dispatched[b]
    BY DEF TwinsOnlyByRedispatch
  <2>1. Cardinality(Orders(b)) \in Nat /\ Cardinality(Slots(b)) \in Nat /\ dispatched[b] \in Nat
    BY SlotsFinite, FS_CardinalityType DEF TwinInv, SerialInv, TypeOK
  <2> QED BY <2>1 DEF TwinInv
<1> QED BY <1>1, <1>2, <1>3, PTL DEF Spec

-----------------------------------------------------------------------------
(* Success sticks.  While polls do not overlap and nothing crashes, stalls *)
(* or violates, an order is worked off once: it waits in a mailbox, is     *)
(* worked on in a slot, waits for the lock as a failure, or has become the *)
(* success of its bead.  A handler that reports or closes is done with its *)
(* order, although the file is still there.                                *)

Upsets == {"overlap", "restart", "stall", "violation"}
Steady == \A budget \in Budgets : \A e \in Upsets : budget[e] = 0

DonePc == {"reporting", "closing"}
Open(b) == {f \in Orders(b) : \A c \in Cycle : pollPc[c] \in DonePc => pollFile[c] # f}
Working(b) ==
  {p \in Polecat : slotBead[p] = b /\ slotPc[p] \notin {"blocked", "succeeded", "failed"}}
Successes(b) == IF HasSucceeded(b) THEN 1 ELSE 0

(* No PATCH_READY of b failed to be written. *)
Sure(b) == b \in WitnessRequired => spent["sendfail"] = 0

Balance(b) ==
  Cardinality(Open(b)) + Cardinality(Working(b)) + lateFail[b] + Successes(b) <= dispatched[b]

OnceInv ==
  /\ SerialInv
  /\ \A e \in Upsets : spent[e] = 0
  /\ \A f \in inbox : f.type # "SECURITY_VIOLATION"
  /\ \A b \in Bead : IsFiniteSet(Orders(b)) /\ (Sure(b) => Balance(b))

(* An event without a budget never happens. *)
LEMMA StaysSteady ==
  ASSUME Steady, TypeOK, Next, \A e \in Upsets : spent[e] = 0
  PROVE  /\ \A e \in Upsets : spent'[e] = 0
         /\ ~Restart
         /\ \A b \in Bead : ~handleStall(b) /\ ~ReportViolation(b)
<1>1. ASSUME NEW event \in Event, Spend(event), NEW e \in Upsets
      PROVE  spent'[e] = 0 /\ event # e
  <2>1. spent \in [Event -> Nat] /\ e \in Event
    BY DEF TypeOK, Upsets, Event
  <2>2. PICK budget \in Budgets : \A n \in Event : spent'[n] <= budget[n]
    BY <1>1 DEF Spend
  <2>3. budget[e] = 0
    BY DEF Steady
  <2>4. spent' = [spent EXCEPT ![event] = @ + 1]
    BY <1>1 DEF Spend
  <2>5. spent'[e] <= 0 /\ spent'[e] = IF event = e THEN spent[e] + 1 ELSE spent[e]
    BY <2>1, <2>2, <2>3, <2>4
  <2> QED BY <2>1, <2>5
<1>2. UNCHANGED spent \/ \E event \in Event : Spend(event)
  BY NextSpends
<1>3. \A e \in Upsets : spent'[e] = 0
  BY <1>1, <1>2
<1>4. ~Spend("restart") /\ ~Spend("stall") /\ ~Spend("violation")
  BY <1>1 DEF Event, Upsets
<1> QED BY <1>3, <1>4 DEF Restart, handleStall, ReportViolation

(* What is open and who works can be counted. *)
LEMMA OpenFinite ==
  ASSUME NEW b, IsFiniteSet(Orders(b))
  PROVE  /\ IsFiniteSet(Open(b)) /\ Cardinality(Open(b)) \in Nat
         /\ IsFiniteSet(Working(b)) /\ Cardinality(Working(b)) \in Nat
<1>1. Open(b) \subseteq Orders(b) /\ Working(b) \subseteq Polecat
  BY DEF Open, Working
<1> QED BY <1>1, SizeAssumption, FS_Subset, FS_CardinalityType

(* A handler that is done unlinks its file, and does nothing else. *)
LEMMA DoneCloses ==
  ASSUME TypeOK, NEW c \in Cycle, CycleStep(c), pollPc[c] \in DonePc
  PROVE  pollFile[c] \notin {f \in inbox' : f.signed}
<1>1. ReportBlocked(c) \/ CloseConvoy(c) \/ ReportUnheard(c)
  BY DEF DonePc, CycleStep, StartPoll, NextMailbox, ReadConvoy, Reject, DropWhilePaused, AtCapacity,
     UnknownBead, PredecessorFailed, WaitForPredecessor, Waiting, WaitUnsent, ReuseCached,
     StartScan, PollAppends, PollLockTimeout, HandleViolation, ScanRejects,
     ScanFails, NoFreePolecat, ClaimPolecat, Ready, Gated, Admitted, Accepting, Handling, Writing
<1>2. \A f \in inbox' : f.signed => f # pollFile[c]
  BY <1>1 DEF ReportBlocked, CloseConvoy, ReportUnheard, HandlerReturns, HandlerSends, SendInternal,
     Internal, Others
<1> QED BY <1>2

(* Nothing opens an order again; only the Mayor adds one. *)
LEMMA OpenArrives ==
  ASSUME TypeOK, Next, ~Restart, NEW b \in Bead
  PROVE  \/ Open(b)' \subseteq Open(b)
         \/ Dispatch(b) /\ \E x : Open(b)' \subseteq Open(b) \cup {x}
<1>1. ASSUME NEW f \in Open(b)', f \in Orders(b) PROVE f \in Open(b)
  <2> SUFFICES ASSUME NEW c \in Cycle, pollPc[c] \in DonePc, pollFile[c] = f PROVE FALSE
    BY <1>1 DEF Open
  <2>1. /\ f \in inbox' /\ f.signed
        /\ \A d \in Cycle : pollPc'[d] \in DonePc => pollFile'[d] # f
    BY <1>1 DEF Open, Orders, Ordering
  <2>2. CASE CycleStep(c)
    BY <2>1, <2>2, DoneCloses
  <2>3. CASE ~CycleStep(c)
    <3>1. pollPc'[c] = pollPc[c] /\ pollFile'[c] = pollFile[c]
      <4>1. CASE \E d \in Cycle : CycleStep(d)
        BY <2>3, <4>1, CycleHands DEF Hands
      <4>2. CASE ~\E d \in Cycle : CycleStep(d)
        BY <4>2, OthersHands DEF Next, pollVars
      <4> QED BY <4>1, <4>2
    <3> QED BY <2>1, <3>1
  <2> QED BY <2>2, <2>3
<1>2. Open(b)' \subseteq Orders(b)'
  BY DEF Open
<1>3. CASE Orders(b)' \subseteq Orders(b)
  BY <1>1, <1>2, <1>3
<1>4. ASSUME NEW x, Dispatch(b), Orders(b)' \subseteq Orders(b) \cup {x}
      PROVE  Dispatch(b) /\ \E y : Open(b)' \subseteq Open(b) \cup {y}
  BY <1>1, <1>2, <1>4
<1> QED BY <1>3, <1>4, OrdersArrive

(* What is counted, in numbers. *)
LEMMA BalanceType ==
  ASSUME OnceInv, NEW b \in Bead, Sure(b)
  PROVE  /\ TypeOK /\ IsFiniteSet(Open(b)) /\ IsFiniteSet(Working(b))
         /\ Cardinality(Open(b)) \in Nat /\ Cardinality(Working(b)) \in Nat
         /\ lateFail[b] \in Nat /\ Successes(b) \in {0, 1} /\ dispatched[b] \in Nat
         /\ Cardinality(Open(b)) + Cardinality(Working(b)) + lateFail[b] + Successes(b)
              <= dispatched[b]
BY OpenFinite DEF OnceInv, SerialInv, TypeOK, Successes, Balance

(* A step that opens no order, starts no work and owes no failure keeps    *)
(* the balance, and so does a dispatch that opens one.                     *)
LEMMA BalanceFrame ==
  ASSUME OnceInv, Next, ~Restart, NEW b \in Bead, Sure(b),
         Working(b)' \subseteq Working(b), lateFail'[b] = lateFail[b],
         HasSucceeded(b)' => HasSucceeded(b)
  PROVE  Balance(b)'
<1>0. /\ TypeOK /\ IsFiniteSet(Open(b)) /\ IsFiniteSet(Working(b))
      /\ Cardinality(Open(b)) \in Nat /\ Cardinality(Working(b)) \in Nat
      /\ lateFail[b] \in Nat /\ Successes(b) \in {0, 1} /\ dispatched[b] \in Nat
      /\ Cardinality(Open(b)) + Cardinality(Working(b)) + lateFail[b] + Successes(b)
              <= dispatched[b]
  BY BalanceType
<1>1. Successes(b)' <= Successes(b) /\ Successes(b)' \in {0, 1}
  BY DEF Successes
<1>2. Cardinality(Working(b)') <= Cardinality(Working(b)) /\ Cardinality(Working(b)') \in Nat
  BY <1>0, FewerCount
<1>3. dispatched'[b] >= dispatched[b] /\ dispatched'[b] \in Nat
  BY <1>0, DispatchCounts
<1>4. CASE Open(b)' \subseteq Open(b)
  <2>1. Cardinality(Open(b)') <= Cardinality(Open(b)) /\ Cardinality(Open(b)') \in Nat
    BY <1>0, <1>4, FewerCount
  <2> QED BY <1>0, <1>1, <1>2, <1>3, <2>1 DEF Balance
<1>5. ASSUME NEW x, Dispatch(b), Open(b)' \subseteq Open(b) \cup {x} PROVE Balance(b)'
  <2>1. Cardinality(Open(b)') <= Cardinality(Open(b)) + 1 /\ Cardinality(Open(b)') \in Nat
    BY <1>0, <1>5, OneMore
  <2>2. dispatched'[b] = dispatched[b] + 1
    BY <1>0, <1>5, DispatchCounts
  <2> QED BY <1>0, <1>1, <1>2, <2>1, <2>2 DEF Balance
<1> QED BY <1>0, <1>4, <1>5, OpenArrives

(* A slot that ends its work, as a record or as a failure to be written,   *)
(* takes it off the balance.                                               *)
LEMMA BalanceWork ==
  ASSUME OnceInv, Next, NEW b \in Bead, Sure(b), NEW p \in Working(b),
         Open(b)' \subseteq Open(b), Working(b)' \subseteq Working(b) \ {p},
         \/ lateFail'[b] = lateFail[b]
         \/ lateFail'[b] = lateFail[b] + 1 /\ ledger'[b] = ledger[b]
  PROVE  Balance(b)'
<1>0. /\ TypeOK /\ IsFiniteSet(Open(b)) /\ IsFiniteSet(Working(b))
      /\ Cardinality(Open(b)) \in Nat /\ Cardinality(Working(b)) \in Nat
      /\ lateFail[b] \in Nat /\ Successes(b) \in {0, 1} /\ dispatched[b] \in Nat
      /\ Cardinality(Open(b)) + Cardinality(Working(b)) + lateFail[b] + Successes(b)
              <= dispatched[b]
  BY BalanceType
<1>1. Successes(b)' \in {0, 1} /\ (ledger'[b] = ledger[b] => Successes(b)' = Successes(b))
  BY DEF Successes, HasSucceeded
<1>2. Cardinality(Working(b)') + 1 <= Cardinality(Working(b)) /\ Cardinality(Working(b)') \in Nat
  BY <1>0, OneLess
<1>3. dispatched'[b] >= dispatched[b] /\ dispatched'[b] \in Nat
  BY <1>0, DispatchCounts
<1>4. Cardinality(Open(b)') <= Cardinality(Open(b)) /\ Cardinality(Open(b)') \in Nat
  BY <1>0, FewerCount
<1> QED BY <1>0, <1>1, <1>2, <1>3, <1>4 DEF Balance

(* A late failure is written at the expense of one that waits. *)
LEMMA BalanceLate ==
  ASSUME OnceInv, Next, NEW b \in Bead, Sure(b), LateFail(b)
  PROVE  Balance(b)'
<1>0. /\ TypeOK /\ IsFiniteSet(Open(b)) /\ IsFiniteSet(Working(b))
      /\ Cardinality(Open(b)) \in Nat /\ Cardinality(Working(b)) \in Nat
      /\ lateFail[b] \in Nat /\ Successes(b) \in {0, 1} /\ dispatched[b] \in Nat
      /\ Cardinality(Open(b)) + Cardinality(Working(b)) + lateFail[b] + Successes(b)
              <= dispatched[b]
  BY BalanceType
<1>1. lateFail[b] > 0 /\ lateFail'[b] = lateFail[b] - 1
  BY <1>0 DEF LateFail, TypeOK
<1>2. Successes(b)' = Successes(b)
  <2>1. Succeeded' = Succeeded
    BY <1>0, AppendSucceeded DEF LateFail, Status, Outcome
  <2>2. HasSucceeded(b)' <=> HasSucceeded(b)
    BY <2>1 DEF Succeeded
  <2> QED BY <2>2 DEF Successes
<1>3. Orders(b)' = Orders(b) /\ Open(b)' = Open(b) /\ Working(b)' = Working(b) /\ UNCHANGED dispatched
  BY DEF LateFail, busVars, pollVars, slotVars, Orders, Open, Working
<1> QED BY <1>0, <1>1, <1>2, <1>3 DEF Balance

(* A record of a poll cycle ends the order in hand. *)
LEMMA BalanceOrder ==
  ASSUME OnceInv, Next, NEW b \in Bead, Sure(b), NEW f \in Open(b),
         Open(b)' \subseteq Open(b) \ {f}, lateFail'[b] = lateFail[b],
         \/ Working(b)' \subseteq Working(b)
         \/ ledger'[b] = ledger[b] /\ \E p : Working(b)' \subseteq Working(b) \cup {p}
  PROVE  Balance(b)'
<1>0. /\ TypeOK /\ IsFiniteSet(Open(b)) /\ IsFiniteSet(Working(b))
      /\ Cardinality(Open(b)) \in Nat /\ Cardinality(Working(b)) \in Nat
      /\ lateFail[b] \in Nat /\ Successes(b) \in {0, 1} /\ dispatched[b] \in Nat
      /\ Cardinality(Open(b)) + Cardinality(Working(b)) + lateFail[b] + Successes(b)
              <= dispatched[b]
  BY BalanceType
<1>1. Successes(b)' \in {0, 1} /\ (ledger'[b] = ledger[b] => Successes(b)' = Successes(b))
  BY DEF Successes, HasSucceeded
<1>2. Cardinality(Open(b)') + 1 <= Cardinality(Open(b)) /\ Cardinality(Open(b)') \in Nat
  BY <1>0, OneLess
<1>3. dispatched'[b] >= dispatched[b] /\ dispatched'[b] \in Nat
  BY <1>0, DispatchCounts
<1>4. CASE Working(b)' \subseteq Working(b)
  <2>1. Cardinality(Working(b)') <= Cardinality(Working(b)) /\ Cardinality(Working(b)') \in Nat
    BY <1>0, <1>4, FewerCount
  <2> QED BY <1>0, <1>1, <1>2, <1>3, <2>1 DEF Balance
<1>5. ASSUME NEW p, Working(b)' \subseteq Working(b) \cup {p}, ledger'[b] = ledger[b]
      PROVE  Balance(b)'
  <2>1. Cardinality(Working(b)') <= Cardinality(Working(b)) + 1 /\ Cardinality(Working(b)') \in Nat
    BY <1>0, <1>5, OneMore
  <2> QED BY <1>0, <1>1, <1>2, <1>3, <1>5, <2>1 DEF Balance
<1> QED BY <1>4, <1>5

(* The environment only orders, and writes the failures that waited. *)
LEMMA EnvironmentBalance ==
  ASSUME OnceInv, Next, ~Restart, \A n \in Bead : ~handleStall(n),
         DrainBegins \/ DrainEnds \/ \E n \in Bead : BeadStep(n), NEW b \in Bead, Sure(b)
  PROVE  Balance(b)'
<1>0. TypeOK
  BY DEF OnceInv, SerialInv
<1>1. UNCHANGED slotVars
  BY DEF DrainBegins, DrainEnds, BeadStep, Dispatch, ReportViolation, BackgroundScan, LateFail,
     handleDeadlock
<1>2. Working(b)' = Working(b)
  BY <1>1 DEF slotVars, Working
<1>3. CASE LateFail(b)
  BY <1>3, BalanceLate
<1>4. CASE ~LateFail(b)
  <2>1. lateFail'[b] = lateFail[b] /\ ledger'[b] = ledger[b]
    BY <1>0, <1>4 DEF DrainBegins, DrainEnds, BeadStep, Dispatch, ReportViolation, BackgroundScan,
       LateFail, handleDeadlock, logVars, appendBead, TypeOK
  <2> QED BY <1>2, <2>1, BalanceFrame DEF HasSucceeded
<1> QED BY <1>3, <1>4

(* A slot ends its work once. *)
LEMMA PolecatBalance ==
  ASSUME OnceInv, Next, ~Restart, NEW p \in Polecat, PolecatStep(p), NEW b \in Bead,
         Sure(b), Sure(b)'
  PROVE  Balance(b)'
<1>0. TypeOK
  BY DEF OnceInv, SerialInv
<1>1. Working(b)' \subseteq Working(b)
  BY <1>0, PlanAssumption DEF PolecatStep, SlotAppends, Infer, ReviewResult, Settle, Routed,
     RouteFails, SlotLockTimeout, SlotMoves, FreeSlot, Working, TypeOK
<1>2. Open(b)' \subseteq Open(b)
  <2>1. ~Dispatch(b)
    <3>1. UNCHANGED dispatched
      BY DEF PolecatStep, SlotAppends, Infer, ReviewResult, Settle, Routed, RouteFails,
         SlotLockTimeout, notWorked
    <3> QED BY <1>0, <3>1, DispatchCounts
  <2> QED BY <1>0, <2>1, OpenArrives
<1>3. CASE slotBead[p] # b \/ Infer(p) \/ ReviewResult(p) \/ Settle(p)
  <2>1. lateFail'[b] = lateFail[b] /\ ledger'[b] = ledger[b]
    <3>1. CASE SlotAppends(p)
      BY <1>0, <1>3, <3>1 DEF SlotAppends, Infer, ReviewResult, Settle, Routed, RouteFails,
         appendBead, logVars, TypeOK
    <3>2. CASE SlotLockTimeout(p)
      BY <1>0, <1>3, <3>2 DEF SlotLockTimeout, Infer, ReviewResult, Settle, Routed, RouteFails,
         logVars, TypeOK
    <3>3. CASE Infer(p) \/ ReviewResult(p) \/ Settle(p)
      BY <3>3 DEF Infer, ReviewResult, Settle, logVars
    <3>4. CASE RouteFails(p) /\ slotBead[p] # b
      BY <1>0, <3>4 DEF RouteFails, TypeOK
    <3> QED BY <1>3, <3>1, <3>2, <3>3, <3>4 DEF PolecatStep
  <2> QED BY <1>1, <2>1, BalanceFrame DEF HasSucceeded
<1>4. CASE slotBead[p] = b /\ SlotAppends(p) /\ slotPc[p] = "marking"
  <2>1. lateFail'[b] = lateFail[b] /\ appendBead(b, "in_progress", "none")
    BY <1>4 DEF SlotAppends
  <2>2. HasSucceeded(b)' => HasSucceeded(b)
    <3>1. Succeeded' = Succeeded
      BY <1>0, <2>1, AppendSucceeded DEF Status, Outcome
    <3> QED BY <3>1 DEF Succeeded
  <2> QED BY <1>1, <2>1, <2>2, BalanceFrame
<1>5. CASE slotBead[p] = b /\ SlotLockTimeout(p) /\ slotPc[p] = "finishing"
  BY <1>1, <1>5, BalanceFrame DEF SlotLockTimeout, HasSucceeded
<1>6. CASE slotBead[p] = b /\ (SlotAppends(p) /\ slotPc[p] # "marking")
  <2>1. p \in Working(b) /\ lateFail'[b] = lateFail[b]
    BY <1>6 DEF SlotAppends, Working
  <2>2. Working(b)' \subseteq Working(b) \ {p}
    BY <1>0, <1>1, <1>6 DEF SlotAppends, SlotMoves, Working, TypeOK
  <2> QED BY <1>2, <2>1, <2>2, BalanceWork
<1>7. CASE slotBead[p] = b /\ (SlotLockTimeout(p) /\ slotPc[p] # "finishing")
  <2>1. /\ p \in Working(b) /\ UNCHANGED ledger
        /\ lateFail' = [lateFail EXCEPT ![b] = @ + 1] /\ slotBead' = [slotBead EXCEPT ![p] = NoBead]
    BY <1>7 DEF SlotLockTimeout, FreeSlot, Working
  <2>2. lateFail'[b] = lateFail[b] + 1
    BY <1>0, <2>1 DEF TypeOK
  <2>3. Working(b)' \subseteq Working(b) \ {p}
    BY <1>0, <1>1, <2>1, PlanAssumption DEF Working, TypeOK
  <2> QED BY <1>2, <2>1, <2>2, <2>3, BalanceWork
<1>8. CASE slotBead[p] = b /\ RouteFails(p)
  <2>1. spent["sendfail"] \in Nat /\ spent'["sendfail"] = spent["sendfail"] + 1
    BY <1>0, <1>8 DEF RouteFails, Spend, TypeOK, Event
  <2> QED BY <1>8, <2>1 DEF RouteFails, Routed, Sure
<1> QED BY <1>3, <1>4, <1>5, <1>6, <1>7, <1>8 DEF PolecatStep

(* The order a handler works off is open while it does. *)
LEMMA OrderInHand ==
  ASSUME OnceInv, NEW c \in Cycle, pollPc[c] \in {"scanning", "failing", "caching"},
         NEW b \in Bead, pollFile[c].bead = b
  PROVE  pollFile[c] \in Open(b)
<1>1. spent["overlap"] = 0
  BY DEF OnceInv, Upsets
<1>2. pollFile[c] \in Orders(b)
  BY <1>1 DEF OnceInv, SerialInv, HandlerPc, Orders, Ordering
<1>3. \A d \in Cycle : pollPc[d] \notin DonePc
  BY <1>1 DEF OnceInv, SerialInv, DonePc
<1> QED BY <1>2, <1>3 DEF Open

(* A poll cycle ends an order by its record, or hands it to a slot. *)
LEMMA CycleBalance ==
  ASSUME OnceInv, Next, ~Restart, NEW c \in Cycle, CycleStep(c), NEW b \in Bead, Sure(b)
  PROVE  Balance(b)'
<1>0. TypeOK /\ SerialInv /\ spent["overlap"] = 0
  BY DEF OnceInv, SerialInv, Upsets
<1>1. Open(b)' \subseteq Open(b)
  <2>1. ~Dispatch(b)
    <3>1. UNCHANGED dispatched
      BY DEF CycleStep, StartPoll, NextMailbox, ReadConvoy, Reject, DropWhilePaused, AtCapacity,
         UnknownBead, PredecessorFailed, WaitForPredecessor, Waiting, WaitUnsent, ReuseCached,
         StartScan, PollAppends, PollLockTimeout, ReportBlocked, CloseConvoy, HandleViolation,
         ScanRejects, ReportUnheard, ScanFails, NoFreePolecat, ClaimPolecat, notPolled
    <3> QED BY <1>0, <3>1, DispatchCounts
  <2> QED BY <1>0, <2>1, OpenArrives
<1>2. CASE PollAppends(c)
  <2>1. pollPc[c] \in {"failing", "caching"}
    BY <1>0, <1>2 DEF PollAppends, OnceInv, SerialInv
  <2>2. UNCHANGED lateFail /\ Working(b)' = Working(b)
    BY <1>2 DEF PollAppends, notPolled, slotVars, Working
  <2>3. CASE pollFile[c].bead = b
    <3>1. pollFile[c] \in Open(b)
      BY <2>1, <2>3, OrderInHand
    <3>2. pollPc'[c] \in DonePc /\ pollFile'[c] = pollFile[c]
      BY <1>0, <1>2 DEF PollAppends, Advance, DonePc, TypeOK
    <3>3. Open(b)' \subseteq Open(b) \ {pollFile[c]}
      BY <1>1, <3>2 DEF Open
    <3> QED BY <2>2, <3>1, <3>3, BalanceOrder
  <2>4. CASE pollFile[c].bead # b
    <3>1. ledger'[b] = ledger[b]
      BY <1>0, <1>2, <2>4 DEF PollAppends, appendBead, TypeOK
    <3> QED BY <2>2, <3>1, BalanceFrame DEF HasSucceeded
  <2> QED BY <2>3, <2>4
<1>3. ASSUME NEW p \in Polecat, NEW late \in BOOLEAN, ClaimPolecat(c, p, late) PROVE Balance(b)'
  <2>1. UNCHANGED logVars /\ pollPc[c] = "scanning"
    BY <1>3 DEF ClaimPolecat
  <2>2. CASE pollFile[c].bead = b
    <3>1. /\ pollFile[c] \in Open(b) /\ Orders(b)' = Orders(b) \ {pollFile[c]}
          /\ slotBead' = [slotBead EXCEPT ![p] = b]
          /\ \A q \in Polecat \ {p} : slotPc'[q] = slotPc[q]
      BY <1>0, <1>3, <2>1, <2>2, OrderInHand, ClaimTakesOrder
    <3>2. Open(b)' \subseteq Open(b) \ {pollFile[c]}
      BY <1>1, <3>1 DEF Open
    <3>3. Working(b)' \subseteq Working(b) \cup {p}
      BY <1>0, <3>1 DEF Working, TypeOK
    <3> QED BY <2>1, <3>1, <3>2, <3>3, BalanceOrder DEF logVars
  <2>3. CASE pollFile[c].bead # b
    <3>1. Working(b)' \subseteq Working(b)
      BY <1>0, <1>3, <2>3 DEF ClaimPolecat, Working, TypeOK
    <3> QED BY <2>1, <3>1, BalanceFrame DEF logVars, HasSucceeded
  <2> QED BY <2>2, <2>3
<1>4. CASE ~PollAppends(c) /\ \A p \in Polecat, late \in BOOLEAN : ~ClaimPolecat(c, p, late)
  <2>1. UNCHANGED <<logVars, slotVars>>
    BY <1>4 DEF CycleStep, StartPoll, NextMailbox, ReadConvoy, Reject, DropWhilePaused, AtCapacity,
       UnknownBead, PredecessorFailed, WaitForPredecessor, Waiting, WaitUnsent, ReuseCached,
       StartScan, PollLockTimeout, ReportBlocked, CloseConvoy, HandleViolation, ScanRejects,
       ReportUnheard, ScanFails, NoFreePolecat, notPolled
  <2>2. Working(b)' = Working(b)
    BY <2>1 DEF slotVars, Working
  <2> QED BY <2>1, <2>2, BalanceFrame DEF logVars, HasSucceeded
<1> QED BY <1>2, <1>3, <1>4

(* Only a safeguard reports a violation. *)
LEMMA NoViolation ==
  ASSUME Next, \A n \in Bead : ~ReportViolation(n),
         \A f \in inbox : f.type # "SECURITY_VIOLATION"
  PROVE  \A f \in inbox' : f.type # "SECURITY_VIOLATION"
<1> DEFINE Harmless == \A f \in inbox' : f.type # "SECURITY_VIOLATION"
<1>1. ASSUME NEW files, files \subseteq inbox, NEW to, NEW type, type # "SECURITY_VIOLATION", NEW m,
             SendInternal(files, to, type, m)
      PROVE  Harmless
  <2>1. Internal(sent + 1, to, type, m).type # "SECURITY_VIOLATION"
    BY <1>1 DEF Internal
  <2> QED BY <1>1, <2>1 DEF SendInternal
<1>2. ASSUME inbox' \subseteq inbox PROVE Harmless
  BY <1>2
<1> HIDE DEF Harmless
<1>3. CASE DrainBegins \/ DrainEnds \/ Restart
  BY <1>2, <1>3 DEF DrainBegins, DrainEnds, Restart, busVars
<1>4. ASSUME NEW n \in Bead, BeadStep(n) PROVE Harmless
  <2>1. CASE Dispatch(n)
    BY <2>1 DEF Dispatch, Signed, Harmless
  <2>2. CASE BackgroundScan(n)
    <3>1. inbox' = inbox \/ SendInternal(inbox, "mayor", "LOCKDOWN_BROADCAST", n)
      BY <2>2 DEF BackgroundScan, busVars
    <3> QED BY <1>1, <1>2, <3>1
  <2>3. CASE handleStall(n)
    <3>1. inbox' = inbox \/ SendInternal(inbox, "polecat", "BEAD_DISPATCH", n)
      BY <2>3 DEF handleStall, busVars
    <3> QED BY <1>1, <1>2, <3>1
  <2>4. CASE LateFail(n)
    BY <1>2, <2>4 DEF LateFail, busVars
  <2>5. ASSUME NEW told \in BOOLEAN, NEW requeued \in BOOLEAN, handleDeadlock(n, told, requeued)
        PROVE  Harmless
    BY <2>5 DEF handleDeadlock, Internal, Harmless
  <2> QED BY <1>4, <2>1, <2>2, <2>3, <2>4, <2>5 DEF BeadStep
<1>5. ASSUME NEW p \in Polecat, PolecatStep(p) PROVE Harmless
  <2>1. inbox' = inbox \/ SendInternal(inbox, "witness", "PATCH_READY", slotBead[p])
    BY <1>5 DEF PolecatStep, SlotAppends, Infer, ReviewResult, Settle, Routed, RouteFails,
       SlotLockTimeout, busVars
  <2>2. CASE inbox' = inbox
    BY <1>2, <2>2
  <2>3. CASE SendInternal(inbox, "witness", "PATCH_READY", slotBead[p])
    BY <1>1, <2>3
  <2> QED BY <2>1, <2>2, <2>3
<1>6. ASSUME NEW c \in Cycle, CycleStep(c) PROVE Harmless
  <2>1. Others(c) \subseteq inbox
    BY DEF Others
  <2>2. ASSUME NEW n \in Bead, WaitForPredecessor(c, n) PROVE Harmless
    BY <1>1, <2>1, <2>2 DEF WaitForPredecessor, HandlerSends
  <2>3. CASE ReportBlocked(c) \/ ScanRejects(c)
    BY <1>1, <2>1, <2>3 DEF ReportBlocked, ScanRejects, HandlerSends
  <2>4. CASE ~ReportBlocked(c) /\ ~ScanRejects(c) /\ \A n \in Bead : ~WaitForPredecessor(c, n)
    <3>1. inbox' \subseteq inbox
      BY <1>6, <2>1, <2>4 DEF CycleStep, StartPoll, NextMailbox, ReadConvoy, Reject, DropWhilePaused,
         AtCapacity, UnknownBead, PredecessorFailed, WaitUnsent, ReuseCached, StartScan,
         PollAppends, PollLockTimeout, CloseConvoy, HandleViolation, ReportUnheard, ScanFails,
         NoFreePolecat, ClaimPolecat, HandlerReturns, HandlerThrows, Quarantine, busVars
    <3> QED BY <1>2, <3>1
  <2> QED BY <2>2, <2>3, <2>4
<1> QED BY <1>3, <1>4, <1>5, <1>6 DEF Next, Harmless

(* A bead that succeeded on its one order is written about no more. *)
LEMMA SucceededLeftAlone ==
  ASSUME OnceInv, Next, NEW b \in Bead, Sure(b), HasSucceeded(b), dispatched[b] <= 1
  PROVE  ledger'[b] = ledger[b]
<1>0. /\ TypeOK /\ IsFiniteSet(Open(b)) /\ IsFiniteSet(Working(b))
      /\ Cardinality(Open(b)) \in Nat /\ Cardinality(Working(b)) \in Nat
      /\ lateFail[b] \in Nat /\ Successes(b) \in {0, 1} /\ dispatched[b] \in Nat
      /\ Cardinality(Open(b)) + Cardinality(Working(b)) + lateFail[b] + Successes(b)
              <= dispatched[b]
  BY BalanceType
<1>1. Successes(b) = 1
  BY DEF Successes
<1>2. Cardinality(Open(b)) = 0 /\ Cardinality(Working(b)) = 0 /\ lateFail[b] = 0
  BY <1>0, <1>1
<1>3. Open(b) = {} /\ Working(b) = {}
  BY <1>0, <1>2, FS_EmptySet
<1>4. CASE UNCHANGED ledger
  BY <1>4
<1>5. ASSUME NEW n \in Bead, LateFail(n) PROVE ledger'[b] = ledger[b]
  BY <1>0, <1>2, <1>5 DEF LateFail, appendBead, TypeOK
<1>6. ASSUME NEW p \in Polecat, SlotAppends(p) PROVE ledger'[b] = ledger[b]
  <2>1. slotBead[p] # b
    BY <1>3, <1>6 DEF SlotAppends, Working
  <2> QED BY <1>0, <1>6, <2>1 DEF SlotAppends, appendBead, TypeOK
<1>7. ASSUME NEW c \in Cycle, PollAppends(c) PROVE ledger'[b] = ledger[b]
  <2>1. pollPc[c] \in {"failing", "caching"}
    BY <1>0, <1>7 DEF PollAppends, OnceInv, SerialInv, Upsets
  <2>2. pollFile[c].bead # b
    BY <1>3, <2>1, OrderInHand
  <2> QED BY <1>0, <1>7, <2>2 DEF PollAppends, appendBead, TypeOK
<1>8. \/ UNCHANGED ledger
      \/ \E n \in Bead : LateFail(n)
      \/ \E p \in Polecat : SlotAppends(p)
      \/ \E c \in Cycle : PollAppends(c)
  BY DEF Next, DrainBegins, DrainEnds, Restart, BeadStep, Dispatch, ReportViolation, BackgroundScan,
     handleStall, handleDeadlock, PolecatStep, Infer, ReviewResult, Settle, Routed, RouteFails,
     SlotLockTimeout, CycleStep, StartPoll, NextMailbox, ReadConvoy, Reject, DropWhilePaused,
     AtCapacity, UnknownBead, PredecessorFailed, WaitForPredecessor, Waiting, WaitUnsent,
     ReuseCached, StartScan, PollLockTimeout, ReportBlocked, CloseConvoy, HandleViolation,
     ScanRejects, ReportUnheard, ScanFails, NoFreePolecat, ClaimPolecat, logVars
<1> QED BY <1>4, <1>5, <1>6, <1>7, <1>8

(* A PATCH_READY that failed stays one that failed. *)
LEMMA SureBefore ==
  ASSUME TypeOK, Next, NEW b \in Bead, Sure(b)'
  PROVE  Sure(b)
BY NotBefore DEF Sure, Event

(* Every order is worked off once. *)
LEMMA NextOnce ==
  ASSUME Steady
  PROVE  OnceInv /\ [Next]_vars => OnceInv'
<1>1. CASE UNCHANGED vars
  <2>1. ASSUME NEW b \in Bead PROVE /\ Orders(b)' = Orders(b) /\ (Balance(b)' <=> Balance(b))
                                    /\ Sure(b)' <=> Sure(b)
    BY <1>1 DEF vars, busVars, logVars, pollVars, slotVars, Orders, Open, Working, Successes,
       HasSucceeded, Balance, Sure
  <2> QED BY <1>1, <2>1, NextSerial DEF vars, busVars, OnceInv
<1>2. ASSUME OnceInv, Next PROVE OnceInv'
  <2>1. SerialInv' /\ TypeOK
    BY <1>2, NextSerial DEF OnceInv, SerialInv
  <2>2. /\ \A e \in Upsets : spent'[e] = 0
        /\ ~Restart
        /\ \A n \in Bead : ~handleStall(n) /\ ~ReportViolation(n)
    BY <1>2, <2>1, StaysSteady DEF OnceInv
  <2>3. \A f \in inbox' : f.type # "SECURITY_VIOLATION"
    BY <1>2, <2>2, NoViolation DEF OnceInv
  <2>4. ASSUME NEW b \in Bead PROVE IsFiniteSet(Orders(b))'
    BY <1>2, <2>1, OrdersFinite DEF OnceInv
  <2>5. ASSUME NEW b \in Bead, Sure(b)' PROVE Balance(b)'
    <3>1. Sure(b)
      BY <1>2, <2>1, <2>5, SureBefore
    <3>2. CASE DrainBegins \/ DrainEnds \/ \E n \in Bead : BeadStep(n)
      BY <1>2, <2>2, <3>1, <3>2, EnvironmentBalance
    <3>3. CASE \E p \in Polecat : PolecatStep(p)
      BY <1>2, <2>2, <2>5, <3>1, <3>3, PolecatBalance
    <3>4. CASE \E c \in Cycle : CycleStep(c)
      BY <1>2, <2>2, <3>1, <3>4, CycleBalance
    <3> QED BY <1>2, <2>2, <3>2, <3>3, <3>4 DEF Next
  <2> QED BY <2>1, <2>2, <2>3, <2>4, <2>5 DEF OnceInv
<1> QED BY <1>1, <1>2

(* A bead dispatched once stays successful: while polls do not overlap and *)
(* nothing crashes, stalls or violates, no poll cycle, no slot and no late *)
(* failure writes to the ledger about a bead whose success is its latest   *)
(* record.  Drains, slow and failed scans, deadlocks, lock timeouts and    *)
(* mailboxes that cannot be written may happen; only the beads a Witness   *)
(* must see are not safe from the last (RouteFails).                       *)
THEOREM SuccessStays ==
  ASSUME Steady
  PROVE  Spec => SuccessSticks
<1>1. Init => OnceInv
  <2> SUFFICES ASSUME Init PROVE OnceInv
    OBVIOUS
  <2>1. TypeOK /\ \A c \in Cycle : pollPc[c] = "idle"
    BY InitType DEF Init
  <2>2. SerialInv
    BY <2>1 DEF SerialInv, HandlerPc
  <2>3. ASSUME NEW b \in Bead PROVE IsFiniteSet(Orders(b)) /\ Balance(b)
    <3>1. Orders(b) = {} /\ Open(b) = {} /\ Working(b) = {}
      BY PlanAssumption DEF Init, Orders, Open, Working
    <3>2. ~HasSucceeded(b)
      BY DEF Init, HasSucceeded
    <3>3. lateFail[b] = 0 /\ dispatched[b] = 0 /\ Successes(b) = 0
      BY <3>2 DEF Init, Successes
    <3> QED BY <3>1, <3>3, FS_EmptySet DEF Balance
  <2>4. \A e \in Upsets : spent[e] = 0
    BY DEF Init, Upsets, Event
  <2> QED BY <2>2, <2>3, <2>4 DEF Init, OnceInv
<1>2. OnceInv /\ [Next]_vars =>
        [\A b \in Bead :
           /\ Succeeding(b) /\ dispatched[b] <= 1
           /\ b \in WitnessRequired => spent["sendfail"] = 0
           => Succeeding(b)']_vars
  <2>1. ASSUME OnceInv, Next, NEW b \in Bead, Succeeding(b), dispatched[b] <= 1,
               b \in WitnessRequired => spent["sendfail"] = 0
        PROVE  Succeeding(b)'
    <3>1. HasSucceeded(b)
      BY <2>1, SucceedingSucceeded DEF OnceInv, SerialInv, Succeeded
    <3>2. ledger'[b] = ledger[b]
      BY <2>1, <3>1, SucceededLeftAlone DEF Sure
    <3> QED BY <2>1, <3>2 DEF Succeeding, Known, getBead
  <2> QED BY <2>1
<1>3. OnceInv /\ [Next]_vars => OnceInv'
  BY NextOnce
<1> QED BY <1>1, <1>2, <1>3, PTL DEF Spec, SuccessSticks
=============================================================================
