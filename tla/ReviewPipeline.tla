---------------------------- MODULE ReviewPipeline ----------------------------
(***************************************************************************)
(* Review: the runtime hands a PATCH_READY convoy to the Refinery, if the  *)
(* bead asks for it, and to a council of judges, records the verdict, and  *)
(* escalates what was rejected (src/runtime/worker-loop.ts,                *)
(* src/roles/witness.ts, src/roles/refinery.ts, src/roles/mayor.ts).       *)
(* Each poll cycle handles one convoy at a time; cycles overlap.           *)
(***************************************************************************)
EXTENDS Convoys, Integers, Sequences, FiniteSets

CONSTANTS Bead, Cycle,
          Critical,       \* beads with critical_path: three judges
          RefineryFirst,  \* beads with refinery_required
          Urgent,         \* beads of task type architecture or security
          Budgets         \* bound: how often each of Event may happen in one behaviour

ASSUME ReviewAssumption ==
  Critical \cup RefineryFirst \cup Urgent \subseteq Bead /\ IsFiniteSet(Cycle)

VARIABLES inbox,     \* convoy files in the mailboxes of the Witness and the Mayor
          handled,   \* history: files a handler was done with and unlinked
          sent,      \* number of files so far
          work,      \* work[c]: the convoy a poll cycle handles, and how far it is
          ledger,    \* ledger[b]: its records, with the file that was reviewed
          triples,   \* what witnesses and Refinery wrote into the knowledge graph
          councils,  \* number of councils so far
          analyses,  \* escalations whose analysis is not there yet
          spent      \* spent[e]: how often e has happened

vars == <<inbox, handled, sent, work, ledger, triples, councils, analyses, spent>>

Event == {"submit", "verdict", "overlap", "crash", "kgfail", "locktimeout"}
NoWork == [pc |-> "idle", file |-> [id |-> 0], approved |-> FALSE]

Init ==
  /\ inbox = {} /\ handled = {} /\ sent = 0
  /\ work = [c \in Cycle |-> NoWork]
  /\ ledger = [b \in Bead |-> <<>>]
  /\ triples = {} /\ councils = 0 /\ analyses = {}
  /\ spent = [e \in Event |-> 0]

Spend(e) ==
  /\ spent' = [spent EXCEPT ![e] = @ + 1]
  /\ \E b \in Budgets : \A f \in Event : spent'[f] <= b[f]

File(to, sender, type, b, signed, approved) ==
  [id |-> sent + 1, to |-> to, sender |-> sender, type |-> type, bead |-> b,
   signed |-> signed, approved |-> approved]
Send(f) == inbox' = inbox \cup {f} /\ sent' = sent + 1

appendBead(b, status, outcome, file) ==
  ledger' = [ledger EXCEPT ![b] =
    Append(@, [status |-> status, outcome |-> outcome, file |-> file])]

-----------------------------------------------------------------------------
(* What arrives. *)

(* A polecat has recorded its work.  The runtime's own convoy has no       *)
(* signature and no key; another agent's may have both.                    *)
routeToWitness(b, sender) ==
  /\ Spend("submit")
  /\ Send(File("witness", sender, "PATCH_READY", b, sender # "runtime", FALSE))
  /\ ledger' = [ledger EXCEPT ![b] = @ \o
       <<[status |-> "in_progress", outcome |-> "none", file |-> 0],
         [status |-> "done", outcome |-> "SUCCESS", file |-> 0]>>]
  /\ UNCHANGED <<handled, work, triples, councils, analyses>>

(* A witness of another process reports to the Mayor. *)
ForeignVerdict(b, approved) ==
  /\ Spend("verdict")
  /\ Send(File("mayor", "witness", "REVIEW_VERDICT", b, TRUE, approved))
  /\ UNCHANGED <<handled, work, ledger, triples, councils, analyses>>

-----------------------------------------------------------------------------
(* processInbox. *)

Busy(f) == \E c \in Cycle : work[c].file.id = f.id
Moves(c, pc) == work' = [work EXCEPT ![c].pc = pc]

Unlink(c) ==
  /\ inbox' = inbox \ {work[c].file}
  /\ handled' = handled \cup {work[c].file}
  /\ work' = [work EXCEPT ![c] = NoWork]

Quarantine(c, f) ==
  /\ work[c].pc = "idle" /\ f \in inbox
  /\ f.sender \notin KeyHolders \/ ~validateConvoy(f)
  /\ inbox' = inbox \ {f}
  /\ UNCHANGED <<handled, sent, work, ledger, triples, councils, analyses, spent>>

(* Another cycle may have the same file in hand. *)
Take(c, f, type) ==
  /\ work[c].pc = "idle" /\ f \in inbox
  /\ f.sender \in KeyHolders /\ validateConvoy(f) /\ f.type = type
  /\ IF Busy(f) THEN Spend("overlap") ELSE UNCHANGED spent

-----------------------------------------------------------------------------
(* handleWitnessInbox. *)

handleWitnessInbox(c, f) ==
  /\ Take(c, f, "PATCH_READY")
  /\ work' = [work EXCEPT ![c] =
       [pc |-> IF f.bead \in RefineryFirst THEN "analyzing" ELSE "judging",
        file |-> f, approved |-> FALSE]]
  /\ UNCHANGED <<inbox, handled, sent, ledger, triples, councils, analyses>>

(* Refinery.analyze: its triple is lost if the write fails, the rest not.  *)
persistAnalysis(b) ==
  \/ triples' = triples \cup {[council |-> 0, bead |-> b, judge |-> 0, approved |-> FALSE]}
     /\ UNCHANGED spent
  \/ Spend("kgfail") /\ UNCHANGED triples

(* Mutant of prePass: a failed analysis ends the handling. *)
prePassOrNothing(c) ==
  /\ work[c].pc = "analyzing"
  /\ \/ persistAnalysis(work[c].file.bead) /\ Moves(c, "noting")
        /\ UNCHANGED <<inbox, handled>>
     \/ Unlink(c) /\ UNCHANGED <<triples, spent>>
  /\ UNCHANGED <<sent, ledger, councils, analyses>>

(* No answer, or one that is no JSON, is not fatal. *)
prePass(c) ==
  /\ work[c].pc = "analyzing"
  /\ \/ persistAnalysis(work[c].file.bead) /\ Moves(c, "noting")
     \/ Moves(c, "judging") /\ UNCHANGED <<triples, spent>>
  /\ UNCHANGED <<inbox, handled, sent, ledger, councils, analyses>>

notePrePass(c) ==
  /\ work[c].pc = "noting" /\ Moves(c, "judging")
  /\ \/ appendBead(work[c].file.bead, "in_progress", "none", 0) /\ UNCHANGED spent
     \/ Spend("locktimeout") /\ UNCHANGED ledger
  /\ UNCHANGED <<inbox, handled, sent, triples, councils, analyses>>

(* A judge that fails votes against. *)
Judges(b) == IF b \in Critical THEN 1 .. 3 ELSE 1 .. 1

(* Mutant of Majority: one vote is enough. *)
AnyVote(votes, b) == votes # {}

Majority(votes, b) == 2 * Cardinality(votes) > Cardinality(Judges(b))

(* Witness.review: votes are those in favour; which judges they are from   *)
(* makes no difference.  A council of three writes a triple per judge,     *)
(* then its verdict; a write that fails ends the review, and its error is  *)
(* only logged.                                                            *)
review(c) ==
  /\ work[c].pc = "judging"
  /\ councils' = councils + 1
  /\ LET b == work[c].file.bead
         Row(i, approved) ==
           [council |-> councils', bead |-> b, judge |-> i, approved |-> approved]
     IN  \E votes \in {1 .. n : n \in 0 .. Cardinality(Judges(b))} :
         LET Ballots(k) == {Row(i, i \in votes) : i \in IF b \in Critical THEN 1 .. k ELSE {}}
         IN  \/ /\ triples' = triples \cup Ballots(3) \cup {Row(0, Majority(votes, b))}
                /\ work' = [work EXCEPT ![c] = [pc |-> "recording", file |-> work[c].file,
                                                approved |-> Majority(votes, b)]]
                /\ UNCHANGED <<inbox, handled, spent>>
             \/ /\ Spend("kgfail")
                /\ \E k \in 0 .. 3 : triples' = triples \cup Ballots(k)
                /\ Unlink(c)
  /\ UNCHANGED <<sent, ledger, analyses>>

(* The verdict for the ledger, as the bead's latest record. *)
recordVerdict(c) ==
  LET f == work[c].file IN
  /\ work[c].pc = "recording"
  /\ \/ /\ IF work[c].approved THEN appendBead(f.bead, "done", "SUCCESS", f.id)
                               ELSE appendBead(f.bead, "failed", "FAILURE", f.id)
        /\ Moves(c, "reporting")
        /\ UNCHANGED <<inbox, handled, spent>>
     \/ Spend("locktimeout") /\ Unlink(c) /\ UNCHANGED ledger
  /\ UNCHANGED <<sent, triples, councils, analyses>>

(* Mutant of reportVerdict: the file stays. *)
reportVerdictOnly(c) ==
  /\ work[c].pc = "reporting"
  /\ work' = [work EXCEPT ![c] = NoWork]
  /\ UNCHANGED <<inbox, sent, handled, ledger, triples, councils, analyses, spent>>

(* A rejection is sent to the Mayor, unsigned, and the handler returns. *)
reportVerdict(c) ==
  LET f == work[c].file IN
  /\ work[c].pc = "reporting"
  /\ handled' = handled \cup {f}
  /\ work' = [work EXCEPT ![c] = NoWork]
  /\ IF work[c].approved THEN inbox' = inbox \ {f} /\ UNCHANGED sent
     ELSE /\ inbox' = (inbox \ {f})
               \cup {File("mayor", "witness", "REVIEW_VERDICT", f.bead, FALSE, FALSE)}
          /\ sent' = sent + 1
  /\ UNCHANGED <<ledger, triples, councils, analyses, spent>>

-----------------------------------------------------------------------------
(* handleMayorInbox, and escalateToRefinery, which it does not wait for.   *)

Escalates(f) ==
  /\ ~f.approved /\ ledger[f.bead] # <<>>
  /\ Len(ledger[f.bead]) >= 2 \/ f.bead \in Urgent

handleMayorInbox(c, f) ==
  /\ Take(c, f, "REVIEW_VERDICT")
  /\ inbox' = inbox \ {f} /\ handled' = handled \cup {f}
  /\ analyses' = IF Escalates(f) THEN analyses \cup {f} ELSE analyses
  /\ UNCHANGED <<sent, work, ledger, triples, councils>>

escalateToRefinery(f) ==
  /\ f \in analyses /\ analyses' = analyses \ {f}
  /\ persistAnalysis(f.bead) \/ UNCHANGED <<triples, spent>>
  /\ UNCHANGED <<inbox, handled, sent, work, ledger, councils>>

(* The process dies and starts again: files, ledger and graph survive. *)
Crash ==
  /\ analyses # {} \/ \E c \in Cycle : work[c].pc # "idle"
  /\ Spend("crash")
  /\ work' = [c \in Cycle |-> NoWork] /\ analyses' = {}
  /\ UNCHANGED <<inbox, handled, sent, ledger, triples, councils>>

-----------------------------------------------------------------------------

Next ==
  \/ \E b \in Bead : \/ \E s \in {"runtime", "polecat"} : routeToWitness(b, s)
                     \/ \E approved \in BOOLEAN : ForeignVerdict(b, approved)
  \/ \E c \in Cycle :
       \/ \E f \in inbox : Quarantine(c, f) \/ handleWitnessInbox(c, f) \/ handleMayorInbox(c, f)
       \/ prePass(c) \/ notePrePass(c) \/ review(c) \/ recordVerdict(c) \/ reportVerdict(c)
  \/ \E f \in analyses : escalateToRefinery(f)
  \/ Crash

Spec == Init /\ [][Next]_vars

-----------------------------------------------------------------------------

Verdicts(b, approved) ==
  {t \in triples : t.bead = b /\ t.council # 0 /\ t.judge = 0 /\ t.approved = approved}
Reviews(b, outcome) ==
  {i \in DOMAIN ledger[b] : ledger[b][i].file # 0 /\ ledger[b][i].outcome = outcome}
Favour(n) == {t.judge : t \in {u \in triples : u.council = n /\ u.judge # 0 /\ u.approved}}

(* What the ledger says of a review, the graph says too, and of a critical *)
(* bead two of three judges (witness.ts:40-116, worker-loop.ts:497-541):   *)
(* whatever writes fail, cycles overlap and crashes repeat a review.       *)
VotesDecide ==
  /\ \A b \in Bead :
       /\ Cardinality(Reviews(b, "SUCCESS")) <= Cardinality(Verdicts(b, TRUE))
       /\ Cardinality(Reviews(b, "FAILURE")) <= Cardinality(Verdicts(b, FALSE))
  /\ \A b \in Critical, approved \in BOOLEAN : \A v \in Verdicts(b, approved) :
       approved <=> Cardinality(Favour(v.council)) >= 2

(* A patch that the runtime is done with has its verdict in the ledger,    *)
(* unless the graph or the ledger refused a write: an analysis that fails  *)
(* is "non-fatal" (worker-loop.ts:497), and a crash only delays it.        *)
NoVerdictLost ==
  spent["kgfail"] + spent["locktimeout"] = 0 =>
    \A f \in handled : f.type = "PATCH_READY" =>
      \E i \in DOMAIN ledger[f.bead] : ledger[f.bead][i].file = f.id

(* A patch is reviewed once, and once more only for a crash or a poll      *)
(* cycle that takes the file of another one.                               *)
ReviewedOnce ==
  \A b \in Bead : \A f \in inbox \cup handled : f.bead = b =>
    Cardinality({i \in DOMAIN ledger[b] : ledger[b][i].file = f.id})
      <= 1 + spent["crash"] + spent["overlap"]
=============================================================================
