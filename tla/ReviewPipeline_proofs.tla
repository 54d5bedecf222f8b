------------------------ MODULE ReviewPipeline_proofs ------------------------
(***************************************************************************)
(* Proofs about ReviewPipeline, for any beads, poll cycles and budgets.    *)
(* The invariant has four parts: types and file names, which are inductive *)
(* alone; what has a record; how often a patch is reviewed; and how ledger *)
(* and graph agree.  Few actions disturb the last three: see Calm.         *)
(***************************************************************************)
EXTENDS ReviewPipeline, FiniteSetTheorems, TLAPS

FileType ==
  [id : Nat \ {0}, to : {"witness", "mayor"}, sender : Sender,
   type : {"PATCH_READY", "REVIEW_VERDICT"}, bead : Bead, signed : BOOLEAN, approved : BOOLEAN]
RecordType == [status : {"in_progress", "done", "failed"},
               outcome : {"none", "SUCCESS", "FAILURE"}, file : Nat]
TripleType == [council : Nat, bead : Bead, judge : 0 .. 3, approved : BOOLEAN]
Before == {"analyzing", "noting", "judging", "recording"}
WorkType == [pc : {"idle", "reporting"} \cup Before, file : FileType \cup {NoWork.file},
             approved : BOOLEAN]

Typed ==
  /\ inbox \in SUBSET FileType /\ handled \in SUBSET FileType /\ analyses \in SUBSET FileType
  /\ work \in [Cycle -> WorkType]
  /\ \A c \in Cycle : work[c].pc # "idle" => work[c].file \in FileType
  /\ ledger \in [Bead -> Seq(RecordType)]
  /\ triples \in SUBSET TripleType /\ IsFiniteSet(triples)
  /\ sent \in Nat /\ councils \in Nat /\ spent \in [Event -> Nat]

(* A file is known by its number, and a number that was not given to one   *)
(* is in no record.                                                        *)
Named ==
  /\ \A f \in inbox : f.id <= sent
  /\ \A c \in Cycle : work[c].file.id <= sent
  /\ \A f, g \in inbox : f.id = g.id => f = g
  /\ \A c \in Cycle : \A f \in inbox : work[c].file.id = f.id => work[c].file = f
  /\ \A b \in Bead : \A i \in DOMAIN ledger[b] : ledger[b][i].file <= sent
  /\ \A t \in triples : t.council <= councils

-----------------------------------------------------------------------------
(* What the building blocks of the actions do to the types. *)

(* Events are counted. *)
LEMMA SpendCounts ==
  ASSUME Typed, NEW e \in Event, Spend(e)
  PROVE  /\ spent' \in [Event -> Nat] /\ spent'[e] = spent[e] + 1
         /\ \A f \in Event \ {e} : spent'[f] = spent[f]
BY DEF Typed, Spend

(* A file that is sent is well-formed. *)
LEMMA FileIsTyped ==
  ASSUME Typed, NEW to \in {"witness", "mayor"}, NEW sender \in Sender,
         NEW type \in {"PATCH_READY", "REVIEW_VERDICT"}, NEW b \in Bead,
         NEW signed \in BOOLEAN, NEW approved \in BOOLEAN
  PROVE  /\ File(to, sender, type, b, signed, approved) \in FileType
         /\ File(to, sender, type, b, signed, approved).id = sent + 1
<1>1. sent + 1 \in Nat \ {0}
  BY DEF Typed
<1> QED BY <1>1 DEF File, FileType

(* Going on keeps the file and the verdict in hand. *)
LEMMA MovesKeeps ==
  ASSUME Typed, NEW c \in Cycle, NEW pc, Moves(c, pc), work[c].pc # "idle"
  PROVE  /\ work' = [work EXCEPT ![c] = [pc |-> pc, file |-> work[c].file,
                                         approved |-> work[c].approved]]
         /\ work[c].file \in FileType /\ work[c].approved \in BOOLEAN
<1> DEFINE P == {"idle", "reporting"} \cup Before
           F == FileType \cup {NoWork.file}
<1>1. work \in [Cycle -> [pc : P, file : F, approved : BOOLEAN]] /\ work[c].file \in FileType
  BY DEF Typed, WorkType
<1> HIDE DEF P, F
<1>2. work[c] \in [pc : P, file : F, approved : BOOLEAN]
  BY <1>1
<1>3. [work[c] EXCEPT !.pc = pc] = [pc |-> pc, file |-> work[c].file,
                                   approved |-> work[c].approved]
  BY <1>2
<1> QED BY <1>1, <1>2, <1>3 DEF Moves

(* The numbers of files, of those in hand too. *)
LEMMA Numbers ==
  ASSUME Typed
  PROVE  /\ \A f \in inbox : f \in FileType /\ f.id \in Nat \ {0}
         /\ \A c \in Cycle : /\ work[c].file \in FileType \/ work[c].file = NoWork.file
                             /\ work[c].file.id \in Nat
         /\ NoWork.file.id = 0 /\ NoWork.pc = "idle"
<1>1. \A f \in FileType : f.id \in Nat \ {0}
  BY DEF FileType
<1>2. NoWork.file.id = 0 /\ NoWork.pc = "idle"
  BY DEF NoWork
<1>3. \A c \in Cycle : work[c].file \in FileType \/ work[c].file = NoWork.file
  <2> DEFINE P == {"idle", "reporting"} \cup Before
             F == FileType \cup {NoWork.file}
  <2>1. work \in [Cycle -> [pc : P, file : F, approved : BOOLEAN]]
    BY DEF Typed, WorkType
  <2> HIDE DEF P, F
  <2>2. \A c \in Cycle : work[c].file \in F
    BY <2>1
  <2> QED BY <2>2 DEF F
<1>4. \A c \in Cycle : work[c].file.id \in Nat
  BY <1>1, <1>2, <1>3
<1> QED BY <1>1, <1>2, <1>3, <1>4 DEF Typed

(* Every record of a ledger is one. *)
LEMMA RecordsTyped ==
  ASSUME NEW l \in [Bead -> Seq(RecordType)], NEW b \in Bead, NEW i \in DOMAIN l[b]
  PROVE  l[b][i] \in RecordType /\ l[b][i].file \in Nat
<1>1. \A r \in RecordType : r.file \in Nat
  BY DEF RecordType
<1>2. l[b] \in Seq(RecordType)
  OBVIOUS
<1>3. l[b][i] \in RecordType
  BY <1>2
<1> QED BY <1>1, <1>3

(* A record that is appended has its place at the end. *)
LEMMA RecordsAppend ==
  ASSUME Typed, NEW b \in Bead, NEW r \in RecordType,
         ledger' = [ledger EXCEPT ![b] = Append(@, r)]
  PROVE  /\ ledger' \in [Bead -> Seq(RecordType)]
         /\ \A d \in Bead \ {b} : ledger'[d] = ledger[d]
         /\ ledger'[b] = Append(ledger[b], r)
         /\ DOMAIN ledger'[b] = DOMAIN ledger[b] \cup {Len(ledger[b]) + 1}
         /\ Len(ledger[b]) + 1 \notin DOMAIN ledger[b]
         /\ \A i \in DOMAIN ledger[b] : ledger'[b][i] = ledger[b][i]
         /\ ledger'[b][Len(ledger[b]) + 1] = r
<1>1. ledger[b] \in Seq(RecordType) /\ ledger'[b] = Append(ledger[b], r)
  BY DEF Typed
<1>2. Append(ledger[b], r) \in Seq(RecordType)
  BY <1>1
<1>3. /\ DOMAIN Append(ledger[b], r) = DOMAIN ledger[b] \cup {Len(ledger[b]) + 1}
      /\ Len(ledger[b]) + 1 \notin DOMAIN ledger[b]
      /\ \A i \in DOMAIN ledger[b] : Append(ledger[b], r)[i] = ledger[b][i]
      /\ Append(ledger[b], r)[Len(ledger[b]) + 1] = r
  BY <1>1
<1>4. ledger' \in [Bead -> Seq(RecordType)] /\ \A d \in Bead \ {b} : ledger'[d] = ledger[d]
  BY <1>1, <1>2 DEF Typed
<1> QED BY <1>1, <1>3, <1>4

(* One record more, known by its file, and numbers stay below sent. *)
LEMMA RecordsNamed ==
  ASSUME Typed, Named, NEW b \in Bead, NEW r \in RecordType, r.file <= sent,
         ledger' = [ledger EXCEPT ![b] = Append(@, r)]
  PROVE  \A d \in Bead : \A i \in DOMAIN ledger'[d] : ledger'[d][i].file <= sent
<1>1. \A d \in Bead : \A i \in DOMAIN ledger[d] : ledger[d][i].file <= sent
  BY DEF Named
<1> QED BY <1>1, RecordsAppend

(* What keeps the names: at most one new file, with the next number, and   *)
(* in hand only what was there.                                            *)
LEMMA NamesKept ==
  ASSUME Typed, Named, Typed', NEW new,
         \/ inbox' \subseteq inbox /\ sent' = sent
         \/ /\ inbox' \subseteq inbox \cup {new} /\ sent' = sent + 1
            /\ new \in FileType /\ new.id = sent + 1,
         \A c \in Cycle : work'[c].file = work[c].file \/ work'[c].file = NoWork.file
                          \/ work'[c].file \in inbox,
         \A b \in Bead : \A i \in DOMAIN ledger'[b] : ledger'[b][i].file <= sent,
         \A t \in triples' : t.council <= councils'
  PROVE  Named'
<1>1. sent \in Nat /\ sent' \in Nat /\ sent <= sent'
  BY DEF Typed
<1>2. \A f \in inbox : f.id \in Nat /\ 1 <= f.id /\ f.id <= sent
  BY Numbers DEF Named
<1>3. /\ \A f, g \in inbox : f.id = g.id => f = g
      /\ \A c \in Cycle : \A f \in inbox : work[c].file.id = f.id => work[c].file = f
      /\ \A c \in Cycle : work[c].file.id \in Nat /\ work[c].file.id <= sent
      /\ NoWork.file.id = 0
  BY Numbers DEF Named
<1>4. \A c \in Cycle : /\ work'[c].file.id \in Nat /\ work'[c].file.id <= sent
                       /\ \A f \in inbox : work'[c].file.id = f.id => work'[c].file = f
  BY <1>1, <1>2, <1>3
<1>5. \A b \in Bead : \A i \in DOMAIN ledger'[b] : ledger'[b][i].file \in Nat
  BY RecordsTyped DEF Typed
<1>6. \A b \in Bead : \A i \in DOMAIN ledger'[b] : ledger'[b][i].file <= sent'
  BY <1>1, <1>5
<1>7. \A c \in Cycle : work'[c].file.id <= sent'
  BY <1>1, <1>4
<1>8. CASE inbox' \subseteq inbox /\ sent' = sent
  BY <1>2, <1>3, <1>4, <1>6, <1>7, <1>8 DEF Named
<1>9. CASE /\ inbox' \subseteq inbox \cup {new} /\ sent' = sent + 1
           /\ new \in FileType /\ new.id = sent + 1
  <2>1. \A f \in inbox' : f \in inbox \/ f = new
    BY <1>9
  <2>2. \A f \in inbox' : f.id <= sent'
    BY <1>1, <1>2, <1>9, <2>1
  <2>3. \A f, g \in inbox' : f.id = g.id => f = g
    BY <1>1, <1>2, <1>3, <1>9, <2>1
  <2>4. \A c \in Cycle : \A f \in inbox' : work'[c].file.id = f.id => work'[c].file = f
    BY <1>1, <1>4, <1>9, <2>1
  <2> QED BY <1>6, <1>7, <2>2, <2>3, <2>4 DEF Named
<1> QED BY <1>8, <1>9
-----------------------------------------------------------------------------
(* A poll cycle has one convoy in hand, and others keep theirs. *)
LEMMA InHand ==
  ASSUME Typed, NEW c \in Cycle, NEW w \in WorkType, w.pc # "idle" => w.file \in FileType,
         work' = [work EXCEPT ![c] = w]
  PROVE  /\ work' \in [Cycle -> WorkType]
         /\ \A d \in Cycle : work'[d].pc # "idle" => work'[d].file \in FileType
         /\ work'[c] = w /\ \A d \in Cycle \ {c} : work'[d] = work[d]
BY DEF Typed

(* A convoy in hand, and none. *)
LEMMA WorkIsTyped ==
  /\ NoWork \in WorkType
  /\ \A pc \in {"reporting"} \cup Before, f \in FileType, a \in BOOLEAN :
       [pc |-> pc, file |-> f, approved |-> a] \in WorkType
<1> DEFINE F == FileType \cup {NoWork.file}
<1>1. NoWork.file \in F /\ \A f \in FileType : f \in F
  OBVIOUS
<1> HIDE DEF F
<1>2. NoWork = [pc |-> "idle", file |-> NoWork.file, approved |-> FALSE]
  BY DEF NoWork
<1>3. WorkType = [pc : {"idle", "reporting"} \cup Before, file : F, approved : BOOLEAN]
  BY DEF WorkType, F
<1>4. \A pc \in {"reporting"} \cup Before, f \in FileType, a \in BOOLEAN :
       [pc |-> pc, file |-> f, approved |-> a] \in WorkType
  BY <1>1, <1>3
<1>5. [pc |-> "idle", file |-> NoWork.file, approved |-> FALSE] \in WorkType
  BY <1>1, <1>3
<1> QED BY <1>2, <1>4, <1>5

(* An action of a cycle that goes on with its convoy. *)
LEMMA GoesOn ==
  ASSUME Typed, NEW c \in Cycle, NEW pc \in {"reporting"} \cup Before, Moves(c, pc),
         work[c].pc # "idle"
  PROVE  /\ work' \in [Cycle -> WorkType]
         /\ \A d \in Cycle : work'[d].pc # "idle" => work'[d].file \in FileType
         /\ work'[c] = [pc |-> pc, file |-> work[c].file, approved |-> work[c].approved]
         /\ \A d \in Cycle \ {c} : work'[d] = work[d]
         /\ \A d \in Cycle : work'[d].file = work[d].file
<1> DEFINE w == [pc |-> pc, file |-> work[c].file, approved |-> work[c].approved]
<1>1. work' = [work EXCEPT ![c] = w] /\ work[c].file \in FileType
      /\ work[c].approved \in BOOLEAN
  BY MovesKeeps
<1>2. w \in WorkType /\ w.file \in FileType /\ w.file = work[c].file
  BY <1>1, WorkIsTyped
<1> HIDE DEF w
<1>3. /\ work' \in [Cycle -> WorkType]
      /\ \A d \in Cycle : work'[d].pc # "idle" => work'[d].file \in FileType
      /\ work'[c] = w /\ \A d \in Cycle \ {c} : work'[d] = work[d]
  BY <1>1, <1>2, InHand
<1> QED BY <1>2, <1>3 DEF w

(* An action of a cycle that is done with its convoy. *)
LEMMA Ends ==
  ASSUME Typed, NEW c \in Cycle, work' = [work EXCEPT ![c] = NoWork]
  PROVE  /\ work' \in [Cycle -> WorkType]
         /\ \A d \in Cycle : work'[d].pc # "idle" => work'[d].file \in FileType
         /\ work'[c] = NoWork /\ \A d \in Cycle \ {c} : work'[d] = work[d]
         /\ \A d \in Cycle : work'[d].file = work[d].file \/ work'[d].file = NoWork.file
BY InHand, WorkIsTyped, Numbers
-----------------------------------------------------------------------------
(* Types and names, one action at a time. *)

Base == Typed /\ Named

(* A convoy of a polecat, after its two records. *)
LEMMA SubmitBase ==
  ASSUME Base, NEW b \in Bead, NEW s \in {"runtime", "polecat"}, routeToWitness(b, s)
  PROVE  Base'
<1> DEFINE f == File("witness", s, "PATCH_READY", b, s # "runtime", FALSE)
           r == [status |-> "in_progress", outcome |-> "none", file |-> 0]
           q == [status |-> "done", outcome |-> "SUCCESS", file |-> 0]
<1>1. s \in Sender /\ "submit" \in Event
  BY DEF Sender, Event
<1>2. f \in FileType /\ f.id = sent + 1
  <2>1. (s # "runtime") \in BOOLEAN
    OBVIOUS
  <2> QED BY <1>1, <2>1, FileIsTyped DEF Base
<1>3. spent' \in [Event -> Nat]
  BY <1>1, SpendCounts DEF routeToWitness, Base
<1>4. inbox' = inbox \cup {f} /\ sent' = sent + 1
  BY DEF routeToWitness, Send
<1>5. r \in RecordType /\ q \in RecordType /\ r.file = 0 /\ q.file = 0
  BY DEF RecordType
<1>6. ledger' = [ledger EXCEPT ![b] = @ \o <<r, q>>]
  BY DEF routeToWitness
<1>7. UNCHANGED <<handled, work, triples, councils, analyses>>
  BY DEF routeToWitness
<1> HIDE DEF f, r, q
<1>8. ledger[b] \in Seq(RecordType) /\ ledger \in [Bead -> Seq(RecordType)]
  BY DEF Base, Typed
<1>9. /\ ledger[b] \o <<r, q>> \in Seq(RecordType)
      /\ \A i \in DOMAIN (ledger[b] \o <<r, q>>) :
           (i \in DOMAIN ledger[b] /\ (ledger[b] \o <<r, q>>)[i] = ledger[b][i])
           \/ (ledger[b] \o <<r, q>>)[i] \in {r, q}
  BY <1>5, <1>8
<1>10. ledger' \in [Bead -> Seq(RecordType)] /\ ledger'[b] = ledger[b] \o <<r, q>>
       /\ \A d \in Bead \ {b} : ledger'[d] = ledger[d]
  BY <1>6, <1>8, <1>9
<1>11. \A d \in Bead : \A i \in DOMAIN ledger'[d] : ledger'[d][i].file <= sent
  <2>1. \A d \in Bead : \A i \in DOMAIN ledger[d] : ledger[d][i].file <= sent
    BY DEF Base, Named
  <2>2. 0 <= sent
    BY DEF Base, Typed
  <2>3. \A i \in DOMAIN ledger'[b] : ledger'[b][i].file <= sent
    BY <1>5, <1>9, <1>10, <2>1, <2>2
  <2> QED BY <1>10, <2>1, <2>3
<1>12. Typed'
  BY <1>2, <1>3, <1>4, <1>7, <1>10 DEF Base, Typed
<1>13. \A t \in triples' : t.council <= councils'
  BY <1>7 DEF Base, Named
<1>14. \A c \in Cycle : work'[c].file = work[c].file
  BY <1>7
<1>15. Named'
  BY <1>2, <1>4, <1>11, <1>12, <1>13, <1>14, NamesKept DEF Base
<1> QED BY <1>12, <1>15 DEF Base

(* A verdict of another process. *)
LEMMA ForeignBase ==
  ASSUME Base, NEW b \in Bead, NEW a \in BOOLEAN, ForeignVerdict(b, a)
  PROVE  Base'
<1> DEFINE f == File("mayor", "witness", "REVIEW_VERDICT", b, TRUE, a)
<1>1. "witness" \in Sender /\ "verdict" \in Event
  BY DEF Sender, Event
<1>2. f \in FileType /\ f.id = sent + 1
  BY <1>1, FileIsTyped DEF Base
<1>3. spent' \in [Event -> Nat]
  BY <1>1, SpendCounts DEF ForeignVerdict, Base
<1>4. /\ inbox' = inbox \cup {f} /\ sent' = sent + 1
      /\ UNCHANGED <<handled, work, ledger, triples, councils, analyses>>
  BY DEF ForeignVerdict, Send
<1> HIDE DEF f
<1>5. Typed'
  BY <1>2, <1>3, <1>4 DEF Base, Typed
<1>6. /\ \A t \in triples' : t.council <= councils'
      /\ \A d \in Bead : \A i \in DOMAIN ledger'[d] : ledger'[d][i].file <= sent
      /\ \A c \in Cycle : work'[c].file = work[c].file
  BY <1>4 DEF Base, Named
<1> QED BY <1>2, <1>4, <1>5, <1>6, NamesKept DEF Base

(* What only takes a file out of a mailbox, and perhaps into hand. *)
LEMMA TakenBase ==
  ASSUME Base, inbox' \subseteq inbox, handled' \subseteq handled \cup inbox,
         analyses' \subseteq analyses \cup inbox, spent' \in [Event -> Nat],
         work' \in [Cycle -> WorkType],
         \A d \in Cycle : work'[d].pc # "idle" => work'[d].file \in FileType,
         \A d \in Cycle : work'[d].file = work[d].file \/ work'[d].file = NoWork.file
                          \/ work'[d].file \in inbox,
         UNCHANGED <<sent, ledger, triples, councils>>
  PROVE  Base'
<1>1. Typed'
  BY DEF Base, Typed
<1>2. /\ \A t \in triples' : t.council <= councils'
      /\ \A d \in Bead : \A i \in DOMAIN ledger'[d] : ledger'[d][i].file <= sent
  BY DEF Base, Named
<1> QED BY <1>1, <1>2, NamesKept DEF Base

(* A second cycle on the same file is counted. *)
LEMMA SpentByTake ==
  ASSUME Base, NEW c \in Cycle, NEW f \in inbox, NEW type, Take(c, f, type)
  PROVE  spent' \in [Event -> Nat]
<1>1. "overlap" \in Event
  BY DEF Event
<1> QED BY <1>1, SpendCounts DEF Take, Base, Typed

(* A convoy that is refused. *)
LEMMA QuarantineBase ==
  ASSUME Base, NEW c \in Cycle, NEW f \in inbox, Quarantine(c, f)
  PROVE  Base'
<1>1. /\ inbox' \subseteq inbox
      /\ UNCHANGED <<handled, sent, work, ledger, triples, councils, analyses, spent>>
  BY DEF Quarantine
<1> QED BY <1>1, TakenBase DEF Base, Typed

(* A patch is taken in hand. *)
LEMMA TakePatchBase ==
  ASSUME Base, NEW c \in Cycle, NEW f \in inbox, handleWitnessInbox(c, f)
  PROVE  Base'
<1> DEFINE pc == IF f.bead \in RefineryFirst THEN "analyzing" ELSE "judging"
           w == [pc |-> pc, file |-> f, approved |-> FALSE]
<1>1. work' = [work EXCEPT ![c] = w] /\ spent' \in [Event -> Nat]
      /\ UNCHANGED <<inbox, handled, sent, ledger, triples, councils, analyses>>
  BY SpentByTake DEF handleWitnessInbox
<1>2. pc \in {"reporting"} \cup Before /\ f \in FileType
  BY DEF Before, Base, Typed
<1>3. w \in WorkType /\ w.file = f /\ f \in FileType
  BY <1>2, WorkIsTyped
<1> HIDE DEF w
<1>4. /\ work' \in [Cycle -> WorkType]
      /\ \A d \in Cycle : work'[d].pc # "idle" => work'[d].file \in FileType
      /\ work'[c] = w /\ \A d \in Cycle \ {c} : work'[d] = work[d]
  BY <1>1, <1>3, InHand DEF Base
<1> QED BY <1>1, <1>3, <1>4, TakenBase

(* A verdict is handled at once. *)
LEMMA VerdictBase ==
  ASSUME Base, NEW c \in Cycle, NEW f \in inbox, handleMayorInbox(c, f)
  PROVE  Base'
<1>1. /\ inbox' \subseteq inbox /\ handled' \subseteq handled \cup inbox
      /\ analyses' \subseteq analyses \cup inbox /\ spent' \in [Event -> Nat]
      /\ UNCHANGED <<sent, work, ledger, triples, councils>>
  BY SpentByTake DEF handleMayorInbox
<1> QED BY <1>1, TakenBase DEF Base, Typed

(* What writes the ledger or the graph and keeps or drops what is in hand. *)
LEMMA WrittenBase ==
  ASSUME Base, inbox' \subseteq inbox, handled' \in SUBSET FileType,
         analyses' \subseteq analyses, spent' \in [Event -> Nat],
         work' \in [Cycle -> WorkType],
         \A d \in Cycle : work'[d].pc # "idle" => work'[d].file \in FileType,
         \A d \in Cycle : work'[d].file = work[d].file \/ work'[d].file = NoWork.file,
         ledger' \in [Bead -> Seq(RecordType)],
         \A d \in Bead : \A i \in DOMAIN ledger'[d] : ledger'[d][i].file <= sent,
         triples' \in SUBSET TripleType, IsFiniteSet(triples'),
         \A t \in triples' : t.council <= councils',
         councils' \in Nat, sent' = sent
  PROVE  Base'
<1>1. Typed'
  BY DEF Base, Typed
<1> QED BY <1>1, NamesKept DEF Base

(* What a cycle is done with was in hand. *)
LEMMA UnlinkKeeps ==
  ASSUME Base, NEW c \in Cycle, work[c].pc # "idle", Unlink(c)
  PROVE  /\ inbox' \subseteq inbox /\ handled' \in SUBSET FileType
         /\ work' = [work EXCEPT ![c] = NoWork]
BY DEF Base, Typed, Unlink

(* The Refinery's triple, if it is written. *)
LEMMA AnalysisKeeps ==
  ASSUME Base, NEW b \in Bead, persistAnalysis(b), councils' = councils
  PROVE  /\ triples' \in SUBSET TripleType /\ IsFiniteSet(triples')
         /\ \A t \in triples' : t.council <= councils'
         /\ \A t \in triples' \ triples : t.council = 0 /\ t.judge = 0
         /\ triples \subseteq triples'
         /\ spent' \in [Event -> Nat]
<1> DEFINE t == [council |-> 0, bead |-> b, judge |-> 0, approved |-> FALSE]
<1>1. t \in TripleType /\ t.council = 0 /\ t.judge = 0
  BY DEF TripleType
<1>2. "kgfail" \in Event
  BY DEF Event
<1>3. CASE triples' = triples \cup {t} /\ UNCHANGED spent
  <2> HIDE DEF t
  <2>1. IsFiniteSet(triples')
    BY <1>3, FS_AddElement DEF Base, Typed
  <2> QED BY <1>1, <1>3, <2>1 DEF Base, Typed, Named
<1>4. CASE Spend("kgfail") /\ UNCHANGED triples
  BY <1>2, <1>4, SpendCounts DEF Base, Typed, Named
<1> QED BY <1>3, <1>4 DEF persistAnalysis

(* The Refinery's look at a patch. *)
LEMMA PrePassBase ==
  ASSUME Base, NEW c \in Cycle, prePass(c)
  PROVE  Base'
<1>1. /\ work[c].pc = "analyzing"
      /\ UNCHANGED <<inbox, handled, sent, ledger, councils, analyses>>
  BY DEF prePass
<1>2. PICK pc \in Before : Moves(c, pc)
  BY DEF prePass, Before
<1>3. /\ work' \in [Cycle -> WorkType]
      /\ \A d \in Cycle : work'[d].pc # "idle" => work'[d].file \in FileType
      /\ \A d \in Cycle : work'[d].file = work[d].file
  BY <1>1, <1>2, GoesOn DEF Base
<1>4. work[c].file.bead \in Bead
  <2>1. work[c].file \in FileType
    BY <1>1 DEF Base, Typed
  <2> QED BY <2>1 DEF FileType
<1>5. /\ triples' \in SUBSET TripleType /\ IsFiniteSet(triples')
      /\ \A t \in triples' : t.council <= councils'
      /\ spent' \in [Event -> Nat]
  <2>1. CASE persistAnalysis(work[c].file.bead)
    BY <1>1, <1>4, <2>1, AnalysisKeeps
  <2>2. CASE UNCHANGED <<triples, spent>>
    BY <1>1, <2>2 DEF Base, Typed, Named
  <2> QED BY <2>1, <2>2 DEF prePass
<1>6. /\ ledger' \in [Bead -> Seq(RecordType)]
      /\ \A d \in Bead : \A i \in DOMAIN ledger'[d] : ledger'[d][i].file <= sent
  BY <1>1 DEF Base, Typed, Named
<1>7. inbox' \subseteq inbox /\ handled' \in SUBSET FileType /\ analyses' \subseteq analyses
      /\ councils' \in Nat /\ sent' = sent
  BY <1>1 DEF Base, Typed
<1> QED BY <1>3, <1>5, <1>6, <1>7, WrittenBase

(* The note that the Refinery has looked at it. *)
LEMMA NoteBase ==
  ASSUME Base, NEW c \in Cycle, notePrePass(c)
  PROVE  Base'
<1>1. /\ work[c].pc = "noting" /\ Moves(c, "judging")
      /\ UNCHANGED <<inbox, handled, sent, triples, councils, analyses>>
  BY DEF notePrePass
<1>2. /\ work' \in [Cycle -> WorkType]
      /\ \A d \in Cycle : work'[d].pc # "idle" => work'[d].file \in FileType
      /\ \A d \in Cycle : work'[d].file = work[d].file
  BY <1>1, GoesOn DEF Base, Before
<1>3. work[c].file.bead \in Bead
  <2>1. work[c].file \in FileType
    BY <1>1 DEF Base, Typed
  <2> QED BY <2>1 DEF FileType
<1>4. /\ ledger' \in [Bead -> Seq(RecordType)] /\ spent' \in [Event -> Nat]
      /\ \A d \in Bead : \A i \in DOMAIN ledger'[d] : ledger'[d][i].file <= sent
  <2>1. CASE appendBead(work[c].file.bead, "in_progress", "none", 0) /\ UNCHANGED spent
    <3> DEFINE r == [status |-> "in_progress", outcome |-> "none", file |-> 0]
    <3>1. r \in RecordType /\ r.file <= sent
      BY DEF RecordType, Base, Typed
    <3>2. ledger' = [ledger EXCEPT ![work[c].file.bead] = Append(@, r)]
      BY <2>1 DEF appendBead
    <3> HIDE DEF r
    <3> QED BY <1>3, <2>1, <3>1, <3>2, RecordsAppend, RecordsNamed DEF Base, Typed
  <2>2. CASE Spend("locktimeout") /\ UNCHANGED ledger
    <3>1. "locktimeout" \in Event
      BY DEF Event
    <3> QED BY <2>2, <3>1, SpendCounts DEF Base, Typed, Named
  <2> QED BY <2>1, <2>2 DEF notePrePass
<1>5. /\ inbox' \subseteq inbox /\ handled' \in SUBSET FileType /\ analyses' \subseteq analyses
      /\ councils' \in Nat /\ sent' = sent
      /\ triples' \in SUBSET TripleType /\ IsFiniteSet(triples')
      /\ \A t \in triples' : t.council <= councils'
  BY <1>1 DEF Base, Typed, Named
<1> QED BY <1>2, <1>4, <1>5, WrittenBase

(* Councils have one or three judges. *)
LEMMA OneOrThree ==
  Cardinality(1 .. 1) = 1 /\ Cardinality(1 .. 3) = 3 /\ IsFiniteSet(1 .. 3)
<1>1. \A n \in Int : /\ Cardinality(1 .. n) = IF 1 > n THEN 0 ELSE n - 1 + 1
                     /\ IsFiniteSet(1 .. n)
  BY FS_Interval
<1>2. \A n \in Int : n > 0 => Cardinality(1 .. n) = n /\ IsFiniteSet(1 .. n)
  BY <1>1
<1>3. 3 \in Int /\ 3 > 0 /\ 1 \in Int /\ 1 > 0
  OBVIOUS
<1> QED BY <1>2, <1>3, Zenon

(* The triples of a council: a ballot per judge of a critical bead, and    *)
(* then the verdict. *)
Row(b, i, approved) ==
  [council |-> councils + 1, bead |-> b, judge |-> i, approved |-> approved]
Ballots(b, votes, k) == {Row(b, i, i \in votes) : i \in IF b \in Critical THEN 1 .. k ELSE {}}

(* What a council can have done: its verdict is in hand, or a write failed *)
(* and the convoy is gone. *)
Decided(c, votes) ==
  LET b == work[c].file.bead IN
  /\ triples' = triples \cup Ballots(b, votes, 3) \cup {Row(b, 0, Majority(votes, b))}
  /\ work' = [work EXCEPT ![c] = [pc |-> "recording", file |-> work[c].file,
                                  approved |-> Majority(votes, b)]]
  /\ UNCHANGED <<inbox, handled, spent>>
Undecided(c, votes) ==
  /\ Spend("kgfail")
  /\ \E k \in 0 .. 3 : triples' = triples \cup Ballots(work[c].file.bead, votes, k)
  /\ Unlink(c)

(* A review is one or the other. *)
LEMMA CouncilEnds ==
  ASSUME Base, NEW c \in Cycle, review(c)
  PROVE  /\ work[c].pc = "judging" /\ councils' = councils + 1
         /\ UNCHANGED <<sent, ledger, analyses>>
         /\ work[c].file \in FileType /\ work[c].file.bead \in Bead
         /\ \E votes \in SUBSET (1 .. 3) : Decided(c, votes) \/ Undecided(c, votes)
<1>1. /\ work[c].pc = "judging" /\ councils' = councils + 1
      /\ UNCHANGED <<sent, ledger, analyses>>
  BY DEF review
<1>2. work[c].file \in FileType /\ work[c].file.bead \in Bead
  <2>1. work[c].file \in FileType
    BY <1>1 DEF Base, Typed
  <2> QED BY <2>1 DEF FileType
<1>3. Cardinality(1 .. 3) = 3 /\ Cardinality(1 .. 1) = 1
  BY OneOrThree
<1>4. PICK votes \in {1 .. n : n \in 0 .. Cardinality(Judges(work[c].file.bead))} :
        Decided(c, votes) \/ Undecided(c, votes)
  BY <1>1 DEF review, Decided, Undecided, Ballots, Row
<1>5. Cardinality(Judges(work[c].file.bead)) \in {1, 3}
  BY <1>3 DEF Judges
<1>6. votes \in SUBSET (1 .. 3)
  BY <1>5
<1> QED BY <1>1, <1>2, <1>4, <1>6

(* The ballots and the verdict are triples of the new council. *)
LEMMA BallotsKept ==
  ASSUME Base, NEW b \in Bead, NEW votes \in SUBSET (1 .. 3), NEW k \in 0 .. 3
  PROVE  /\ Ballots(b, votes, k) \in SUBSET TripleType /\ IsFiniteSet(Ballots(b, votes, k))
         /\ \A t \in Ballots(b, votes, k) : t.council = councils + 1 /\ t.judge # 0
         /\ Majority(votes, b) \in BOOLEAN
         /\ Row(b, 0, Majority(votes, b)) \in TripleType
<1>1. councils + 1 \in Nat
  BY DEF Base, Typed
<1>2. \A i \in 0 .. 3, a \in BOOLEAN : Row(b, i, a) \in TripleType
                                      /\ Row(b, i, a).council = councils + 1
                                      /\ Row(b, i, a).judge = i
  BY <1>1 DEF Row, TripleType
<1> DEFINE J == IF b \in Critical THEN 1 .. k ELSE {}
           R(i) == Row(b, i, i \in votes)
<1>3. \A i \in 1 .. k : R(i) \in TripleType /\ R(i).council = councils + 1 /\ R(i).judge # 0
  <2> SUFFICES ASSUME NEW i \in 1 .. k
               PROVE  R(i) \in TripleType /\ R(i).council = councils + 1 /\ R(i).judge # 0
    OBVIOUS
  <2> DEFINE a == i \in votes
  <2>1. a \in BOOLEAN /\ i \in 0 .. 3 /\ i # 0
    OBVIOUS
  <2>2. R(i) = Row(b, i, a)
    OBVIOUS
  <2> HIDE DEF a, R
  <2> QED BY <1>2, <2>1, <2>2
<1>4. J \subseteq 1 .. k
  OBVIOUS
<1>5. Ballots(b, votes, k) = {R(i) : i \in J}
  BY DEF Ballots
<1>6. \A i \in 1 .. k : i \in {1, 2, 3}
  OBVIOUS
<1> HIDE DEF R, J
<1>7. IsFiniteSet(Ballots(b, votes, k))
  <2>1. \A i \in J : R(i) \in {R(1)} \cup {R(2)} \cup {R(3)}
    BY <1>4, <1>6
  <2>2. Ballots(b, votes, k) \in SUBSET ({R(1)} \cup {R(2)} \cup {R(3)})
    BY <1>5, <2>1
  <2>3. IsFiniteSet({R(1)})
    BY FS_Singleton
  <2>4. IsFiniteSet({R(1)} \cup {R(2)})
    BY <2>3, FS_AddElement
  <2>5. IsFiniteSet({R(1)} \cup {R(2)} \cup {R(3)})
    BY <2>4, FS_AddElement
  <2> QED BY <2>2, <2>5, FS_Subset
<1>8. Majority(votes, b) \in BOOLEAN
  BY DEF Majority
<1>9. /\ Ballots(b, votes, k) \in SUBSET TripleType
      /\ \A t \in Ballots(b, votes, k) : t.council = councils + 1 /\ t.judge # 0
  BY <1>3, <1>4, <1>5
<1> QED BY <1>2, <1>7, <1>8, <1>9

(* A council keeps types and names. *)
LEMMA ReviewBase ==
  ASSUME Base, NEW c \in Cycle, review(c)
  PROVE  Base'
<1> DEFINE b == work[c].file.bead
<1>1. /\ work[c].pc = "judging" /\ councils' = councils + 1
      /\ UNCHANGED <<sent, ledger, analyses>>
      /\ work[c].file \in FileType /\ b \in Bead
  BY CouncilEnds
<1>2. PICK votes \in SUBSET (1 .. 3) : Decided(c, votes) \/ Undecided(c, votes)
  BY CouncilEnds
<1>3. /\ IsFiniteSet(triples) /\ triples \in SUBSET TripleType
      /\ councils \in Nat /\ \A t \in triples : t.council <= councils
  BY DEF Base, Typed, Named
<1>4. /\ inbox' \subseteq inbox /\ handled' \in SUBSET FileType /\ spent' \in [Event -> Nat]
      /\ work' \in [Cycle -> WorkType]
      /\ \A d \in Cycle : work'[d].pc # "idle" => work'[d].file \in FileType
      /\ \A d \in Cycle : work'[d].file = work[d].file \/ work'[d].file = NoWork.file
      /\ triples' \in SUBSET TripleType /\ IsFiniteSet(triples')
      /\ \A t \in triples' : t.council <= councils'
  <2>1. CASE Decided(c, votes)
    <3> DEFINE a == Majority(votes, b)
               w == [pc |-> "recording", file |-> work[c].file, approved |-> a]
               B == Ballots(b, votes, 3)
               r == Row(b, 0, a)
    <3>1. /\ B \in SUBSET TripleType /\ IsFiniteSet(B) /\ a \in BOOLEAN /\ r \in TripleType
          /\ \A t \in B : t.council = councils + 1
      BY <1>1, BallotsKept
    <3>2. /\ triples' = triples \cup B \cup {r} /\ work' = [work EXCEPT ![c] = w]
          /\ UNCHANGED <<inbox, handled, spent>> /\ r.council = councils + 1
      BY <2>1 DEF Decided, Row
    <3>3. w \in WorkType /\ w.file \in FileType /\ w.file = work[c].file
      BY <1>1, <3>1, WorkIsTyped DEF Before
    <3> HIDE DEF b, a, w, B, r
    <3>4. IsFiniteSet(triples') /\ triples' \in SUBSET TripleType
      BY <1>3, <3>1, <3>2, FS_Union, FS_AddElement
    <3>5. \A t \in triples' : t.council <= councils'
      <4>1. \A t \in triples' : t \in triples \/ t.council = councils + 1
        BY <3>1, <3>2
      <4>2. \A t \in triples : t.council \in Nat
        BY <1>3 DEF TripleType
      <4> QED BY <1>1, <1>3, <4>1, <4>2
    <3>6. /\ work' \in [Cycle -> WorkType]
          /\ \A d \in Cycle : work'[d].pc # "idle" => work'[d].file \in FileType
          /\ work'[c] = w /\ \A d \in Cycle \ {c} : work'[d] = work[d]
      BY <3>2, <3>3, InHand DEF Base
    <3> QED BY <3>2, <3>3, <3>4, <3>5, <3>6 DEF Base, Typed
  <2>2. CASE Undecided(c, votes)
    <3>1. PICK k \in 0 .. 3 : triples' = triples \cup Ballots(b, votes, k)
      BY <2>2 DEF Undecided
    <3> DEFINE B == Ballots(b, votes, k)
    <3>2. /\ B \in SUBSET TripleType /\ IsFiniteSet(B)
          /\ \A t \in B : t.council = councils + 1
      BY <1>1, BallotsKept
    <3>3. triples' = triples \cup B
      BY <3>1
    <3>4. "kgfail" \in Event /\ Spend("kgfail") /\ Unlink(c)
      BY <2>2 DEF Undecided, Event
    <3> HIDE DEF b, B
    <3>5. IsFiniteSet(triples') /\ triples' \in SUBSET TripleType
      BY <1>3, <3>2, <3>3, FS_Union
    <3>6. \A t \in triples' : t.council <= councils'
      <4>1. \A t \in triples' : t \in triples \/ t.council = councils + 1
        BY <3>2, <3>3
      <4>2. \A t \in triples : t.council \in Nat
        BY <1>3 DEF TripleType
      <4> QED BY <1>1, <1>3, <4>1, <4>2
    <3>7. spent' \in [Event -> Nat]
      BY <3>4, SpendCounts DEF Base
    <3>8. /\ inbox' \subseteq inbox /\ handled' \in SUBSET FileType
          /\ work' = [work EXCEPT ![c] = NoWork]
      BY <1>1, <3>4, UnlinkKeeps
    <3> QED BY <3>5, <3>6, <3>7, <3>8, Ends DEF Base
  <2> QED BY <1>2, <2>1, <2>2
<1>5. /\ ledger' \in [Bead -> Seq(RecordType)] /\ analyses' \subseteq analyses
      /\ \A d \in Bead : \A i \in DOMAIN ledger'[d] : ledger'[d][i].file <= sent
      /\ councils' \in Nat /\ sent' = sent
  BY <1>1 DEF Base, Typed, Named
<1> QED BY <1>4, <1>5, WrittenBase

(* How a verdict is recorded: the record of the file in hand, or none. *)
Recorded(c) ==
  LET f == work[c].file IN
  /\ \/ /\ work[c].approved
        /\ ledger' = [ledger EXCEPT ![f.bead] =
             Append(@, [status |-> "done", outcome |-> "SUCCESS", file |-> f.id])]
     \/ /\ ~work[c].approved
        /\ ledger' = [ledger EXCEPT ![f.bead] =
             Append(@, [status |-> "failed", outcome |-> "FAILURE", file |-> f.id])]
  /\ Moves(c, "reporting")
  /\ UNCHANGED <<inbox, handled, spent>>
Refused(c) == Spend("locktimeout") /\ Unlink(c) /\ UNCHANGED ledger

(* One or the other. *)
LEMMA RecordEnds ==
  ASSUME Base, NEW c \in Cycle, recordVerdict(c)
  PROVE  /\ work[c].pc = "recording" /\ UNCHANGED <<sent, triples, councils, analyses>>
         /\ work[c].file \in FileType /\ work[c].file.bead \in Bead
         /\ work[c].file.id \in Nat \ {0} /\ work[c].file.id <= sent
         /\ Recorded(c) \/ Refused(c)
<1>1. work[c].pc = "recording" /\ UNCHANGED <<sent, triples, councils, analyses>>
  BY DEF recordVerdict
<1>2. work[c].file \in FileType
  BY <1>1 DEF Base, Typed
<1>3. work[c].file.bead \in Bead /\ work[c].file.id \in Nat \ {0}
  BY <1>2 DEF FileType
<1>4. work[c].file.id <= sent
  BY DEF Base, Named
<1>5. Recorded(c) \/ Refused(c)
  BY DEF recordVerdict, Recorded, Refused, appendBead
<1> QED BY <1>1, <1>2, <1>3, <1>4, <1>5

(* The record of a verdict keeps types and names. *)
LEMMA RecordBase ==
  ASSUME Base, NEW c \in Cycle, recordVerdict(c)
  PROVE  Base'
<1> DEFINE f == work[c].file
           p == [status |-> "done", outcome |-> "SUCCESS", file |-> f.id]
           q == [status |-> "failed", outcome |-> "FAILURE", file |-> f.id]
<1>1. /\ work[c].pc = "recording" /\ UNCHANGED <<sent, triples, councils, analyses>>
      /\ f.bead \in Bead /\ f.id \in Nat /\ f.id <= sent
      /\ Recorded(c) \/ Refused(c)
  BY RecordEnds
<1>2. p \in RecordType /\ q \in RecordType /\ p.file <= sent /\ q.file <= sent
  BY <1>1 DEF RecordType
<1>3. /\ triples' \in SUBSET TripleType /\ IsFiniteSet(triples')
      /\ \A t \in triples' : t.council <= councils'
      /\ councils' \in Nat /\ sent' = sent /\ analyses' \subseteq analyses
  BY <1>1 DEF Base, Typed, Named
<1>4. CASE Recorded(c)
  <2>1. \E r \in {p, q} : ledger' = [ledger EXCEPT ![f.bead] = Append(@, r)]
    BY <1>4 DEF Recorded
  <2> HIDE DEF p, q
  <2>2. PICK r \in RecordType : /\ r.file <= sent
                                /\ ledger' = [ledger EXCEPT ![f.bead] = Append(@, r)]
    BY <1>2, <2>1
  <2>3. /\ ledger' \in [Bead -> Seq(RecordType)]
        /\ \A d \in Bead : \A i \in DOMAIN ledger'[d] : ledger'[d][i].file <= sent
    BY <1>1, <2>2, RecordsAppend, RecordsNamed DEF Base
  <2>4. Moves(c, "reporting") /\ UNCHANGED <<inbox, handled, spent>>
    BY <1>4 DEF Recorded
  <2>5. /\ work' \in [Cycle -> WorkType]
        /\ \A d \in Cycle : work'[d].pc # "idle" => work'[d].file \in FileType
        /\ \A d \in Cycle : work'[d].file = work[d].file
    BY <1>1, <2>4, GoesOn DEF Base
  <2>6. inbox' \subseteq inbox /\ handled' \in SUBSET FileType /\ spent' \in [Event -> Nat]
    BY <2>4 DEF Base, Typed
  <2> QED BY <1>3, <2>3, <2>5, <2>6, WrittenBase
<1>5. CASE Refused(c)
  <2>1. "locktimeout" \in Event /\ Spend("locktimeout") /\ Unlink(c) /\ UNCHANGED ledger
    BY <1>5 DEF Refused, Event
  <2>2. spent' \in [Event -> Nat]
    BY <2>1, SpendCounts DEF Base
  <2>3. /\ inbox' \subseteq inbox /\ handled' \in SUBSET FileType
        /\ work' = [work EXCEPT ![c] = NoWork]
    BY <1>1, <2>1, UnlinkKeeps
  <2>4. /\ ledger' \in [Bead -> Seq(RecordType)]
        /\ \A d \in Bead : \A i \in DOMAIN ledger'[d] : ledger'[d][i].file <= sent
    BY <2>1 DEF Base, Typed, Named
  <2>5. /\ work' \in [Cycle -> WorkType]
        /\ \A d \in Cycle : work'[d].pc # "idle" => work'[d].file \in FileType
        /\ \A d \in Cycle : work'[d].file = work[d].file \/ work'[d].file = NoWork.file
    BY <2>3, Ends DEF Base
  <2> QED BY <1>3, <2>2, <2>3, <2>4, <2>5, WrittenBase
<1> QED BY <1>1, <1>4, <1>5

(* The file goes, and a rejection is sent. *)
LEMMA ReportBase ==
  ASSUME Base, NEW c \in Cycle, reportVerdict(c)
  PROVE  Base'
<1> DEFINE f == work[c].file
           g == File("mayor", "witness", "REVIEW_VERDICT", f.bead, FALSE, FALSE)
<1>1. /\ work[c].pc = "reporting" /\ handled' = handled \cup {f}
      /\ work' = [work EXCEPT ![c] = NoWork]
      /\ UNCHANGED <<ledger, triples, councils, analyses, spent>>
  BY DEF reportVerdict
<1>2. f \in FileType
  BY <1>1 DEF Base, Typed
<1>3. f.bead \in Bead /\ "witness" \in Sender
  BY <1>2 DEF FileType, Sender
<1>4. g \in FileType /\ g.id = sent + 1
  BY <1>3, FileIsTyped DEF Base
<1>5. \/ inbox' \subseteq inbox /\ sent' = sent
      \/ inbox' \subseteq inbox \cup {g} /\ sent' = sent + 1
  BY DEF reportVerdict
<1>6. /\ work' \in [Cycle -> WorkType]
      /\ \A d \in Cycle : work'[d].pc # "idle" => work'[d].file \in FileType
      /\ \A d \in Cycle : work'[d].file = work[d].file \/ work'[d].file = NoWork.file
  BY <1>1, Ends DEF Base
<1> HIDE DEF f, g
<1>7. Typed'
  BY <1>1, <1>2, <1>4, <1>5, <1>6 DEF Base, Typed
<1>8. /\ \A t \in triples' : t.council <= councils'
      /\ \A d \in Bead : \A i \in DOMAIN ledger'[d] : ledger'[d][i].file <= sent
  BY <1>1 DEF Base, Named
<1> QED BY <1>4, <1>5, <1>6, <1>7, <1>8, NamesKept DEF Base

(* The Refinery's look at a rejection. *)
LEMMA EscalationBase ==
  ASSUME Base, NEW f \in analyses, escalateToRefinery(f)
  PROVE  Base'
<1>1. /\ analyses' \subseteq analyses
      /\ UNCHANGED <<inbox, handled, sent, work, ledger, councils>>
  BY DEF escalateToRefinery
<1>2. f.bead \in Bead
  BY DEF Base, Typed, FileType
<1>3. /\ triples' \in SUBSET TripleType /\ IsFiniteSet(triples')
      /\ \A t \in triples' : t.council <= councils'
      /\ spent' \in [Event -> Nat]
  <2>1. CASE persistAnalysis(f.bead)
    BY <1>1, <1>2, <2>1, AnalysisKeeps
  <2>2. CASE UNCHANGED <<triples, spent>>
    BY <1>1, <2>2 DEF Base, Typed, Named
  <2> QED BY <2>1, <2>2 DEF escalateToRefinery
<1>4. /\ ledger' \in [Bead -> Seq(RecordType)] /\ work' \in [Cycle -> WorkType]
      /\ \A d \in Cycle : work'[d].pc # "idle" => work'[d].file \in FileType
      /\ \A d \in Cycle : work'[d].file = work[d].file
      /\ \A d \in Bead : \A i \in DOMAIN ledger'[d] : ledger'[d][i].file <= sent
      /\ inbox' \subseteq inbox /\ handled' \in SUBSET FileType
      /\ councils' \in Nat /\ sent' = sent
  BY <1>1 DEF Base, Typed, Named
<1> QED BY <1>1, <1>3, <1>4, WrittenBase

(* A crash drops what is in hand. *)
LEMMA CrashBase ==
  ASSUME Base, Crash
  PROVE  Base'
<1>1. /\ "crash" \in Event /\ Spend("crash") /\ analyses' = {}
      /\ work' = [d \in Cycle |-> NoWork]
      /\ UNCHANGED <<inbox, handled, sent, ledger, triples, councils>>
  BY DEF Crash, Event
<1>2. spent' \in [Event -> Nat]
  BY <1>1, SpendCounts DEF Base
<1>3. /\ work' \in [Cycle -> WorkType]
      /\ \A d \in Cycle : work'[d].pc # "idle" => work'[d].file \in FileType
      /\ \A d \in Cycle : work'[d].file = NoWork.file
  BY <1>1, WorkIsTyped, Numbers DEF Base
<1>4. /\ ledger' \in [Bead -> Seq(RecordType)] /\ analyses' \subseteq analyses
      /\ \A d \in Bead : \A i \in DOMAIN ledger'[d] : ledger'[d][i].file <= sent
      /\ inbox' \subseteq inbox /\ handled' \in SUBSET FileType
      /\ triples' \in SUBSET TripleType /\ IsFiniteSet(triples')
      /\ \A t \in triples' : t.council <= councils'
      /\ councils' \in Nat /\ sent' = sent
  BY <1>1 DEF Base, Typed, Named
<1> QED BY <1>2, <1>3, <1>4, WrittenBase

(* Nothing has happened yet. *)
LEMMA InitBase == Init => Base
<1> SUFFICES ASSUME Init PROVE Base
  OBVIOUS
<1>1. /\ inbox = {} /\ handled = {} /\ sent = 0 /\ work = [c \in Cycle |-> NoWork]
      /\ ledger = [b \in Bead |-> <<>>] /\ triples = {} /\ councils = 0 /\ analyses = {}
      /\ spent = [e \in Event |-> 0]
  BY DEF Init
<1>2. NoWork.pc = "idle" /\ NoWork.file.id = 0
  BY DEF NoWork
<1>3. /\ work \in [Cycle -> WorkType]
      /\ \A c \in Cycle : work[c].pc = "idle" /\ work[c].file.id = 0
  BY <1>1, <1>2, WorkIsTyped
<1>4. /\ ledger \in [Bead -> Seq(RecordType)] /\ \A b \in Bead : DOMAIN ledger[b] = {}
  BY <1>1
<1>5. Typed
  BY <1>1, <1>3, <1>4, FS_EmptySet DEF Typed
<1>6. Named
  BY <1>1, <1>3, <1>4 DEF Named
<1> QED BY <1>5, <1>6 DEF Base

(* Every step is one of these. *)
LEMMA NextBase == Base /\ [Next]_vars => Base'
<1> SUFFICES ASSUME Base, [Next]_vars PROVE Base'
  OBVIOUS
<1>1. CASE UNCHANGED vars
  BY <1>1 DEF vars, Base, Typed, Named
<1>2. CASE \E b \in Bead : \/ \E s \in {"runtime", "polecat"} : routeToWitness(b, s)
                           \/ \E a \in BOOLEAN : ForeignVerdict(b, a)
  BY <1>2, SubmitBase, ForeignBase
<1>3. CASE \E c \in Cycle : \E f \in inbox :
             Quarantine(c, f) \/ handleWitnessInbox(c, f) \/ handleMayorInbox(c, f)
  BY <1>3, QuarantineBase, TakePatchBase, VerdictBase
<1>4. CASE \E c \in Cycle : prePass(c) \/ notePrePass(c) \/ review(c) \/ recordVerdict(c)
                            \/ reportVerdict(c)
  BY <1>4, PrePassBase, NoteBase, ReviewBase, RecordBase, ReportBase
<1>5. CASE \E f \in analyses : escalateToRefinery(f)
  BY <1>5, EscalationBase
<1>6. CASE Crash
  BY <1>6, CrashBase
<1> QED BY <1>1, <1>2, <1>3, <1>4, <1>5, <1>6 DEF Next

(* Types and names hold throughout. *)
THEOREM BaseHolds == Spec => []Base
BY InitBase, NextBase, PTL DEF Spec
-----------------------------------------------------------------------------
(* Most steps disturb none of the three properties: the ledger gets notes  *)
(* at most, no convoy in hand gets further than its council, the graph     *)
(* gets no verdict, and what is handled was recorded, or a write failed.   *)

(* A cycle that rests has nothing in hand. *)
Idle == \A c \in Cycle : work[c].pc = "idle" => work[c].file.id = 0

Noted ==
  \A b \in Bead :
    /\ DOMAIN ledger[b] \subseteq DOMAIN ledger'[b]
    /\ \A i \in DOMAIN ledger[b] : ledger'[b][i] = ledger[b][i]
    /\ \A i \in DOMAIN ledger'[b] \ DOMAIN ledger[b] : ledger'[b][i].file = 0
OnlyBallots ==
  /\ triples \subseteq triples'
  /\ \A t \in triples' \ triples :
       t.council = 0 \/ (t.council = councils + 1 /\ t.judge # 0)
NotFurther ==
  \A c \in Cycle :
    /\ work'[c].pc = "idle" => work'[c].file.id = 0
    /\ work'[c].pc \in Before => work[c].pc \in Before /\ work'[c].file = work[c].file
    /\ work'[c].pc \in {"recording", "reporting"} => work'[c] = work[c]
StillThere ==
  \A f \in inbox' : \/ f \in inbox /\ (Busy(f) => Busy(f)')
                    \/ f.id = sent + 1
Counted == \A e \in Event : spent[e] <= spent'[e]
Failed == spent["kgfail"] + spent["locktimeout"] > 0
DoneWith ==
  \A f \in handled' \ handled :
    f.type # "PATCH_READY" \/ Failed'
    \/ \E c \in Cycle : work[c].pc = "reporting" /\ work[c].file = f

Calm == Noted /\ OnlyBallots /\ NotFurther /\ StillThere /\ Counted /\ DoneWith

(* Events only add up. *)
LEMMA CountedBySpend ==
  ASSUME Base
  PROVE  /\ \A e \in Event : Spend(e) => Counted /\ spent'[e] = spent[e] + 1
         /\ UNCHANGED spent => Counted
         /\ \A e \in {"kgfail", "locktimeout"} : Spend(e) => Failed'
<1>1. \A e \in Event : spent[e] \in Nat
  BY DEF Base, Typed
<1>2. ASSUME NEW e \in Event, Spend(e)
      PROVE  /\ spent'[e] = spent[e] + 1
             /\ \A f \in Event \ {e} : spent'[f] = spent[f]
  BY <1>2, SpendCounts DEF Base
<1>3. ASSUME NEW e \in Event, Spend(e)
      PROVE  Counted
  BY <1>1, <1>2, <1>3 DEF Counted
<1>4. "kgfail" \in Event /\ "locktimeout" \in Event
  BY DEF Event
<1>5. ASSUME NEW e \in {"kgfail", "locktimeout"}, Spend(e)
      PROVE  Failed'
  BY <1>1, <1>2, <1>4, <1>5 DEF Failed
<1>6. UNCHANGED spent => Counted
  BY <1>1 DEF Counted
<1> QED BY <1>2, <1>3, <1>5, <1>6

(* A cycle that is done takes the file with it. *)
LEMMA UnlinkCalm ==
  ASSUME Base, Idle, NEW c \in Cycle, work[c].pc # "idle",
         inbox' \subseteq inbox \ {work[c].file}, work' = [work EXCEPT ![c] = NoWork]
  PROVE  NotFurther /\ StillThere
<1>1. /\ work'[c] = NoWork /\ \A d \in Cycle \ {c} : work'[d] = work[d]
      /\ NoWork.pc = "idle" /\ NoWork.file.id = 0
  BY Ends, Numbers DEF Base
<1>2. "idle" \notin Before \cup {"recording", "reporting"}
  BY DEF Before
<1>3. NotFurther
  BY <1>1, <1>2 DEF NotFurther, Idle
<1>4. ASSUME NEW f \in inbox', Busy(f)
      PROVE  Busy(f)'
  <2>1. PICK d \in Cycle : work[d].file.id = f.id
    BY <1>4 DEF Busy
  <2>2. work[d].file = f
    BY <2>1 DEF Base, Named
  <2>3. d # c
    BY <2>2
  <2> QED BY <1>1, <2>1, <2>3 DEF Busy
<1> QED BY <1>3, <1>4 DEF StillThere

(* A cycle that goes on to look or to judge. *)
LEMMA MovesCalm ==
  ASSUME Base, Idle, NEW c \in Cycle, work[c].pc \in Before,
         NEW pc \in {"noting", "judging"}, Moves(c, pc)
  PROVE  NotFurther /\ \A f : Busy(f) => Busy(f)'
<1>1. work[c].pc # "idle" /\ pc \in Before
  BY DEF Before
<1>2. /\ work'[c] = [pc |-> pc, file |-> work[c].file, approved |-> work[c].approved]
      /\ \A d \in Cycle \ {c} : work'[d] = work[d]
      /\ \A d \in Cycle : work'[d].file = work[d].file
  BY <1>1, GoesOn DEF Base
<1>3. work'[c].pc \in {"noting", "judging"}
  BY <1>2
<1>4. \A d \in Cycle : work'[d].pc = "idle" => work'[d].file.id = 0
  BY <1>2, <1>3 DEF Idle
<1>5. \A d \in Cycle : work'[d].pc \in Before => work[d].pc \in Before
  BY <1>2
<1>6. \A d \in Cycle : work'[d].pc \in {"recording", "reporting"} => work'[d] = work[d]
  BY <1>2, <1>3
<1> QED BY <1>2, <1>4, <1>5, <1>6 DEF NotFurther, Busy

(* Where a part of the state does not change, the part of Calm is trivial. *)
LEMMA CalmIfSame ==
  ASSUME Base, Idle
  PROVE  /\ UNCHANGED ledger => Noted
         /\ UNCHANGED triples => OnlyBallots
         /\ UNCHANGED work => NotFurther
         /\ UNCHANGED work /\ inbox' \subseteq inbox => StillThere
         /\ UNCHANGED handled => DoneWith
<1>1. UNCHANGED work => \A f : Busy(f) => Busy(f)'
  BY DEF Busy
<1> QED BY <1>1 DEF Idle, Noted, OnlyBallots, NotFurther, StillThere, DoneWith

(* A note of appendBead is one. *)
LEMMA NoteIsNoted ==
  ASSUME Base, NEW b \in Bead, NEW r \in RecordType, r.file = 0,
         ledger' = [ledger EXCEPT ![b] = Append(@, r)]
  PROVE  Noted
<1>1. /\ \A d \in Bead \ {b} : ledger'[d] = ledger[d]
      /\ DOMAIN ledger'[b] = DOMAIN ledger[b] \cup {Len(ledger[b]) + 1}
      /\ \A i \in DOMAIN ledger[b] : ledger'[b][i] = ledger[b][i]
      /\ ledger'[b][Len(ledger[b]) + 1] = r
  BY RecordsAppend DEF Base
<1> QED BY <1>1 DEF Noted

(* The records of a polecat are no reviews. *)
LEMMA SubmitCalm ==
  ASSUME Base, Idle, NEW b \in Bead, NEW s \in {"runtime", "polecat"}, routeToWitness(b, s)
  PROVE  Calm
<1> DEFINE f == File("witness", s, "PATCH_READY", b, s # "runtime", FALSE)
           r == [status |-> "in_progress", outcome |-> "none", file |-> 0]
           q == [status |-> "done", outcome |-> "SUCCESS", file |-> 0]
<1>1. /\ "submit" \in Event /\ Spend("submit") /\ inbox' = inbox \cup {f}
      /\ UNCHANGED <<handled, work, triples, councils, analyses>>
      /\ ledger' = [ledger EXCEPT ![b] = @ \o <<r, q>>]
  BY DEF routeToWitness, Send, Event
<1>2. f.id = sent + 1
  BY DEF File
<1>3. r \in RecordType /\ q \in RecordType /\ r.file = 0 /\ q.file = 0
  BY DEF RecordType
<1> HIDE DEF f, r, q
<1>4. ledger[b] \in Seq(RecordType) /\ ledger \in [Bead -> Seq(RecordType)]
  BY DEF Base, Typed
<1>5. /\ DOMAIN ledger[b] \subseteq DOMAIN (ledger[b] \o <<r, q>>)
      /\ \A i \in DOMAIN ledger[b] : (ledger[b] \o <<r, q>>)[i] = ledger[b][i]
      /\ \A i \in DOMAIN (ledger[b] \o <<r, q>>) \ DOMAIN ledger[b] :
           (ledger[b] \o <<r, q>>)[i] \in {r, q}
  BY <1>3, <1>4
<1>6. Noted
  BY <1>1, <1>3, <1>4, <1>5 DEF Noted
<1>7. \A g : Busy(g) => Busy(g)'
  BY <1>1 DEF Busy
<1>8. StillThere
  BY <1>1, <1>2, <1>7 DEF StillThere
<1> QED BY <1>1, <1>6, <1>8, CalmIfSame, CountedBySpend DEF Calm

(* A verdict that arrives is only a file. *)
LEMMA ForeignCalm ==
  ASSUME Base, Idle, NEW b \in Bead, NEW a \in BOOLEAN, ForeignVerdict(b, a)
  PROVE  Calm
<1> DEFINE f == File("mayor", "witness", "REVIEW_VERDICT", b, TRUE, a)
<1>1. /\ "verdict" \in Event /\ Spend("verdict") /\ inbox' = inbox \cup {f}
      /\ UNCHANGED <<handled, work, ledger, triples, councils, analyses>>
  BY DEF ForeignVerdict, Send, Event
<1>2. f.id = sent + 1
  BY DEF File
<1> HIDE DEF f
<1>3. \A g : Busy(g) => Busy(g)'
  BY <1>1 DEF Busy
<1>4. StillThere
  BY <1>1, <1>2, <1>3 DEF StillThere
<1> QED BY <1>1, <1>4, CalmIfSame, CountedBySpend DEF Calm

(* A file that is refused is not handled. *)
LEMMA QuarantineCalm ==
  ASSUME Base, Idle, NEW c \in Cycle, NEW f \in inbox, Quarantine(c, f)
  PROVE  Calm
<1>1. /\ inbox' \subseteq inbox
      /\ UNCHANGED <<handled, sent, work, ledger, triples, councils, analyses, spent>>
  BY DEF Quarantine
<1> QED BY <1>1, CalmIfSame, CountedBySpend DEF Calm

(* What the Mayor handles is no patch. *)
LEMMA VerdictCalm ==
  ASSUME Base, Idle, NEW c \in Cycle, NEW f \in inbox, handleMayorInbox(c, f)
  PROVE  Calm
<1>1. /\ inbox' \subseteq inbox /\ handled' = handled \cup {f} /\ f.type = "REVIEW_VERDICT"
      /\ UNCHANGED <<sent, work, ledger, triples, councils>>
      /\ Spend("overlap") \/ UNCHANGED spent
  BY DEF handleMayorInbox, Take
<1>2. "overlap" \in Event
  BY DEF Event
<1>3. DoneWith
  BY <1>1 DEF DoneWith
<1> QED BY <1>1, <1>2, <1>3, CalmIfSame, CountedBySpend DEF Calm

(* The Refinery's triple is no verdict of a council. *)
LEMMA AnalysisCalm ==
  ASSUME Base, NEW b \in Bead, persistAnalysis(b) \/ UNCHANGED <<triples, spent>>,
         councils' = councils
  PROVE  OnlyBallots /\ Counted
<1>1. OnlyBallots
  BY AnalysisKeeps DEF OnlyBallots
<1>2. "kgfail" \in Event
  BY DEF Event
<1> QED BY <1>1, <1>2, CountedBySpend DEF persistAnalysis

(* The pre-pass, whatever becomes of it. *)
LEMMA PrePassCalm ==
  ASSUME Base, Idle, NEW c \in Cycle, prePass(c)
  PROVE  Calm
<1>1. /\ work[c].pc = "analyzing" /\ work[c].pc \in Before
      /\ UNCHANGED <<inbox, handled, sent, ledger, councils, analyses>>
  BY DEF prePass, Before
<1>2. PICK pc \in {"noting", "judging"} : Moves(c, pc)
  BY DEF prePass
<1>3. work[c].file.bead \in Bead
  <2>1. work[c].file \in FileType
    BY <1>1 DEF Base, Typed
  <2> QED BY <2>1 DEF FileType
<1>4. persistAnalysis(work[c].file.bead) \/ UNCHANGED <<triples, spent>>
  BY DEF prePass
<1>5. OnlyBallots /\ Counted
  BY <1>1, <1>3, <1>4, AnalysisCalm
<1>6. NotFurther /\ \A f : Busy(f) => Busy(f)'
  BY <1>1, <1>2, MovesCalm
<1>7. StillThere
  BY <1>1, <1>6 DEF StillThere
<1> QED BY <1>1, <1>5, <1>6, <1>7, CalmIfSame DEF Calm

(* Its note, whether it is written or not. *)
LEMMA NoteCalm ==
  ASSUME Base, Idle, NEW c \in Cycle, notePrePass(c)
  PROVE  Calm
<1>1. /\ work[c].pc = "noting" /\ work[c].pc \in Before /\ Moves(c, "judging")
      /\ UNCHANGED <<inbox, handled, sent, triples, councils, analyses>>
  BY DEF notePrePass, Before
<1>2. work[c].file.bead \in Bead
  <2>1. work[c].file \in FileType
    BY <1>1 DEF Base, Typed
  <2> QED BY <2>1 DEF FileType
<1>3. Noted /\ Counted
  <2>1. CASE appendBead(work[c].file.bead, "in_progress", "none", 0) /\ UNCHANGED spent
    <3> DEFINE r == [status |-> "in_progress", outcome |-> "none", file |-> 0]
    <3>1. r \in RecordType /\ r.file = 0
      BY DEF RecordType
    <3>2. ledger' = [ledger EXCEPT ![work[c].file.bead] = Append(@, r)]
      BY <2>1 DEF appendBead
    <3> HIDE DEF r
    <3> QED BY <1>2, <2>1, <3>1, <3>2, NoteIsNoted, CountedBySpend
  <2>2. CASE Spend("locktimeout") /\ UNCHANGED ledger
    <3>1. "locktimeout" \in Event
      BY DEF Event
    <3>2. Noted
      BY <2>2 DEF Noted
    <3> QED BY <2>2, <3>1, <3>2, CountedBySpend
  <2> QED BY <2>1, <2>2 DEF notePrePass
<1>4. NotFurther /\ \A f : Busy(f) => Busy(f)'
  BY <1>1, MovesCalm
<1>5. StillThere
  BY <1>1, <1>4 DEF StillThere
<1> QED BY <1>1, <1>3, <1>4, <1>5, CalmIfSame DEF Calm

(* What is reported was recorded. *)
LEMMA ReportCalm ==
  ASSUME Base, Idle, NEW c \in Cycle, reportVerdict(c)
  PROVE  Calm
<1> DEFINE f == work[c].file
           g == File("mayor", "witness", "REVIEW_VERDICT", f.bead, FALSE, FALSE)
<1>1. /\ work[c].pc = "reporting" /\ handled' = handled \cup {f}
      /\ work' = [work EXCEPT ![c] = NoWork]
      /\ UNCHANGED <<ledger, triples, councils, analyses, spent>>
  BY DEF reportVerdict
<1>2. inbox' = inbox \ {f} \/ inbox' = (inbox \ {f}) \cup {g}
  BY DEF reportVerdict
<1>3. g.id = sent + 1
  BY DEF File
<1> HIDE DEF g
<1>4. DoneWith
  BY <1>1 DEF DoneWith
<1>5. /\ work'[c] = NoWork /\ \A d \in Cycle \ {c} : work'[d] = work[d]
      /\ NoWork.pc = "idle" /\ NoWork.file.id = 0
  BY <1>1, Ends, Numbers DEF Base
<1>6. NotFurther
  <2>1. "idle" \notin Before \cup {"recording", "reporting"}
    BY DEF Before
  <2> QED BY <1>5, <2>1 DEF NotFurther, Idle
<1>7. ASSUME NEW h \in inbox \ {f}, Busy(h)
      PROVE  Busy(h)'
  <2>1. PICK d \in Cycle : work[d].file.id = h.id
    BY <1>7 DEF Busy
  <2>2. work[d].file = h
    BY <2>1 DEF Base, Named
  <2>3. d # c
    BY <2>2
  <2> QED BY <1>5, <2>1, <2>3 DEF Busy
<1>8. StillThere
  BY <1>2, <1>3, <1>7 DEF StillThere
<1> QED BY <1>1, <1>4, <1>6, <1>8, CalmIfSame, CountedBySpend DEF Calm

(* An escalation. *)
LEMMA EscalationCalm ==
  ASSUME Base, Idle, NEW f \in analyses, escalateToRefinery(f)
  PROVE  Calm
<1>1. /\ persistAnalysis(f.bead) \/ UNCHANGED <<triples, spent>>
      /\ UNCHANGED <<inbox, handled, sent, work, ledger, councils>>
  BY DEF escalateToRefinery
<1>2. f.bead \in Bead
  BY DEF Base, Typed, FileType
<1>3. OnlyBallots /\ Counted
  BY <1>1, <1>2, AnalysisCalm
<1> QED BY <1>1, <1>3, CalmIfSame DEF Calm

(* A council whose write failed leaves ballots at most. *)
LEMMA UndecidedCalm ==
  ASSUME Base, Idle, NEW c \in Cycle, review(c), NEW votes \in SUBSET (1 .. 3),
         Undecided(c, votes)
  PROVE  Calm
<1>1. /\ work[c].pc = "judging" /\ UNCHANGED <<sent, ledger, analyses>>
      /\ work[c].file.bead \in Bead
  BY CouncilEnds
<1>2. PICK k \in 0 .. 3 : triples' = triples \cup Ballots(work[c].file.bead, votes, k)
  BY DEF Undecided
<1>3. \A t \in Ballots(work[c].file.bead, votes, k) : t.council = councils + 1 /\ t.judge # 0
  BY <1>1, BallotsKept
<1>4. OnlyBallots
  BY <1>2, <1>3 DEF OnlyBallots
<1>5. "kgfail" \in Event /\ Spend("kgfail") /\ Unlink(c)
  BY DEF Undecided, Event
<1>6. Counted /\ Failed'
  BY <1>5, CountedBySpend
<1>7. NotFurther /\ StillThere
  BY <1>1, <1>5, UnlinkCalm DEF Unlink
<1>8. DoneWith
  BY <1>6 DEF DoneWith
<1> QED BY <1>1, <1>4, <1>6, <1>7, <1>8, CalmIfSame DEF Calm

(* So does a verdict that is not recorded. *)
LEMMA RefusedCalm ==
  ASSUME Base, Idle, NEW c \in Cycle, recordVerdict(c), Refused(c)
  PROVE  Calm
<1>1. work[c].pc = "recording" /\ UNCHANGED <<sent, triples, councils, analyses>>
  BY DEF recordVerdict
<1>2. "locktimeout" \in Event /\ Spend("locktimeout") /\ Unlink(c) /\ UNCHANGED ledger
  BY DEF Refused, Event
<1>3. Counted /\ Failed'
  BY <1>2, CountedBySpend
<1>4. NotFurther /\ StillThere
  BY <1>1, <1>2, UnlinkCalm DEF Unlink
<1>5. DoneWith
  BY <1>3 DEF DoneWith
<1> QED BY <1>1, <1>2, <1>3, <1>4, <1>5, CalmIfSame DEF Calm

(* The steps that are not calm: a patch is taken, a council decides, its   *)
(* verdict is recorded, the process crashes.                               *)
LEMMA CalmOrNot ==
  ASSUME Base, Idle, [Next]_vars
  PROVE  \/ Calm
         \/ \E c \in Cycle : \E f \in inbox : handleWitnessInbox(c, f)
         \/ \E c \in Cycle : \E votes \in SUBSET (1 .. 3) : review(c) /\ Decided(c, votes)
         \/ \E c \in Cycle : recordVerdict(c) /\ Recorded(c)
         \/ Crash
<1>1. CASE UNCHANGED vars
  <2>1. /\ UNCHANGED <<ledger, triples, work, handled, spent>> /\ inbox' \subseteq inbox
    BY <1>1 DEF vars
  <2> QED BY <2>1, CalmIfSame, CountedBySpend DEF Calm
<1>2. CASE \E b \in Bead : \/ \E s \in {"runtime", "polecat"} : routeToWitness(b, s)
                           \/ \E a \in BOOLEAN : ForeignVerdict(b, a)
  BY <1>2, SubmitCalm, ForeignCalm
<1>3. CASE \E c \in Cycle : \E f \in inbox :
             Quarantine(c, f) \/ handleWitnessInbox(c, f) \/ handleMayorInbox(c, f)
  BY <1>3, QuarantineCalm, VerdictCalm
<1>4. CASE \E c \in Cycle : prePass(c) \/ notePrePass(c) \/ reportVerdict(c)
  BY <1>4, PrePassCalm, NoteCalm, ReportCalm
<1>5. CASE \E c \in Cycle : review(c)
  BY <1>5, CouncilEnds, UndecidedCalm
<1>6. CASE \E c \in Cycle : recordVerdict(c)
  BY <1>6, RecordEnds, RefusedCalm
<1>7. CASE \E f \in analyses : escalateToRefinery(f)
  BY <1>7, EscalationCalm
<1> QED BY <1>1, <1>2, <1>3, <1>4, <1>5, <1>6, <1>7 DEF Next

(* What a cycle has in hand after it took a patch. *)
LEMMA TakenInHand ==
  ASSUME Base, NEW c \in Cycle, NEW f \in inbox, handleWitnessInbox(c, f)
  PROVE  /\ work[c].pc = "idle" /\ work'[c].pc \in {"analyzing", "judging"}
         /\ work'[c].file = f /\ \A d \in Cycle \ {c} : work'[d] = work[d]
         /\ UNCHANGED <<inbox, handled, sent, ledger, triples, councils, analyses>>
         /\ \/ Busy(f) /\ Spend("overlap")
            \/ ~Busy(f) /\ UNCHANGED spent
<1> DEFINE pc == IF f.bead \in RefineryFirst THEN "analyzing" ELSE "judging"
           w == [pc |-> pc, file |-> f, approved |-> FALSE]
<1>1. work' = [work EXCEPT ![c] = w] /\ work[c].pc = "idle"
      /\ UNCHANGED <<inbox, handled, sent, ledger, triples, councils, analyses>>
  BY DEF handleWitnessInbox, Take
<1>2. w.pc \in {"analyzing", "judging"} /\ w.file = f
  OBVIOUS
<1>3. work'[c] = w /\ \A d \in Cycle \ {c} : work'[d] = work[d]
  BY <1>1 DEF Base, Typed
<1>4. \/ Busy(f) /\ Spend("overlap")
      \/ ~Busy(f) /\ UNCHANGED spent
  BY DEF handleWitnessInbox, Take
<1> QED BY <1>1, <1>2, <1>3, <1>4

(* What it has in hand after a council. *)
LEMMA DecidedInHand ==
  ASSUME Base, NEW c \in Cycle, review(c), NEW votes \in SUBSET (1 .. 3), Decided(c, votes)
  PROVE  LET b == work[c].file.bead
             a == Majority(votes, b) IN
         /\ work[c].pc = "judging" /\ b \in Bead /\ a \in BOOLEAN
         /\ work'[c].pc = "recording" /\ work'[c].file = work[c].file /\ work'[c].approved = a
         /\ \A d \in Cycle \ {c} : work'[d] = work[d]
         /\ triples' = triples \cup Ballots(b, votes, 3) \cup {Row(b, 0, a)}
         /\ councils' = councils + 1
         /\ UNCHANGED <<inbox, handled, sent, ledger, analyses, spent>>
<1> DEFINE b == work[c].file.bead
           a == Majority(votes, b)
           w == [pc |-> "recording", file |-> work[c].file, approved |-> a]
<1>1. /\ work[c].pc = "judging" /\ b \in Bead /\ councils' = councils + 1
      /\ UNCHANGED <<sent, ledger, analyses>>
  BY CouncilEnds
<1>2. a \in BOOLEAN
  BY DEF Majority
<1>3. /\ triples' = triples \cup Ballots(b, votes, 3) \cup {Row(b, 0, a)}
      /\ work' = [work EXCEPT ![c] = w]
      /\ UNCHANGED <<inbox, handled, spent>>
  BY DEF Decided
<1>4. w.pc = "recording" /\ w.file = work[c].file /\ w.approved = a
  OBVIOUS
<1>5. work'[c] = w /\ \A d \in Cycle \ {c} : work'[d] = work[d]
  BY <1>3 DEF Base, Typed
<1> QED BY <1>1, <1>2, <1>3, <1>4, <1>5

(* What ledger and cycle hold after a record. *)
LEMMA RecordedInHand ==
  ASSUME Base, NEW c \in Cycle, recordVerdict(c), Recorded(c)
  PROVE  LET f == work[c].file IN
         /\ work[c].pc = "recording" /\ f \in FileType /\ f.bead \in Bead
         /\ f.id \in Nat \ {0}
         /\ work'[c].pc = "reporting" /\ work'[c].file = f
         /\ \A d \in Cycle \ {c} : work'[d] = work[d]
         /\ \A d \in Cycle : work'[d].file = work[d].file
         /\ UNCHANGED <<inbox, handled, sent, triples, councils, analyses, spent>>
         /\ \A d \in Bead \ {f.bead} : ledger'[d] = ledger[d]
         /\ \A i \in DOMAIN ledger[f.bead] : ledger'[f.bead][i] = ledger[f.bead][i]
         /\ \E n \in Nat : /\ n \notin DOMAIN ledger[f.bead]
                           /\ DOMAIN ledger'[f.bead] = DOMAIN ledger[f.bead] \cup {n}
                           /\ ledger'[f.bead][n].file = f.id
                           /\ ledger'[f.bead][n].outcome =
                                IF work[c].approved THEN "SUCCESS" ELSE "FAILURE"
<1> DEFINE f == work[c].file
           p == [status |-> "done", outcome |-> "SUCCESS", file |-> f.id]
           q == [status |-> "failed", outcome |-> "FAILURE", file |-> f.id]
<1>1. /\ work[c].pc = "recording" /\ UNCHANGED <<sent, triples, councils, analyses>>
      /\ f \in FileType /\ f.bead \in Bead /\ f.id \in Nat \ {0}
  BY RecordEnds
<1>2. Moves(c, "reporting") /\ UNCHANGED <<inbox, handled, spent>>
  BY DEF Recorded
<1>3. /\ work'[c].pc = "reporting" /\ work'[c].file = f
      /\ \A d \in Cycle \ {c} : work'[d] = work[d]
      /\ \A d \in Cycle : work'[d].file = work[d].file
  <2>1. /\ work'[c] = [pc |-> "reporting", file |-> f, approved |-> work[c].approved]
        /\ \A d \in Cycle \ {c} : work'[d] = work[d]
        /\ \A d \in Cycle : work'[d].file = work[d].file
    BY <1>1, <1>2, GoesOn DEF Base
  <2> HIDE DEF f
  <2> QED BY <2>1
<1>4. /\ p \in RecordType /\ q \in RecordType /\ p.file = f.id /\ q.file = f.id
      /\ p.outcome = "SUCCESS" /\ q.outcome = "FAILURE"
  BY <1>1 DEF RecordType
<1>5. \/ work[c].approved /\ ledger' = [ledger EXCEPT ![f.bead] = Append(@, p)]
      \/ ~work[c].approved /\ ledger' = [ledger EXCEPT ![f.bead] = Append(@, q)]
  BY DEF Recorded
<1> HIDE DEF p, q
<1>6. PICK r \in RecordType :
        /\ ledger' = [ledger EXCEPT ![f.bead] = Append(@, r)] /\ r.file = f.id
        /\ r.outcome = IF work[c].approved THEN "SUCCESS" ELSE "FAILURE"
  BY <1>4, <1>5
<1>7. /\ \A d \in Bead \ {f.bead} : ledger'[d] = ledger[d]
      /\ DOMAIN ledger'[f.bead] = DOMAIN ledger[f.bead] \cup {Len(ledger[f.bead]) + 1}
      /\ Len(ledger[f.bead]) + 1 \notin DOMAIN ledger[f.bead]
      /\ \A i \in DOMAIN ledger[f.bead] : ledger'[f.bead][i] = ledger[f.bead][i]
      /\ ledger'[f.bead][Len(ledger[f.bead]) + 1] = r
  BY <1>1, <1>6, RecordsAppend DEF Base
<1>8. Len(ledger[f.bead]) + 1 \in Nat
  BY <1>1 DEF Base, Typed
<1> QED BY <1>1, <1>2, <1>3, <1>6, <1>7, <1>8

(* Rest is rest. *)
LEMMA IdleKept == Base /\ Idle /\ [Next]_vars => Idle'
<1> SUFFICES ASSUME Base, Idle, [Next]_vars PROVE Idle'
  OBVIOUS
<1>1. CASE Calm
  BY <1>1 DEF Calm, NotFurther, Idle
<1>2. CASE \E c \in Cycle : \E f \in inbox : handleWitnessInbox(c, f)
  <2>1. PICK c \in Cycle, f \in inbox : handleWitnessInbox(c, f)
    BY <1>2
  <2>2. work'[c].pc \in {"analyzing", "judging"} /\ \A d \in Cycle \ {c} : work'[d] = work[d]
    BY <2>1, TakenInHand
  <2> QED BY <2>2 DEF Idle
<1>3. CASE \E c \in Cycle : \E votes \in SUBSET (1 .. 3) : review(c) /\ Decided(c, votes)
  BY <1>3, DecidedInHand DEF Idle
<1>4. CASE \E c \in Cycle : recordVerdict(c) /\ Recorded(c)
  BY <1>4, RecordedInHand DEF Idle
<1>5. CASE Crash
  <2>1. \A c \in Cycle : work'[c] = NoWork
    BY <1>5 DEF Crash
  <2>2. NoWork.file.id = 0
    BY Numbers DEF Base
  <2> QED BY <2>1, <2>2 DEF Idle
<1> QED BY <1>1, <1>2, <1>3, <1>4, <1>5, CalmOrNot

-----------------------------------------------------------------------------
(* No verdict is lost. *)

Has(l, f) == \E i \in DOMAIN l[f.bead] : l[f.bead][i].file = f.id
Kept ==
  ~Failed =>
    /\ \A f \in handled : f.type = "PATCH_READY" => Has(ledger, f)
    /\ \A c \in Cycle : work[c].pc = "reporting" => Has(ledger, work[c].file)

(* A failure is never taken back. *)
LEMMA FailedStays == Base /\ Base' /\ Counted /\ Failed => Failed'
<1> SUFFICES ASSUME Base, Base', Counted, Failed PROVE Failed'
  OBVIOUS
<1>1. "kgfail" \in Event /\ "locktimeout" \in Event
  BY DEF Event
<1>2. \A e \in Event : spent[e] \in Nat /\ spent'[e] \in Nat /\ spent[e] <= spent'[e]
  BY DEF Base, Typed, Counted
<1> QED BY <1>1, <1>2 DEF Failed

(* Nor is a record. *)
Grown ==
  \A b \in Bead : /\ DOMAIN ledger[b] \subseteq DOMAIN ledger'[b]
                  /\ \A i \in DOMAIN ledger[b] : ledger'[b][i] = ledger[b][i]

LEMMA RecordStays ==
  ASSUME Grown, NEW f, f.bead \in Bead, Has(ledger, f)
  PROVE  Has(ledger', f)
<1>1. PICK i \in DOMAIN ledger[f.bead] : ledger[f.bead][i].file = f.id
  BY DEF Has
<1>2. i \in DOMAIN ledger'[f.bead] /\ ledger'[f.bead][i] = ledger[f.bead][i]
  BY <1>1 DEF Grown
<1> QED BY <1>1, <1>2 DEF Has

(* Every bead of a file is a bead. *)
LEMMA FilesHaveBeads ==
  ASSUME Base
  PROVE  /\ \A f \in handled : f.bead \in Bead /\ f.id \in Nat \ {0}
         /\ \A f \in inbox : f.bead \in Bead /\ f.id \in Nat \ {0}
         /\ \A c \in Cycle : work[c].pc # "idle" => work[c].file.bead \in Bead
<1>1. \A f \in FileType : f.bead \in Bead /\ f.id \in Nat \ {0}
  BY DEF FileType
<1> QED BY <1>1 DEF Base, Typed

(* Every step keeps what was kept, and keeps what it handles. *)
LEMMA KeptStays == Base /\ Idle /\ Kept /\ Base' /\ [Next]_vars => Kept'
<1> SUFFICES ASSUME Base, Idle, Kept, Base', [Next]_vars, ~Failed'
             PROVE  /\ \A f \in handled' : f.type = "PATCH_READY" => Has(ledger', f)
                    /\ \A c \in Cycle : work'[c].pc = "reporting" => Has(ledger', work'[c].file)
  BY DEF Kept
<1>1. ASSUME Counted, Grown
      PROVE  /\ \A f \in handled : f.type = "PATCH_READY" => Has(ledger', f)
             /\ \A c \in Cycle : work[c].pc = "reporting" => Has(ledger', work[c].file)
  <2>1. ~Failed
    BY <1>1, FailedStays
  <2>2. /\ \A f \in handled : f.type = "PATCH_READY" => Has(ledger, f)
        /\ \A c \in Cycle : work[c].pc = "reporting" => Has(ledger, work[c].file)
    BY <2>1 DEF Kept
  <2>3. \A c \in Cycle : work[c].pc = "reporting" => work[c].file.bead \in Bead
    BY FilesHaveBeads
  <2>4. \A f \in handled : f.bead \in Bead
    BY FilesHaveBeads
  <2>5. \A f : f.bead \in Bead /\ Has(ledger, f) => Has(ledger', f)
    BY <1>1, RecordStays
  <2> QED BY <2>2, <2>3, <2>4, <2>5
<1>2. UNCHANGED ledger => Grown
  BY DEF Grown
<1>3. UNCHANGED spent => Counted
  BY CountedBySpend
<1>4. CASE Calm
  <2>1. Counted /\ Grown /\ NotFurther /\ DoneWith
    BY <1>4 DEF Calm, Noted, Grown
  <2>2. \A f \in handled' \ handled : f.type = "PATCH_READY" => Has(ledger', f)
    BY <1>1, <2>1 DEF DoneWith
  <2>3. \A c \in Cycle : work'[c].pc = "reporting" => work'[c] = work[c]
    BY <2>1 DEF NotFurther
  <2> QED BY <1>1, <2>1, <2>2, <2>3
<1>5. CASE \E c \in Cycle : \E f \in inbox : handleWitnessInbox(c, f)
  <2>1. PICK c \in Cycle, f \in inbox : handleWitnessInbox(c, f)
    BY <1>5
  <2>2. /\ work'[c].pc \in {"analyzing", "judging"} /\ \A d \in Cycle \ {c} : work'[d] = work[d]
        /\ UNCHANGED <<handled, ledger>>
        /\ Spend("overlap") \/ UNCHANGED spent
    BY <2>1, TakenInHand
  <2>3. Counted
    <3>1. "overlap" \in Event
      BY DEF Event
    <3> QED BY <2>2, <3>1, CountedBySpend
  <2> QED BY <1>1, <1>2, <2>2, <2>3
<1>6. CASE \E c \in Cycle : \E votes \in SUBSET (1 .. 3) : review(c) /\ Decided(c, votes)
  <2>1. PICK c \in Cycle, votes \in SUBSET (1 .. 3) : review(c) /\ Decided(c, votes)
    BY <1>6
  <2>2. /\ work'[c].pc = "recording" /\ \A d \in Cycle \ {c} : work'[d] = work[d]
        /\ UNCHANGED <<handled, ledger, spent>>
    BY <2>1, DecidedInHand
  <2> QED BY <1>1, <1>2, <1>3, <2>2
<1>7. CASE \E c \in Cycle : recordVerdict(c) /\ Recorded(c)
  <2>1. PICK c \in Cycle : recordVerdict(c) /\ Recorded(c)
    BY <1>7
  <2> DEFINE f == work[c].file
  <2>2. /\ work'[c].file = f /\ \A d \in Cycle \ {c} : work'[d] = work[d]
        /\ UNCHANGED <<handled, spent>>
        /\ \A d \in Bead \ {f.bead} : ledger'[d] = ledger[d]
        /\ \A i \in DOMAIN ledger[f.bead] : ledger'[f.bead][i] = ledger[f.bead][i]
    BY <2>1, RecordedInHand
  <2>3. PICK n \in Nat : /\ DOMAIN ledger'[f.bead] = DOMAIN ledger[f.bead] \cup {n}
                         /\ ledger'[f.bead][n].file = f.id
    BY <2>1, RecordedInHand
  <2> HIDE DEF f
  <2>4. Grown
    BY <2>2, <2>3 DEF Grown
  <2>5. Has(ledger', f)
    BY <2>3 DEF Has
  <2> QED BY <1>1, <1>3, <2>2, <2>4, <2>5
<1>8. CASE Crash
  <2>1. /\ \A c \in Cycle : work'[c] = NoWork
        /\ UNCHANGED <<handled, ledger>> /\ Spend("crash") /\ "crash" \in Event
    BY <1>8 DEF Crash, Event
  <2>2. Counted
    BY <2>1, CountedBySpend
  <2>3. \A c \in Cycle : work'[c].pc # "reporting"
    BY <2>1 DEF NoWork
  <2> QED BY <1>1, <1>2, <2>1, <2>2, <2>3
<1> QED BY <1>4, <1>5, <1>6, <1>7, <1>8, CalmOrNot

-----------------------------------------------------------------------------
(* A patch is reviewed once, and once more for a crash or an overlap.      *)

Done(b, n) == {i \in DOMAIN ledger[b] : ledger[b][i].file = n}
Handling(n) == {c \in Cycle : work[c].pc \in Before /\ work[c].file.id = n}
Slack == spent["crash"] + spent["overlap"]

(* A review in hand counts like one that is done, and a file that waits    *)
(* has been reviewed less often than the faults allow.                     *)
Once ==
  \A b \in Bead, n \in Nat \ {0} :
    Cardinality(Done(b, n)) + Cardinality(Handling(n)) <= 1 + Slack
Waiting ==
  \A f \in inbox : ~Busy(f) => \A b \in Bead : Cardinality(Done(b, f.id)) <= Slack

(* What is counted is finite. *)
LEMMA CountsAreNumbers ==
  ASSUME Base, NEW b \in Bead, NEW n \in Nat
  PROVE  /\ IsFiniteSet(Done(b, n)) /\ Cardinality(Done(b, n)) \in Nat
         /\ IsFiniteSet(Handling(n)) /\ Cardinality(Handling(n)) \in Nat
         /\ Slack \in Nat
<1>1. IsFiniteSet(DOMAIN ledger[b])
  <2>1. ledger[b] \in Seq(RecordType)
    BY DEF Base, Typed
  <2>2. Len(ledger[b]) \in Nat /\ DOMAIN ledger[b] = 1 .. Len(ledger[b])
    BY <2>1
  <2> QED BY <2>2, FS_Interval
<1>2. Done(b, n) \in SUBSET DOMAIN ledger[b]
  BY DEF Done
<1>3. Handling(n) \in SUBSET Cycle /\ IsFiniteSet(Cycle)
  BY ReviewAssumption DEF Handling
<1>4. Slack \in Nat
  BY DEF Base, Typed, Event, Slack
<1> QED BY <1>1, <1>2, <1>3, <1>4, FS_Subset, FS_CardinalityType

(* A number that no file has yet is in no record. *)
LEMMA NextIsNew ==
  ASSUME Base, NEW b \in Bead
  PROVE  Done(b, sent + 1) = {}
<1>1. \A i \in DOMAIN ledger[b] : ledger[b][i].file <= sent /\ ledger[b][i].file \in Nat
  BY RecordsTyped DEF Base, Typed, Named
<1> QED BY <1>1 DEF Done, Base, Typed

(* Notes are no reviews. *)
LEMMA NotedCounts ==
  ASSUME Noted, NEW b \in Bead, NEW n \in Nat \ {0}
  PROVE  Done(b, n)' = Done(b, n)
BY DEF Noted, Done

(* The faults so far are a number. *)
LEMMA SlackIsNumber == Base => Slack \in Nat
BY DEF Base, Typed, Event, Slack

(* Faults are counted. *)
LEMMA SlackGrows ==
  ASSUME Base, Base'
  PROVE  /\ Slack \in Nat /\ Slack' \in Nat
         /\ Counted => Slack <= Slack'
         /\ Spend("overlap") \/ Spend("crash") => Slack' = Slack + 1
         /\ UNCHANGED spent => Slack' = Slack
<1>1. "crash" \in Event /\ "overlap" \in Event
  BY DEF Event
<1>2. spent \in [Event -> Nat] /\ spent' \in [Event -> Nat]
  BY DEF Base, Typed
<1>3. Counted => Slack <= Slack'
  BY <1>1, <1>2 DEF Counted, Slack
<1>4. ASSUME Spend("overlap") PROVE Slack' = Slack + 1
  <2>1. spent'["overlap"] = spent["overlap"] + 1 /\ spent'["crash"] = spent["crash"]
    BY <1>1, <1>4, SpendCounts DEF Base
  <2> QED BY <1>1, <1>2, <2>1 DEF Slack
<1>5. ASSUME Spend("crash") PROVE Slack' = Slack + 1
  <2>1. spent'["crash"] = spent["crash"] + 1 /\ spent'["overlap"] = spent["overlap"]
    BY <1>1, <1>5, SpendCounts DEF Base
  <2> QED BY <1>1, <1>2, <2>1 DEF Slack
<1>6. Slack \in Nat /\ Slack' \in Nat
  BY <1>1, <1>2 DEF Slack
<1> QED BY <1>3, <1>4, <1>5, <1>6 DEF Slack

(* Calm steps and councils: no more reviews, no more in hand. *)
LEMMA OnceIfNotFurther ==
  ASSUME Base, Base', Once, Waiting, Slack <= Slack', StillThere,
         \A b \in Bead, n \in Nat \ {0} : Done(b, n)' = Done(b, n),
         \A n \in Nat \ {0} : Handling(n)' \subseteq Handling(n)
  PROVE  Once' /\ Waiting'
<1>1. Slack \in Nat /\ Slack' \in Nat
  BY SlackGrows
<1>2. ASSUME NEW b \in Bead, NEW n \in Nat \ {0}
      PROVE  Cardinality(Done(b, n)') + Cardinality(Handling(n)') <= 1 + Slack'
  <2>1. n \in Nat /\ Done(b, n)' = Done(b, n) /\ Handling(n)' \in SUBSET Handling(n)
    OBVIOUS
  <2>2. /\ Cardinality(Done(b, n)) \in Nat /\ IsFiniteSet(Handling(n))
        /\ Cardinality(Handling(n)) \in Nat
    BY <2>1, CountsAreNumbers
  <2>3. /\ Cardinality(Handling(n)') <= Cardinality(Handling(n))
        /\ Cardinality(Handling(n)') \in Nat
    BY <2>1, <2>2, FS_Subset, FS_CardinalityType
  <2>4. Cardinality(Done(b, n)) + Cardinality(Handling(n)) <= 1 + Slack
    BY DEF Once
  <2> QED BY <1>1, <2>1, <2>2, <2>3, <2>4
<1>3. ASSUME NEW f \in inbox', ~Busy(f)', NEW b \in Bead
      PROVE  Cardinality(Done(b, f.id)') <= Slack'
  <2>1. CASE f \in inbox /\ ~Busy(f)
    <3>1. f.id \in Nat \ {0} /\ f.id \in Nat
      BY <2>1, FilesHaveBeads
    <3>2. Cardinality(Done(b, f.id)) <= Slack /\ Cardinality(Done(b, f.id)) \in Nat
      BY <2>1, <3>1, CountsAreNumbers DEF Waiting
    <3>3. Done(b, f.id)' = Done(b, f.id)
      BY <3>1
    <3> QED BY <1>1, <3>2, <3>3
  <2>2. CASE f.id = sent + 1
    <3>1. sent + 1 \in Nat \ {0}
      BY DEF Base, Typed
    <3>2. Done(b, sent + 1) = {} /\ \A m : m = sent + 1 => Done(b, m)' = Done(b, m)
      BY <3>1, NextIsNew
    <3>3. Done(b, f.id)' = {}
      BY <2>2, <3>2
    <3> QED BY <1>1, <3>3, FS_EmptySet
  <2> QED BY <1>3, <2>1, <2>2 DEF StillThere
<1> QED BY <1>2, <1>3 DEF Once, Waiting

(* Nothing is counted anew where the ledger is the same. *)
LEMMA SameCounts ==
  ASSUME UNCHANGED ledger, NEW b \in Bead, NEW n
  PROVE  Done(b, n)' = Done(b, n)
BY DEF Done

(* A cycle that takes a file that nobody has relies on Waiting; one that   *)
(* takes a file of another cycle is an overlap. *)
LEMMA OnceIfTaken ==
  ASSUME Base, Idle, Base', Once, Waiting, NEW c \in Cycle, NEW f \in inbox,
         handleWitnessInbox(c, f)
  PROVE  Once' /\ Waiting'
<1>1. /\ work[c].pc = "idle" /\ work'[c].pc \in Before /\ work'[c].file = f
      /\ \A d \in Cycle \ {c} : work'[d] = work[d]
      /\ UNCHANGED <<inbox, ledger>>
      /\ \/ Busy(f) /\ Spend("overlap")
         \/ ~Busy(f) /\ UNCHANGED spent
  BY TakenInHand DEF Before
<1>2. Slack \in Nat /\ Slack' \in Nat /\ Slack <= Slack' /\ (Busy(f) => Slack' = Slack + 1)
  BY <1>1, SlackGrows
<1>3. f.id \in Nat \ {0}
  BY FilesHaveBeads
<1>4. c \notin Handling(f.id) /\ Handling(f.id)' = Handling(f.id) \cup {c}
  BY <1>1 DEF Handling, Before
<1>5. \A n \in Nat \ {0} : n # f.id => Handling(n)' = Handling(n)
  BY <1>1 DEF Handling, Before
<1>6. ASSUME NEW b \in Bead, NEW n \in Nat \ {0}
      PROVE  Cardinality(Done(b, n)') + Cardinality(Handling(n)') <= 1 + Slack'
  <2>1. /\ Done(b, n)' = Done(b, n) /\ Cardinality(Done(b, n)) \in Nat
        /\ IsFiniteSet(Handling(n)) /\ Cardinality(Handling(n)) \in Nat
    BY <1>1, <1>6, SameCounts, CountsAreNumbers
  <2>2. Cardinality(Done(b, n)) + Cardinality(Handling(n)) <= 1 + Slack
    BY DEF Once
  <2>3. CASE n # f.id
    BY <1>2, <1>5, <2>1, <2>2, <2>3
  <2>4. CASE n = f.id
    <3>1. Handling(n)' = Handling(n) \cup {c} /\ c \notin Handling(n)
      BY <1>4, <2>4
    <3>2. Cardinality(Handling(n)') = Cardinality(Handling(n)) + 1
      BY <2>1, <3>1, FS_AddElement
    <3>3. CASE Busy(f)
      BY <1>2, <2>1, <2>2, <3>2, <3>3
    <3>4. CASE ~Busy(f)
      <4>1. Handling(n) = {}
        BY <2>4, <3>4 DEF Busy, Handling
      <4>2. Cardinality(Handling(n)) = 0
        BY <4>1, FS_EmptySet
      <4>3. Cardinality(Done(b, n)) <= Slack
        BY <2>4, <3>4 DEF Waiting
      <4> QED BY <1>2, <2>1, <3>2, <4>2, <4>3
    <3> QED BY <3>3, <3>4
  <2> QED BY <2>3, <2>4
<1>7. ASSUME NEW g \in inbox', ~Busy(g)', NEW b \in Bead
      PROVE  Cardinality(Done(b, g.id)') <= Slack'
  <2>1. g \in inbox /\ g.id \in Nat /\ g.id # 0
    BY <1>1, FilesHaveBeads
  <2>2. ~Busy(g)
    <3> SUFFICES ASSUME Busy(g) PROVE FALSE
      OBVIOUS
    <3>1. PICK d \in Cycle : work[d].file.id = g.id
      BY DEF Busy
    <3>2. d # c
      BY <1>1, <2>1, <3>1 DEF Idle
    <3>3. work'[d].file.id = g.id
      BY <1>1, <3>1, <3>2
    <3> QED BY <1>7, <3>3 DEF Busy
  <2>3. Cardinality(Done(b, g.id)) <= Slack /\ Cardinality(Done(b, g.id)) \in Nat
    BY <2>1, <2>2, CountsAreNumbers DEF Waiting
  <2>4. Done(b, g.id)' = Done(b, g.id)
    BY <1>1, SameCounts
  <2> QED BY <1>2, <2>3, <2>4
<1> QED BY <1>6, <1>7 DEF Once, Waiting

(* What is recorded was in hand until then. *)
LEMMA OnceIfRecorded ==
  ASSUME Base, Base', Once, Waiting, NEW c \in Cycle, recordVerdict(c), Recorded(c)
  PROVE  Once' /\ Waiting'
<1>1. PICK b0 \in Bead, n0 \in Nat \ {0} : b0 = work[c].file.bead /\ n0 = work[c].file.id
  BY RecordedInHand
<1>2. /\ work[c].pc = "recording" /\ work'[c].pc = "reporting"
      /\ \A d \in Cycle \ {c} : work'[d] = work[d]
      /\ \A d \in Cycle : work'[d].file = work[d].file
      /\ UNCHANGED <<inbox, spent>>
      /\ \A d \in Bead \ {b0} : ledger'[d] = ledger[d]
      /\ \A i \in DOMAIN ledger[b0] : ledger'[b0][i] = ledger[b0][i]
  BY <1>1, RecordedInHand
<1>3. PICK k \in Nat : /\ k \notin DOMAIN ledger[b0]
                       /\ DOMAIN ledger'[b0] = DOMAIN ledger[b0] \cup {k}
                       /\ ledger'[b0][k].file = n0
  BY <1>1, RecordedInHand
<1>4. Slack \in Nat /\ Slack' = Slack
  BY <1>2, SlackGrows
<1>5. c \in Handling(n0) /\ Handling(n0)' = Handling(n0) \ {c}
  BY <1>1, <1>2 DEF Handling, Before
<1>6. \A n \in Nat : n # n0 => Handling(n)' = Handling(n)
  BY <1>1, <1>2 DEF Handling, Before
<1>7. Done(b0, n0)' = Done(b0, n0) \cup {k} /\ k \notin Done(b0, n0)
  BY <1>2, <1>3 DEF Done
<1>8. \A b \in Bead, n \in Nat : b # b0 \/ n # n0 => Done(b, n)' = Done(b, n)
  BY <1>2, <1>3 DEF Done
<1>9. ASSUME NEW b \in Bead, NEW n \in Nat \ {0}
      PROVE  Cardinality(Done(b, n)') + Cardinality(Handling(n)') <= 1 + Slack'
  <2>1. /\ n \in Nat /\ IsFiniteSet(Done(b, n)) /\ Cardinality(Done(b, n)) \in Nat
        /\ IsFiniteSet(Handling(n)) /\ Cardinality(Handling(n)) \in Nat
    BY CountsAreNumbers
  <2>2. Cardinality(Done(b, n)) + Cardinality(Handling(n)) <= 1 + Slack
    BY DEF Once
  <2>3. CASE n # n0
    BY <1>4, <1>6, <1>8, <2>1, <2>2, <2>3
  <2>4. CASE n = n0
    <3>1. Cardinality(Handling(n)') = Cardinality(Handling(n)) - 1
      BY <1>5, <2>1, <2>4, FS_RemoveElement
    <3>2. CASE b = b0
      <4>1. Cardinality(Done(b, n)') = Cardinality(Done(b, n)) + 1
        BY <1>7, <2>1, <2>4, <3>2, FS_AddElement
      <4> QED BY <1>4, <2>1, <2>2, <3>1, <4>1
    <3>3. CASE b # b0
      BY <1>4, <1>8, <2>1, <2>2, <3>1, <3>3
    <3> QED BY <3>2, <3>3
  <2> QED BY <2>3, <2>4
<1>10. ASSUME NEW g \in inbox', ~Busy(g)', NEW b \in Bead
       PROVE  Cardinality(Done(b, g.id)') <= Slack'
  <2>1. g \in inbox /\ g.id \in Nat
    BY <1>2, FilesHaveBeads
  <2>2. ~Busy(g)
    BY <1>2, <1>10 DEF Busy
  <2>3. g.id # n0
    BY <1>1, <2>2 DEF Busy
  <2>4. Cardinality(Done(b, g.id)) <= Slack
    BY <2>1, <2>2 DEF Waiting
  <2>5. Done(b, g.id)' = Done(b, g.id)
    BY <1>8, <2>1, <2>3
  <2> QED BY <1>4, <2>4, <2>5
<1> QED BY <1>9, <1>10 DEF Once, Waiting

(* A crash makes room for the reviews it interrupts. *)
LEMMA OnceIfCrash ==
  ASSUME Base, Base', Once, Waiting, Crash
  PROVE  Once' /\ Waiting'
<1>1. /\ \A c \in Cycle : work'[c] = NoWork
      /\ UNCHANGED <<inbox, ledger>> /\ Spend("crash")
  BY DEF Crash
<1>2. Slack \in Nat /\ Slack' = Slack + 1
  BY <1>1, SlackGrows
<1>3. \A n : Handling(n)' = {}
  BY <1>1 DEF Handling, NoWork, Before
<1>4. ASSUME NEW b \in Bead, NEW n \in Nat \ {0}
      PROVE  /\ Cardinality(Done(b, n)') <= Slack'
             /\ Cardinality(Done(b, n)') + Cardinality(Handling(n)') <= 1 + Slack'
  <2>1. /\ n \in Nat /\ Cardinality(Done(b, n)) \in Nat /\ Cardinality(Handling(n)) \in Nat
    BY CountsAreNumbers
  <2>2. Cardinality(Done(b, n)) + Cardinality(Handling(n)) <= 1 + Slack
    BY DEF Once
  <2>3. Done(b, n)' = Done(b, n) /\ Cardinality(Handling(n)') = 0
    BY <1>1, <1>3, SameCounts, FS_EmptySet
  <2> QED BY <1>2, <2>1, <2>2, <2>3
<1>5. \A g \in inbox' : g.id \in Nat \ {0}
  BY <1>1, FilesHaveBeads
<1> QED BY <1>4, <1>5 DEF Once, Waiting

(* The count holds in every step. *)
LEMMA OnceStays == Base /\ Idle /\ Once /\ Waiting /\ Base' /\ [Next]_vars => Once' /\ Waiting'
<1> SUFFICES ASSUME Base, Idle, Once, Waiting, Base', [Next]_vars PROVE Once' /\ Waiting'
  OBVIOUS
<1>1. CASE Calm
  <2>1. Slack <= Slack' /\ StillThere
    BY <1>1, SlackGrows DEF Calm
  <2>2. \A b \in Bead, n \in Nat \ {0} : Done(b, n)' = Done(b, n)
    BY <1>1, NotedCounts DEF Calm
  <2>3. \A n \in Nat \ {0} : Handling(n)' \subseteq Handling(n)
    BY <1>1 DEF Calm, NotFurther, Handling
  <2> QED BY <2>1, <2>2, <2>3, OnceIfNotFurther
<1>2. CASE \E c \in Cycle : \E votes \in SUBSET (1 .. 3) : review(c) /\ Decided(c, votes)
  <2>1. PICK c \in Cycle, votes \in SUBSET (1 .. 3) : review(c) /\ Decided(c, votes)
    BY <1>2
  <2>2. /\ work[c].pc = "judging" /\ work'[c].file = work[c].file
        /\ \A d \in Cycle \ {c} : work'[d] = work[d]
        /\ UNCHANGED <<inbox, ledger, spent>>
    BY <2>1, DecidedInHand
  <2>3. \A d \in Cycle : work'[d].file = work[d].file
    BY <2>2
  <2>4. StillThere
    BY <2>2, <2>3 DEF StillThere, Busy
  <2>5. Slack <= Slack'
    BY <2>2, SlackGrows
  <2>6. \A b \in Bead, n \in Nat \ {0} : Done(b, n)' = Done(b, n)
    BY <2>2, SameCounts
  <2>7. \A n \in Nat \ {0} : Handling(n)' \subseteq Handling(n)
    BY <2>2 DEF Handling, Before
  <2> QED BY <2>4, <2>5, <2>6, <2>7, OnceIfNotFurther
<1> QED BY <1>1, <1>2, CalmOrNot, OnceIfTaken, OnceIfRecorded, OnceIfCrash

-----------------------------------------------------------------------------
(* What the ledger says of a review, the graph says too.                   *)

OutcomeOf(a) == IF a THEN "SUCCESS" ELSE "FAILURE"
Recording(b, a) ==
  {c \in Cycle : work[c].pc = "recording" /\ work[c].file.bead = b /\ work[c].approved = a}

(* A verdict in hand is already in the graph. *)
Agreed ==
  \A b \in Bead, a \in BOOLEAN :
    Cardinality(Reviews(b, OutcomeOf(a))) + Cardinality(Recording(b, a))
      <= Cardinality(Verdicts(b, a))
Voted ==
  \A b \in Critical, a \in BOOLEAN : \A v \in Verdicts(b, a) :
    a <=> Cardinality(Favour(v.council)) >= 2

(* What is counted is finite. *)
LEMMA VotesAreNumbers ==
  ASSUME Base, NEW b \in Bead, NEW a, NEW o
  PROVE  /\ IsFiniteSet(Reviews(b, o)) /\ Cardinality(Reviews(b, o)) \in Nat
         /\ IsFiniteSet(Recording(b, a)) /\ Cardinality(Recording(b, a)) \in Nat
         /\ IsFiniteSet(Verdicts(b, a)) /\ Cardinality(Verdicts(b, a)) \in Nat
<1>1. IsFiniteSet(DOMAIN ledger[b])
  <2>1. ledger[b] \in Seq(RecordType)
    BY DEF Base, Typed
  <2>2. Len(ledger[b]) \in Nat /\ DOMAIN ledger[b] = 1 .. Len(ledger[b])
    BY <2>1
  <2> QED BY <2>2, FS_Interval
<1>2. Reviews(b, o) \in SUBSET DOMAIN ledger[b]
  BY DEF Reviews
<1>3. Recording(b, a) \in SUBSET Cycle /\ IsFiniteSet(Cycle)
  BY ReviewAssumption DEF Recording
<1>4. Verdicts(b, a) \in SUBSET triples /\ IsFiniteSet(triples)
  BY DEF Verdicts, Base, Typed
<1> QED BY <1>1, <1>2, <1>3, <1>4, FS_Subset, FS_CardinalityType

(* Notes are no reviews. *)
LEMMA NotedReviews ==
  ASSUME Noted, NEW b \in Bead, NEW o
  PROVE  Reviews(b, o)' = Reviews(b, o)
BY DEF Noted, Reviews

(* Ballots are no verdicts. *)
LEMMA BallotsNoVerdicts ==
  ASSUME OnlyBallots, NEW b, NEW a
  PROVE  Verdicts(b, a)' = Verdicts(b, a)
BY DEF OnlyBallots, Verdicts

(* A ballot of the next council is none of an earlier one. *)
LEMMA EarlierCouncils ==
  ASSUME Base, triples \subseteq triples', NEW n \in Nat \ {0}, n <= councils,
         \A t \in triples' \ triples : t.council = 0 \/ t.council = councils + 1
  PROVE  Favour(n)' = Favour(n)
<1>1. councils \in Nat
  BY DEF Base, Typed
<1>2. \A t \in triples' : t.council = n => t \in triples
  BY <1>1
<1>3. {u \in triples' : u.council = n /\ u.judge # 0 /\ u.approved}
        = {u \in triples : u.council = n /\ u.judge # 0 /\ u.approved}
  BY <1>2
<1> QED BY <1>3 DEF Favour

(* Councils of the past have numbers of the past. *)
LEMMA PastCouncils ==
  ASSUME Base
  PROVE  /\ councils \in Nat
         /\ \A t \in triples : t.council \in Nat /\ t.council <= councils
BY DEF Base, Typed, Named, TripleType

(* Calm steps change no count, and no council. *)
LEMMA VotesIfCalm ==
  ASSUME Base, Agreed, Voted, OnlyBallots,
         \A b \in Bead, o \in {"SUCCESS", "FAILURE"} : Reviews(b, o)' = Reviews(b, o),
         \A b \in Bead, a \in BOOLEAN : Recording(b, a)' \subseteq Recording(b, a)
  PROVE  Agreed' /\ Voted'
<1>1. ASSUME NEW b \in Bead, NEW a \in BOOLEAN
      PROVE  Cardinality(Reviews(b, OutcomeOf(a))') + Cardinality(Recording(b, a)')
               <= Cardinality(Verdicts(b, a)')
  <2>1. OutcomeOf(a) \in {"SUCCESS", "FAILURE"}
    BY DEF OutcomeOf
  <2>2. PICK o \in {"SUCCESS", "FAILURE"} : o = OutcomeOf(a)
    BY <2>1
  <2>3. /\ IsFiniteSet(Recording(b, a)) /\ Cardinality(Recording(b, a)) \in Nat
        /\ Cardinality(Reviews(b, o)) \in Nat /\ Cardinality(Verdicts(b, a)) \in Nat
    BY VotesAreNumbers
  <2>4. Recording(b, a)' \in SUBSET Recording(b, a)
    OBVIOUS
  <2>5. /\ Cardinality(Recording(b, a)') <= Cardinality(Recording(b, a))
        /\ Cardinality(Recording(b, a)') \in Nat
    BY <2>3, <2>4, FS_Subset, FS_CardinalityType
  <2>6. Reviews(b, o)' = Reviews(b, o) /\ Verdicts(b, a)' = Verdicts(b, a)
    BY BallotsNoVerdicts
  <2>7. Cardinality(Reviews(b, o)) + Cardinality(Recording(b, a)) <= Cardinality(Verdicts(b, a))
    BY <2>2 DEF Agreed
  <2>8. Cardinality(Reviews(b, o)') + Cardinality(Recording(b, a)') <= Cardinality(Verdicts(b, a)')
    BY <2>3, <2>5, <2>6, <2>7
  <2> QED BY <2>2, <2>8
<1>2. ASSUME NEW b \in Critical, NEW a \in BOOLEAN, NEW v \in Verdicts(b, a)'
      PROVE  a <=> Cardinality(Favour(v.council)') >= 2
  <2>1. v \in Verdicts(b, a)
    BY BallotsNoVerdicts
  <2>2. v \in triples /\ v.council # 0
    BY <2>1 DEF Verdicts
  <2>3. v.council \in Nat \ {0} /\ v.council <= councils
    BY <2>2, PastCouncils
  <2>4. Favour(v.council)' = Favour(v.council)
    BY <2>3, EarlierCouncils DEF OnlyBallots
  <2>5. a <=> Cardinality(Favour(v.council)) >= 2
    BY <2>1 DEF Voted
  <2> QED BY <2>4, <2>5
<1> QED BY <1>1, <1>2 DEF Agreed, Voted

(* The ballots of a critical bead are the votes of its council. *)
LEMMA BallotsAreVotes ==
  ASSUME Base, NEW b \in Critical, NEW votes \in SUBSET (1 .. 3), NEW a, NEW m, m = councils + 1,
         triples' = triples \cup Ballots(b, votes, 3) \cup {Row(b, 0, a)}
  PROVE  Favour(m)' = votes
<1>1. \A t \in triples : t.council # m
  <2>1. councils \in Nat /\ \A t \in triples : t.council \in Nat /\ t.council <= councils
    BY PastCouncils
  <2> QED BY <2>1
<1> DEFINE R(i) == Row(b, i, i \in votes)
           For == {u \in triples' : u.council = m /\ u.judge # 0 /\ u.approved}
<1>2. Ballots(b, votes, 3) = {R(i) : i \in 1 .. 3}
  BY DEF Ballots
<1>3. Row(b, 0, a).judge = 0
  BY DEF Row
<1>4. \A i \in 1 .. 3 : R(i).council = m /\ R(i).judge = i /\ (R(i).approved <=> i \in votes)
  BY DEF Row
<1> HIDE DEF R
<1>5. \A u \in For : \E i \in votes : u = R(i)
  BY <1>1, <1>2, <1>3, <1>4
<1>6. \A i \in votes : R(i) \in For
  <2>1. \A i \in votes : i \in 1 .. 3 /\ i # 0
    OBVIOUS
  <2>2. \A i \in 1 .. 3 : R(i) \in triples'
    BY <1>2
  <2> QED BY <1>4, <2>1, <2>2
<1> HIDE DEF For
<1>7. {t.judge : t \in For} = votes
  <2>1. \A i \in votes : i \in 1 .. 3
    OBVIOUS
  <2>2. \A t \in For : t.judge \in votes
    BY <1>4, <1>5, <2>1
  <2>3. \A i \in votes : \E t \in For : i = t.judge
    BY <1>4, <1>6, <2>1
  <2> QED BY <2>2, <2>3
<1> QED BY <1>7 DEF Favour, For

(* The majority of three is two. *)
LEMMA MajorityOfThree ==
  ASSUME NEW b \in Critical, NEW votes \in SUBSET (1 .. 3)
  PROVE  Majority(votes, b) <=> Cardinality(votes) >= 2
<1>1. Cardinality(Judges(b)) = 3
  BY OneOrThree DEF Judges
<1>2. Cardinality(votes) \in Nat
  BY OneOrThree, FS_Subset, FS_CardinalityType
<1> QED BY <1>1, <1>2 DEF Majority

(* A council that decides adds one verdict, which is now in hand. *)
LEMMA VotesIfDecided ==
  ASSUME Base, Agreed, Voted, NEW c \in Cycle, review(c), NEW votes \in SUBSET (1 .. 3),
         Decided(c, votes)
  PROVE  Agreed' /\ Voted'
<1>1. PICK b0 \in Bead, a0 \in BOOLEAN :
        b0 = work[c].file.bead /\ a0 = Majority(votes, work[c].file.bead)
  BY DecidedInHand
<1>2. /\ work[c].pc = "judging" /\ work'[c].pc = "recording"
      /\ work'[c].file = work[c].file /\ work'[c].approved = a0
      /\ \A d \in Cycle \ {c} : work'[d] = work[d]
      /\ triples' = triples \cup Ballots(b0, votes, 3) \cup {Row(b0, 0, a0)}
      /\ councils' = councils + 1 /\ UNCHANGED ledger
  BY <1>1, DecidedInHand
<1>3. PICK m \in Nat \ {0} : m = councils + 1
  BY PastCouncils
<1>4. PICK r : r = Row(b0, 0, a0)
  OBVIOUS
<1>5. r.council = m /\ r.bead = b0 /\ r.judge = 0 /\ r.approved = a0
  BY <1>3, <1>4 DEF Row
<1>6. \A t \in triples : t.council \in Nat /\ t.council <= councils /\ t.council # m
  BY <1>3, PastCouncils
<1>7. \A t \in Ballots(b0, votes, 3) : t.council = m /\ t.judge # 0
  BY <1>3, BallotsKept
<1>8. /\ Verdicts(b0, a0)' = Verdicts(b0, a0) \cup {r} /\ r \notin Verdicts(b0, a0)
      /\ \A b \in Bead, a \in BOOLEAN : b # b0 \/ a # a0 => Verdicts(b, a)' = Verdicts(b, a)
  BY <1>2, <1>4, <1>5, <1>6, <1>7 DEF Verdicts
<1>9. /\ Recording(b0, a0)' = Recording(b0, a0) \cup {c} /\ c \notin Recording(b0, a0)
      /\ \A b \in Bead, a \in BOOLEAN : b # b0 \/ a # a0 => Recording(b, a)' = Recording(b, a)
  BY <1>1, <1>2 DEF Recording
<1>10. ASSUME NEW b \in Bead, NEW a \in BOOLEAN
       PROVE  Cardinality(Reviews(b, OutcomeOf(a))') + Cardinality(Recording(b, a)')
                <= Cardinality(Verdicts(b, a)')
  <2>1. PICK o : o = OutcomeOf(a)
    OBVIOUS
  <2>2. /\ IsFiniteSet(Recording(b, a)) /\ Cardinality(Recording(b, a)) \in Nat
        /\ Cardinality(Reviews(b, o)) \in Nat
        /\ IsFiniteSet(Verdicts(b, a)) /\ Cardinality(Verdicts(b, a)) \in Nat
    BY VotesAreNumbers
  <2>3. Cardinality(Reviews(b, o)) + Cardinality(Recording(b, a)) <= Cardinality(Verdicts(b, a))
    BY <2>1 DEF Agreed
  <2>4. Reviews(b, o)' = Reviews(b, o)
    BY <1>2 DEF Reviews
  <2>5. CASE b = b0 /\ a = a0
    <3>1. Cardinality(Verdicts(b, a)') = Cardinality(Verdicts(b, a)) + 1
      BY <1>8, <2>2, <2>5, FS_AddElement
    <3>2. Cardinality(Recording(b, a)') = Cardinality(Recording(b, a)) + 1
      BY <1>9, <2>2, <2>5, FS_AddElement
    <3> QED BY <2>1, <2>2, <2>3, <2>4, <3>1, <3>2
  <2>6. CASE b # b0 \/ a # a0
    BY <1>8, <1>9, <2>1, <2>3, <2>4, <2>6
  <2> QED BY <2>5, <2>6
<1>11. ASSUME NEW b \in Critical, NEW a \in BOOLEAN, NEW v \in Verdicts(b, a)'
       PROVE  a <=> Cardinality(Favour(v.council)') >= 2
  <2>1. b \in Bead
    BY ReviewAssumption
  <2>2. v \in Verdicts(b, a) \/ (v = r /\ b = b0 /\ a = a0)
    BY <1>8, <2>1
  <2>3. CASE v \in Verdicts(b, a)
    <3>1. v.council \in Nat \ {0} /\ v.council <= councils
      BY <1>6, <2>3 DEF Verdicts
    <3>2. triples \subseteq triples' /\ \A t \in triples' \ triples : t.council = councils + 1
      BY <1>2, <1>3, <1>4, <1>5, <1>7
    <3>3. Favour(v.council)' = Favour(v.council)
      BY <3>1, <3>2, EarlierCouncils
    <3> QED BY <2>3, <3>3 DEF Voted
  <2>4. CASE v = r /\ b = b0 /\ a = a0
    <3>1. v.council = m
      BY <1>5, <2>4
    <3>2. Favour(m)' = votes
      BY <1>2, <1>3, <2>4, BallotsAreVotes
    <3>3. Favour(v.council)' = votes
      BY <3>1, <3>2
    <3>4. a <=> Cardinality(votes) >= 2
      BY <1>1, <2>4, MajorityOfThree
    <3> QED BY <3>3, <3>4
  <2> QED BY <2>2, <2>3, <2>4
<1> QED BY <1>10, <1>11 DEF Agreed, Voted

(* A verdict that is recorded leaves the hand and counts as a review. *)
LEMMA VotesIfRecorded ==
  ASSUME Base, Agreed, Voted, NEW c \in Cycle, recordVerdict(c), Recorded(c)
  PROVE  Agreed' /\ Voted'
<1>1. PICK b0 \in Bead, n0 \in Nat \ {0} : b0 = work[c].file.bead /\ n0 = work[c].file.id
  BY RecordedInHand
<1>2. PICK a0 \in BOOLEAN : a0 = work[c].approved
  <2>1. work[c] \in WorkType
    BY DEF Base, Typed
  <2> QED BY <2>1 DEF WorkType
<1>3. /\ work[c].pc = "recording" /\ work'[c].pc = "reporting"
      /\ \A d \in Cycle \ {c} : work'[d] = work[d]
      /\ UNCHANGED <<triples, councils>>
      /\ \A d \in Bead \ {b0} : ledger'[d] = ledger[d]
      /\ \A i \in DOMAIN ledger[b0] : ledger'[b0][i] = ledger[b0][i]
  BY <1>1, RecordedInHand
<1>4. PICK k \in Nat : /\ k \notin DOMAIN ledger[b0]
                       /\ DOMAIN ledger'[b0] = DOMAIN ledger[b0] \cup {k}
                       /\ ledger'[b0][k].file = n0
                       /\ ledger'[b0][k].outcome = OutcomeOf(a0)
  BY <1>1, <1>2, RecordedInHand DEF OutcomeOf
<1>5. PICK o0 : o0 = OutcomeOf(a0)
  OBVIOUS
<1>6. /\ Reviews(b0, o0)' = Reviews(b0, o0) \cup {k} /\ k \notin Reviews(b0, o0)
      /\ \A b \in Bead : \A o : b # b0 \/ o # o0 => Reviews(b, o)' = Reviews(b, o)
  BY <1>3, <1>4, <1>5 DEF Reviews
<1>7. /\ Recording(b0, a0)' = Recording(b0, a0) \ {c} /\ c \in Recording(b0, a0)
      /\ \A b \in Bead, a \in BOOLEAN : b # b0 \/ a # a0 => Recording(b, a)' = Recording(b, a)
  BY <1>1, <1>2, <1>3 DEF Recording
<1>8. \A b, a : Verdicts(b, a)' = Verdicts(b, a)
  BY <1>3 DEF Verdicts
<1>9. ASSUME NEW b \in Bead, NEW a \in BOOLEAN
      PROVE  Cardinality(Reviews(b, OutcomeOf(a))') + Cardinality(Recording(b, a)')
               <= Cardinality(Verdicts(b, a)')
  <2>1. PICK o : o = OutcomeOf(a)
    OBVIOUS
  <2>2. /\ IsFiniteSet(Recording(b, a)) /\ Cardinality(Recording(b, a)) \in Nat
        /\ IsFiniteSet(Reviews(b, o)) /\ Cardinality(Reviews(b, o)) \in Nat
        /\ Cardinality(Verdicts(b, a)) \in Nat
    BY VotesAreNumbers
  <2>3. Cardinality(Reviews(b, o)) + Cardinality(Recording(b, a)) <= Cardinality(Verdicts(b, a))
    BY <2>1 DEF Agreed
  <2>4. o = o0 <=> a = a0
    BY <1>5, <2>1 DEF OutcomeOf
  <2>5. CASE b = b0 /\ a = a0
    <3>1. Cardinality(Reviews(b, o)') = Cardinality(Reviews(b, o)) + 1
      BY <1>6, <2>2, <2>4, <2>5, FS_AddElement
    <3>2. Cardinality(Recording(b, a)') = Cardinality(Recording(b, a)) - 1
      BY <1>7, <2>2, <2>5, FS_RemoveElement
    <3> QED BY <1>8, <2>1, <2>2, <2>3, <3>1, <3>2
  <2>6. CASE b # b0 \/ a # a0
    BY <1>6, <1>7, <1>8, <2>1, <2>3, <2>4, <2>6
  <2> QED BY <2>5, <2>6
<1>10. Voted'
  <2>1. \A n : Favour(n)' = Favour(n)
    BY <1>3 DEF Favour
  <2> QED BY <1>8, <2>1 DEF Voted
<1> QED BY <1>9, <1>10 DEF Agreed

(* The agreement holds in every step. *)
LEMMA VotesStay == Base /\ Idle /\ Agreed /\ Voted /\ [Next]_vars => Agreed' /\ Voted'
<1> SUFFICES ASSUME Base, Idle, Agreed, Voted, [Next]_vars PROVE Agreed' /\ Voted'
  OBVIOUS
<1>1. CASE Calm
  <2>1. OnlyBallots /\ \A b \in Bead, o \in {"SUCCESS", "FAILURE"} : Reviews(b, o)' = Reviews(b, o)
    BY <1>1, NotedReviews DEF Calm
  <2>2. \A b \in Bead, a \in BOOLEAN : Recording(b, a)' \subseteq Recording(b, a)
    BY <1>1 DEF Calm, NotFurther, Recording
  <2> QED BY <2>1, <2>2, VotesIfCalm
<1>2. CASE \E c \in Cycle : \E f \in inbox : handleWitnessInbox(c, f)
  <2>1. PICK c \in Cycle, f \in inbox : handleWitnessInbox(c, f)
    BY <1>2
  <2>2. /\ work'[c].pc \in {"analyzing", "judging"} /\ \A d \in Cycle \ {c} : work'[d] = work[d]
        /\ UNCHANGED <<ledger, triples>>
    BY <2>1, TakenInHand
  <2>3. OnlyBallots /\ \A b \in Bead, o \in {"SUCCESS", "FAILURE"} : Reviews(b, o)' = Reviews(b, o)
    BY <2>2 DEF OnlyBallots, Reviews
  <2>4. \A b \in Bead, a \in BOOLEAN : Recording(b, a)' \subseteq Recording(b, a)
    BY <2>2 DEF Recording
  <2> QED BY <2>3, <2>4, VotesIfCalm
<1>3. CASE Crash
  <2>1. (\A c \in Cycle : work'[c].pc = "idle") /\ UNCHANGED <<ledger, triples>>
    BY <1>3 DEF Crash, NoWork
  <2>2. OnlyBallots /\ \A b \in Bead, o \in {"SUCCESS", "FAILURE"} : Reviews(b, o)' = Reviews(b, o)
    BY <2>1 DEF OnlyBallots, Reviews
  <2>3. \A b \in Bead, a \in BOOLEAN : Recording(b, a)' \subseteq Recording(b, a)
    BY <2>1 DEF Recording
  <2> QED BY <2>2, <2>3, VotesIfCalm
<1> QED BY <1>1, <1>2, <1>3, CalmOrNot, VotesIfDecided, VotesIfRecorded

-----------------------------------------------------------------------------
(* The theorems. *)

IInv == Base /\ Idle /\ Kept /\ Once /\ Waiting /\ Agreed /\ Voted

(* Nothing has been reviewed yet. *)
LEMMA InitInv == Init => IInv
<1> SUFFICES ASSUME Init PROVE IInv
  OBVIOUS
<1>1. Base
  BY InitBase
<1>2. /\ \A c \in Cycle : work[c] = NoWork
      /\ \A b \in Bead : DOMAIN ledger[b] = {}
      /\ inbox = {} /\ handled = {} /\ triples = {}
  BY DEF Init
<1>3. \A c \in Cycle : work[c].pc = "idle" /\ work[c].file.id = 0
  BY <1>1, <1>2, Numbers DEF Base
<1>4. Idle
  BY <1>3 DEF Idle
<1>5. Kept
  BY <1>2, <1>3 DEF Kept
<1>6. Once /\ Waiting
  <2>1. \A b \in Bead, n \in Nat \ {0} : Done(b, n) = {} /\ Handling(n) = {}
    BY <1>2, <1>3 DEF Done, Handling, Before
  <2>2. Slack \in Nat
    BY <1>1, SlackIsNumber
  <2>3. Cardinality({}) = 0
    BY FS_EmptySet
  <2>4. Once
    BY <2>1, <2>2, <2>3 DEF Once
  <2> QED BY <1>2, <2>4 DEF Waiting
<1>7. Agreed /\ Voted
  <2>1. \A b \in Bead : \A o, a : Reviews(b, o) = {} /\ Recording(b, a) = {} /\ Verdicts(b, a) = {}
    BY <1>2, <1>3 DEF Reviews, Recording, Verdicts
  <2>2. Cardinality({}) = 0 /\ Critical \subseteq Bead
    BY FS_EmptySet, ReviewAssumption
  <2>3. Agreed
    BY <2>1, <2>2 DEF Agreed
  <2> QED BY <2>1, <2>2, <2>3 DEF Voted
<1> QED BY <1>1, <1>4, <1>5, <1>6, <1>7 DEF IInv

(* Every step keeps the invariant. *)
LEMMA NextInv == IInv /\ [Next]_vars => IInv'
BY NextBase, IdleKept, KeptStays, OnceStays, VotesStay DEF IInv

(* The invariant holds throughout. *)
THEOREM Invariant == Spec => []IInv
BY InitInv, NextInv, PTL DEF Spec

(* A patch that the runtime is done with has its verdict in the ledger,    *)
(* unless the graph or the ledger refused a write                          *)
(* (worker-loop.ts:469-541): no crash, overlap or failed analysis loses    *)
(* one. *)
THEOREM NoVerdictIsLost == Spec => []NoVerdictLost
<1>1. IInv => NoVerdictLost
  <2> SUFFICES ASSUME IInv, spent["kgfail"] + spent["locktimeout"] = 0,
                      NEW f \in handled, f.type = "PATCH_READY"
               PROVE  \E i \in DOMAIN ledger[f.bead] : ledger[f.bead][i].file = f.id
    BY DEF NoVerdictLost
  <2>1. ~Failed
    BY DEF Failed
  <2> QED BY <2>1 DEF IInv, Kept, Has
<1> QED BY <1>1, Invariant, PTL

(* A patch is reviewed once, and once more for every crash and for every   *)
(* poll cycle that took the file of another (bus.ts:185-257). *)
THEOREM ReviewsAreBounded == Spec => []ReviewedOnce
<1>1. IInv => ReviewedOnce
  <2> SUFFICES ASSUME IInv, NEW b \in Bead, NEW f \in inbox \cup handled
               PROVE  Cardinality({i \in DOMAIN ledger[b] : ledger[b][i].file = f.id})
                        <= 1 + spent["crash"] + spent["overlap"]
    BY DEF ReviewedOnce
  <2>1. f.id \in Nat \ {0} /\ f.id \in Nat
    BY FilesHaveBeads DEF IInv
  <2>2. Cardinality(Done(b, f.id)) + Cardinality(Handling(f.id)) <= 1 + Slack
    BY <2>1 DEF IInv, Once
  <2>3. /\ Cardinality(Done(b, f.id)) \in Nat /\ Cardinality(Handling(f.id)) \in Nat
        /\ Slack \in Nat
    BY <2>1, CountsAreNumbers DEF IInv
  <2>4. Cardinality(Done(b, f.id)) <= 1 + Slack
    BY <2>2, <2>3
  <2>5. spent["crash"] \in Nat /\ spent["overlap"] \in Nat
    BY DEF IInv, Base, Typed, Event
  <2> QED BY <2>4, <2>5 DEF Done, Slack
<1> QED BY <1>1, Invariant, PTL

(* What the ledger says of a review the graph says too, and of a critical  *)
(* bead two of three judges (witness.ts:40-116), whatever writes fail.     *)
THEOREM VotesHaveDecided == Spec => []VotesDecide
<1>1. IInv => VotesDecide
  <2> SUFFICES ASSUME IInv PROVE VotesDecide
    OBVIOUS
  <2>1. ASSUME NEW b \in Bead, NEW a \in BOOLEAN
        PROVE  Cardinality(Reviews(b, OutcomeOf(a))) <= Cardinality(Verdicts(b, a))
    <3>1. PICK o : o = OutcomeOf(a)
      OBVIOUS
    <3>2. /\ Cardinality(Recording(b, a)) \in Nat /\ Cardinality(Reviews(b, o)) \in Nat
          /\ Cardinality(Verdicts(b, a)) \in Nat
      BY VotesAreNumbers DEF IInv
    <3>3. Cardinality(Reviews(b, o)) + Cardinality(Recording(b, a)) <= Cardinality(Verdicts(b, a))
      BY <3>1 DEF IInv, Agreed
    <3> QED BY <3>1, <3>2, <3>3
  <2>2. OutcomeOf(TRUE) = "SUCCESS" /\ OutcomeOf(FALSE) = "FAILURE"
    BY DEF OutcomeOf
  <2>3. \A b \in Bead :
          /\ Cardinality(Reviews(b, "SUCCESS")) <= Cardinality(Verdicts(b, TRUE))
          /\ Cardinality(Reviews(b, "FAILURE")) <= Cardinality(Verdicts(b, FALSE))
    <3>1. TRUE \in BOOLEAN /\ FALSE \in BOOLEAN
      OBVIOUS
    <3> QED BY <2>1, <2>2, <3>1
  <2> QED BY <2>3 DEF VotesDecide, IInv, Voted
<1> QED BY <1>1, Invariant, PTL
=============================================================================
