----------------------------- MODULE LedgerFiles -----------------------------
(***************************************************************************)
(* The files behind one rig's ledger (src/ledger/index.ts): current.jsonl, *)
(* its archived segments, the manifest that lists them and the lock.  An   *)
(* append takes the lock asynchronously and does the rest in synchronous   *)
(* file operations: the appends and reads of one process do not interleave *)
(* there, those of several processes do.                                   *)
(***************************************************************************)
EXTENDS Naturals, FiniteSets, SequencesExt

CONSTANTS Call,          \* calls of appendBead, each with a record of its own
          Process, ProcessOf,
          Reader,        \* the process that calls readBeads
          absent, nobody,
          MaxLines,      \* NOS_LEDGER_MAX_BYTES, in lines
          Preexisting,   \* current.jsonl exists when the processes start
          MaxCrashes, MaxTorn   \* bounds

(* A line is the record of an append, or bytes no reader can parse: the    *)
(* beginning of a record without its newline, or such a beginning with     *)
(* another record glued to it.                                             *)
TornLine == "torn"
Garbage  == "garbage"
Line == Call \cup {TornLine, Garbage}

ASSUME ProcessAssumption ==
  /\ ProcessOf \in [Call -> Process] /\ nobody \notin Call
  /\ TornLine \notin Call /\ Garbage \notin Call
  /\ absent \notin Seq(Line)

VARIABLES
  current,   \* lines of current.jsonl, or absent
  archive,   \* archived segments, by number
  manifest,  \* the segments manifest.json lists; an unreadable one lists none
  lock,      \* who holds current.jsonl.lock
  pc,
  listing,   \* listing[a]: the manifest a is writing
  reader,    \* "idle", or "current": the segments are read
  result,    \* what the read has returned so far
  log,       \* history: the records appended, in order
  crashes, torn

files == <<current, archive, manifest>>
read  == <<reader, result>>
vars  == <<files, lock, pc, listing, read, log, crashes, torn>>

Init ==
  /\ current = IF Preexisting THEN <<>> ELSE absent
  /\ archive = <<>> /\ manifest = <<>> /\ lock = nobody
  /\ pc = [a \in Call |-> "start"]
  /\ listing = [a \in Call |-> <<>>]
  /\ reader = "idle" /\ result = <<>>
  /\ log = <<>> /\ crashes = 0 /\ torn = 0

-----------------------------------------------------------------------------
Acked == {a \in Call : pc[a] = "done"}

(* Synchronous code: from ensureFile's test to its write, and from the     *)
(* grant of the lock to the end of the append.                             *)
Synchronous(a) ==
  pc[a] \in {"creating", "stat", "renamed", "listing", "listed", "append"}

(* a may run: no other synchronous code of its process is in progress. *)
Turn(a) ==
  /\ \A other \in Call \ {a} : ProcessOf[other] = ProcessOf[a] => ~Synchronous(other)
  /\ ProcessOf[a] = Reader => reader = "idle"

Goto(a, from, to) == pc[a] = from /\ Turn(a) /\ pc' = [pc EXCEPT ![a] = to]

(* ensureFile. *)
Exists(a) ==
  /\ current # absent /\ Goto(a, "start", "locking")
  /\ UNCHANGED <<files, lock, listing, read, log, crashes, torn>>

Missing(a) ==
  /\ current = absent /\ Goto(a, "start", "creating")
  /\ UNCHANGED <<files, lock, listing, read, log, crashes, torn>>

(* writeFileSync truncates what another process created meanwhile. *)
Create(a) ==
  /\ Goto(a, "creating", "locking")
  /\ current' = <<>>
  /\ UNCHANGED <<archive, manifest, lock, listing, read, log, crashes, torn>>

(* Mutant of Lock: any lock is taken for a stale one. *)
LockAnyway(a) ==
  /\ Goto(a, "locking", "stat")
  /\ lock' = a
  /\ UNCHANGED <<files, listing, read, log, crashes, torn>>

(* A lock is stale when its holder stopped refreshing it. *)
Lock(a) ==
  /\ Goto(a, "locking", "stat")
  /\ lock # nobody => pc[lock] = "dead"
  /\ lock' = a
  /\ UNCHANGED <<files, listing, read, log, crashes, torn>>

(* The retries run out. *)
LockTimeout(a) ==
  /\ Goto(a, "locking", "failed")
  /\ lock # nobody
  /\ UNCHANGED <<files, lock, listing, read, log, crashes, torn>>

(* The rollover check; statSync throws without a file. *)
Fits(a) ==
  /\ current # absent /\ Len(current) < MaxLines
  /\ Goto(a, "stat", "append")
  /\ UNCHANGED <<files, lock, listing, read, log, crashes, torn>>

StatThrows(a) ==
  /\ current = absent
  /\ Goto(a, "stat", "throwing")
  /\ UNCHANGED <<files, lock, listing, read, log, crashes, torn>>

(* archiveCurrentFile: rename, read the manifest, truncate and write it,   *)
(* create an empty current file.                                           *)
Rename(a) ==
  /\ current # absent /\ Len(current) >= MaxLines
  /\ Goto(a, "stat", "renamed")
  /\ archive' = Append(archive, current)
  /\ current' = absent
  /\ UNCHANGED <<manifest, lock, listing, read, log, crashes, torn>>

(* Mutant of TruncateManifest: the manifest starts anew. *)
TruncateManifestAnew(a) ==
  /\ Goto(a, "renamed", "listing")
  /\ listing' = [listing EXCEPT ![a] = <<Len(archive)>>]
  /\ manifest' = <<>>
  /\ UNCHANGED <<current, archive, lock, read, log, crashes, torn>>

TruncateManifest(a) ==
  /\ Goto(a, "renamed", "listing")
  /\ listing' = [listing EXCEPT ![a] = Append(manifest, Len(archive))]
  /\ manifest' = <<>>
  /\ UNCHANGED <<current, archive, lock, read, log, crashes, torn>>

WriteManifest(a) ==
  /\ Goto(a, "listing", "listed")
  /\ manifest' = listing[a]
  /\ UNCHANGED <<current, archive, lock, listing, read, log, crashes, torn>>

Recreate(a) ==
  /\ Goto(a, "listed", "append")
  /\ current' = <<>>
  /\ UNCHANGED <<archive, manifest, lock, listing, read, log, crashes, torn>>

Lines == IF current = absent THEN <<>> ELSE current
EndsTorn == Lines # <<>> /\ Last(Lines) = TornLine

(* appendFileSync creates a missing file; a torn line swallows the record. *)
AppendLine(a) ==
  /\ Goto(a, "append", "releasing")
  /\ current' = IF EndsTorn THEN Append(Front(Lines), Garbage) ELSE Append(Lines, a)
  /\ log' = Append(log, a)
  /\ UNCHANGED <<archive, manifest, lock, listing, read, crashes, torn>>

(* The disk is full in the middle of the record: appendFileSync throws. *)
AppendTears(a) ==
  /\ torn < MaxTorn /\ torn' = torn + 1
  /\ Goto(a, "append", "throwing")
  /\ current' = IF EndsTorn THEN Lines ELSE Append(Lines, TornLine)
  /\ UNCHANGED <<archive, manifest, lock, listing, read, log, crashes>>

(* finally: release, then the promise settles. *)
Release(a) ==
  /\ \/ Goto(a, "releasing", "done")
     \/ Goto(a, "throwing", "failed")
  /\ lock' = IF lock = a THEN nobody ELSE lock
  /\ UNCHANGED <<files, listing, read, log, crashes, torn>>

(* A process dies between two file operations; its lock stays behind. *)
Crash(p) ==
  /\ crashes < MaxCrashes /\ crashes' = crashes + 1
  /\ pc' = [a \in Call |->
              IF ProcessOf[a] = p /\ pc[a] \notin {"start", "done", "failed"}
              THEN "dead" ELSE pc[a]]
  /\ IF p = Reader THEN reader' = "idle" /\ result' = <<>>
                   ELSE UNCHANGED read
  /\ UNCHANGED <<files, lock, listing, log, torn>>

-----------------------------------------------------------------------------
(* readBeads. *)

(* The records of the lines that parse, read one by one. *)
Records(lines) ==
  LET kept[i \in 0..Len(lines)] ==
        IF i = 0 THEN <<>>
        ELSE IF lines[i] \in Call THEN Append(kept[i - 1], lines[i]) ELSE kept[i - 1]
  IN  kept[Len(lines)]

ReadSegments ==
  /\ reader = "idle"
  /\ \A a \in Call : ProcessOf[a] = Reader => ~Synchronous(a)
  /\ reader' = "current"
  /\ result' = FlattenSeq([i \in DOMAIN manifest |-> Records(archive[manifest[i]])])
  /\ UNCHANGED <<files, lock, pc, listing, log, crashes, torn>>

(* Mutant of ReadCurrent: the most recent records come first. *)
ReadCurrentFirst ==
  /\ reader = "current" /\ reader' = "idle"
  /\ result' = Records(Lines) \o result
  /\ UNCHANGED <<files, lock, pc, listing, log, crashes, torn>>

ReadCurrent ==
  /\ reader = "current" /\ reader' = "idle"
  /\ result' = result \o Records(Lines)
  /\ UNCHANGED <<files, lock, pc, listing, log, crashes, torn>>

AppendStep(a) ==
  \/ Exists(a) \/ Missing(a) \/ Create(a) \/ Lock(a) \/ LockTimeout(a)
  \/ Fits(a) \/ StatThrows(a) \/ Rename(a) \/ TruncateManifest(a)
  \/ WriteManifest(a) \/ Recreate(a) \/ AppendLine(a) \/ AppendTears(a) \/ Release(a)

Next ==
  \/ \E a \in Call : AppendStep(a)
  \/ \E p \in Process : Crash(p)
  \/ ReadSegments \/ ReadCurrent

Spec == Init /\ [][Next]_vars

-----------------------------------------------------------------------------

(* The holder of the lock is inside, or its process died there. *)
TypeOK ==
  /\ current = absent \/ current \in Seq(Line)
  /\ archive \in Seq(Seq(Line))
  /\ Range(manifest) \subseteq DOMAIN archive
  /\ pc \in [Call -> {"start", "creating", "locking", "stat", "renamed", "listing",
                         "listed", "append", "releasing", "throwing", "done", "failed", "dead"}]
  /\ \A a \in Call : Range(listing[a]) \subseteq DOMAIN archive
  /\ reader \in {"idle", "current"}
  /\ Range(result) \subseteq Call /\ Range(log) \subseteq Call
  /\ crashes \in 0..MaxCrashes /\ torn \in 0..MaxTorn

(* Locked file operations of two appends never mix, also when a crashed    *)
(* holder's lock is taken over (HARDENING.md 2.1, write lock); and the lock *)
(* stays with nobody else: who holds it is inside, or died there, so that  *)
(* it can be taken over.  An append that threw does not keep it (the       *)
(* finally of appendBead, ledger/index.ts:157-159).                        *)
Inside(a) ==
  pc[a] \in {"stat", "renamed", "listing", "listed", "append", "releasing", "throwing"}
OneInside == \A a \in Call : Inside(a) => lock = a
LockIsExact == OneInside /\ (lock # nobody => Inside(lock) \/ pc[lock] = "dead")

(* Last write wins (getBead) needs it: whatever is lost, what readBeads    *)
(* returns is in the order of the appends, each record once.               *)
ReadInOrder ==
  reader = "idle" =>
    /\ IsInjective(result)
    /\ \A i, j \in DOMAIN result : i < j =>
         \E k, l \in DOMAIN log : k < l /\ log[k] = result[i] /\ log[l] = result[j]

(* One process has the directory to itself, and nothing was lost yet. *)
Alone ==
  /\ crashes = 0 /\ torn = 0
  /\ \A a \in Call : pc[a] # "start" => ProcessOf[a] = Reader

(***************************************************************************)
(* One process alone has an append-only log (BeadLog).  Its reads take     *)
(* effect when they have read the segments: nothing of the process runs    *)
(* until they have read the current file.                                  *)
(***************************************************************************)
Failed == {a \in Call : pc[a] = "failed"}
Returned == IF reader = "current" THEN result \o Records(Lines) ELSE result

BLog == INSTANCE BeadLog WITH
          log <- log, acked <- Acked, refused <- Failed, returned <- Returned

(* Whatever calls of the process interleave at the lock and however often  *)
(* the file is rolled over, an append is one step, its answer says whether *)
(* it happened, and a read returns exactly the records appended until      *)
(* then, those of appends still to be answered included.  Nothing that was *)
(* acknowledged is ever missing ("No agent may modify or delete an         *)
(* existing line", HARDENING.md 2.1; ledger/index.ts:121-160, 188-224).    *)
ImplementsLog == BLog!Init /\ [][Alone' => BLog!Next]_<<log, Acked, Failed, Returned>>
=============================================================================
