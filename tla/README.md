# NOS Town: a TLA+ verification project

NOS Town runs plans of *beads* (units of work) on AI agents. A **Mayor** decomposes a task into beads,
writes them to an append-only **ledger** and sends each, as a signed *convoy*, to a file mailbox of the
**convoy bus**. A **worker runtime** polls the mailboxes, gates every bead on its predecessors, has it
scanned by **safeguards** and runs it on a **polecat**, whose inference goes through the **Groq provider**.
A **witness** council and a **refinery** review results, a **heartbeat monitor** reports stalls, a
**knowledge graph** keeps facts, locks and counters, which a nightly **Historian** derives from the ledger
and the **router** reads. Apart from all that, a **bridge to Gas City** has councils of workers vote on the
beads of another system.

This directory holds TLA+ models translated from that code, the TLC configurations that check them and the
TLAPS proofs about them. Source paths below are relative to the repository; `worker-loop.ts`, `bus.ts`,
`ledger/index.ts`, `mayor.ts`, `provider.ts` and so on are under `src/`, documents under
`docs/internal-runtime/`. `PROJECT.json` lists the runs, the map from definitions to source lines, the
mutants (a plausible bug for each property, which TLC must find), the hazards and the theorems.

Contents: 1 Inventory. 2 Modules and code. 3 Runs and bounds. 4 Fairness. 5 Proofs. 6 Disagreements.
7 What is not modelled. 8 Plan.

## 1. Inventory

JavaScript runs from one `await` to the next without interruption. Concurrency comes from overlapping
promises in one process (poll cycles, polecats, provider calls), from several processes on the same
directory (every `nt` command starts a runtime of its own) and from crashes between two file operations.

| Component (source) | State | Operations | Interacts through | Hard behaviour | What makes it correct |
|---|---|---|---|---|---|
| Mayor (`roles/mayor.ts`) | outage flag and queue, heartbeat | orchestrate, decompose, covePass, startup, dispatchBead, setOutageActive, drainOutageQueue | ledger, bus, provider | interleaved dispatches, an outage that returns in a drain, half-written plans, replacement Mayors | rendezvous beads wait for all their needs; an accepted bead is held until sent, once; no cycle reaches the ledger; unfinished work is adopted |
| Worker runtime (`runtime/worker-loop.ts`) | polecat slots, stall counts, pause flag, poll timer | start, stop, processOnce, handleBeadDispatch, mayor and witness inboxes, handleStall, handleDeadlock, drain | bus, ledger, pool, polecats, monitor | poll cycles overlap; the gate, the scan and the claim are awaits apart; crashes; late results | causality of successes, nothing forgotten, capacity, every dispatch settles |
| Polecat (`roles/polecat.ts`) | current bead | execute | ledger, provider, safeguards | failure at every await, also while recording a failure | starts only ready beads, frees its slot |
| Convoy bus (`convoys/bus.ts`) | mailbox files, sequence counters, `convoy_seq` triples | send, getNextSeq, processInbox, quarantine | files, knowledge graph | numbers drawn before and checked after a signature; restarts; two cycles on one mailbox | numbers grow; invalid convoys are quarantined, valid ones consumed once |
| Convoy validation (`convoys/verify.ts`, `sign.ts`) | none | verifyConvoy, validateAuthz, validateConvoy | bus | order of checks | only authorised signed convoys are handled |
| Ledger (`ledger/index.ts`) | `current.jsonl`, segments, manifest, lock | appendBead, archiveCurrentFile, readBeads, getBead, getPrerequisites, findCachedBead | files | rollover in the middle of appends and reads, stale locks, torn lines | mutual exclusion; reads are ordered, without duplicates, complete |
| Groq provider (`groq/provider.ts`, `resilience/circuit-breaker.ts`) | circuit state and count, outage timer | executeInference, runWithRetry, execute | API, Ollama, bus (heartbeats) | concurrent calls share breaker and timer; retries, swaps, prunes | breaker open exactly when failing; outages announced; calls end |
| Safeguard pool (`roles/safeguard.ts`) | free workers, priority queue | scan, runEntry, dispatch | runtime, polecats | failure, retry and redistribution in one callback | no worker lost or shared, no scan waits in vain, order |
| Heartbeat monitor (`monitor/heartbeat.ts`) | registered polecats and beads, escalation flags | poll, registerWaitingBead, recordBypass | runtime, Mayor | repeated reports of one stall | escalates once, early for sole predecessors |
| Witness, Refinery (`roles/witness.ts`, `roles/refinery.ts`) | none between reviews | review, analyze | runtime, provider, graph, bus | judges, graph writes and ledger writes that fail one by one; overlapping cycles; crashes | ledger, graph and votes agree; no verdict is lost; nothing is reviewed twice without cause |
| Knowledge graph (`kg/`) | triples | addTriple, resolveCriticalConflicts, invalidateTriple, queries | everybody | processes insert and settle conflicts statement by statement; a writer dies in between | the strongest row of a critical key stands, what contradicts it ends or is flagged |
| Routing (`routing/dispatch.ts`) | none | dispatch, isPlaybookFresh | graph, Mayor | rows of many writers and days; lockdowns during planning | the Historian's last word is read; a lockdown forbids playbooks |
| Historian, batch inference (`roles/historian.ts`, `groq/batch.ts`, `historian/bootstrap-kg.ts`) | none | nightly pipeline, submit and poll, seeding | ledger, graph, API | hours between reading the ledger and writing routes; batches that fail or expire | routes follow the evidence |
| Swarm (`swarm/`) | completed beads | topologicalSort, detectCycles, dispatchWithPriority, resolveConsensus, swarmBroadcast | bus, Mayor, bridge | graphs with self needs and outside needs; priorities against needs; ties | exactly the cycles are found; orders respect needs |
| Gas City bridge (`gascity/`, `cli/queen-shell.ts`) | none; comb files, metadata in `bd` | runGasCityBridge, adjudicate, invokeWorkers, watch, swarm | external `bd` tool, providers | late workers, interrupts, half-applied results, a crash at any await | comb, metadata and output agree; a majority is final |
| Hooks (`hooks/`) | loaded hooks | execute by priority | bus, graph | a hook that fails or hangs | failures are isolated |
| Deacon, provider adapters, hardening, telemetry, the rest of the CLI, `nt` (Go) | none worth a model | one call, output, command lines | | | |

Interactions: Mayor -> bus (BEAD_DISPATCH) -> runtime -> pool -> polecat -> provider -> ledger; runtime ->
bus -> Mayor (CONVOY_BLOCKED, LOCKDOWN_BROADCAST) and -> witness (PATCH_READY) -> Mayor (REVIEW_VERDICT) ->
Refinery; monitor -> runtime by callback (stall, deadlock); ledger -> Historian -> graph -> router and Mayor;
everybody -> ledger and graph as shared state.

## 2. Modules and code

| Module | Models | Composition |
|---|---|---|
| `Convoys` | roles, convoy types, authorisation matrix, order of validation | extended by WorkerRuntime and ReviewPipeline |
| `BeadPipeline` | abstract specification: beads start when their needs succeeded, and succeed when under way or when an identical bead succeeded | implemented by WorkerRuntime (refinement mapping `Pipeline`) |
| `WorkerRuntime` | poll cycles, mailboxes, quarantine, gate, cache, scan window, polecat slots, ledger records, lock timeouts, stalls, deadlock events, drain, restart | composes runtime, bus, polecat, ledger (as histories), monitor (as events) |
| `BeadRecords` | bead ids, the ledger as histories of beads, the tests the Mayor filters with | extended by MayorDispatch and MayorPlan |
| `MayorDispatch` | dispatchBead, the outage queue, its drain, sequence numbers, the runtime's records | composes Mayor, bus gate, ledger |
| `DependencyGraph` | detectCycles, topologicalSort, dispatchWithPriority as functions, next to what a cycle is | extended by MayorPlan |
| `MayorPlan` | orchestrate, decompose, covePass, writing of the plan, startup of a replacement | Mayor and ledger, with the search for cycles of DependencyGraph |
| `BeadLog` | abstract specification: an append-only log; an append is one step, its answer says whether it happened, a read returns the log of one moment | implemented by LedgerFiles while one process is alone (refinement mapping `BLog`) |
| `LedgerFiles` | the files behind a ledger: append, rollover, lock, read, crash, torn line | below the histories of the other modules |
| `ConvoySeq` | getNextSeq, send, swarmBroadcast, restoreSeqCounters | bus and graph |
| `GroqProvider` | executeInference, runWithRetry, circuit breaker, Ollama fallback | calls share a provider |
| `SafeguardPool` | scan, queue, dispatch, runEntry, retry | |
| `ReviewPipeline` | the mailboxes of witness and Mayor, pre-pass, council, verdict, escalation | composes runtime, witness, refinery, Mayor, ledger, graph |
| `KnowledgeGraph` | the table of triples: INSERT, settling of conflicts, queries | extended by TownMemory |
| `TownMemory` | the Historian's runs, seeding, lockdowns, hooks, the Mayor's look-ups and the router | composes graph, Historian, batch client, Safeguard, Mayor, router |
| `Consensus` | resolveConsensus and its strategies as functions | extended by GasCityBridge |
| `GasCityBridge` | watch, swarm and the shell: show, council, arbiter, comb, metadata | composes bridge, consensus, `bd` (external) |
| `MC*` | instances for TLC | |
| `*_proofs` | theorems | extend the module they are about; `Mayor_proofs` holds those about MayorDispatch, MayorPlan, DependencyGraph and GroqProvider: definitions of the plan and the provider carry their names (`PlanInit`, `ProviderSpec`), so that all can be extended |

**WorkerRuntime.** An action is the code between two awaits. `start()` fires `processOnce` from a timer and
does not wait for the previous one (worker-loop.ts:141), so each element of `Cycle` is a poll cycle that may
overlap the others. `pollPc` says what a cycle awaits: *draining* (next file of the listing `pollTodo`),
*validating* (signature of `pollFile`), *scanning* (the window of the pool), *failing*, *caching*, *violating*
(the ledger lock, before the record is appended), *reporting*, *closing* (the release of that lock).
`slotPc` does the same for the execution in a polecat slot: *blocking*, *marking*, *finishing*, *failing*
(lock), *inferring*, *reviewing*, and *blocked*, *succeeded*, *failed* (the promise has settled, the runtime
has not yet reacted). `inbox` and `quarantine` are sets of files; `ledger[b]` is the history of b;
`lateFail` counts failure records that nobody waits for (`.catch` of execute, handleStall). `send` may throw where a
mailbox cannot be written, and each caller takes it differently: the handler throws too and the convoy stays
(`WaitUnsent`), the handler swallows it and the convoy goes (`ReportUnheard`), the promise of the execution
rejects and its `.catch` fails the bead (`RouteFails`), or it is only logged (stalls, deadlocks, late scans). The claim of a
slot, the unlinking of the convoy and the first steps of `execute` are one action because the code has no
await between them. A restart keeps files and ledger and resets the rest. A slot becomes free and its successor code runs in one step, though a rejected
`routeToWitness` reaches `.catch` a few microtasks later: nothing but other promises that are due runs in
between. The order of a listing is left open; the bus sorts it by priority. `Budget` bounds events of the environment.

**MayorDispatch.** Callers and the drain are processes that await the ledger lock (*blocking*) or a signature
(*signing*). `sent` is the sequence of convoys in mailboxes with the call that wrote each; `lastSeq` is the
gate of `send`, which throws for a number it refuses, or after taking one whose mailbox cannot be written
(`SendThrows`, for numbers up to `MaxUnsent`); the drain counts its own numbers up from where it started, as the code does.

**MayorPlan.** `stage` is what orchestrate awaits. The answers of the models (beads, needs, corrections) are choices over fresh ids and arbitrary
needs, among them `noSuchBead`. Writing is one action per bead because each append awaits the lock.

**DependencyGraph.** A graph maps each bead of a list to its needs; ids of no bead of the list may be among
them, which search and sort skip. `detectCycles` is the depth-first search with its colours, as a
recursive function of the beads still to be looked at, the grey and the black ones; `topologicalSort` is Kahn's loop, as a function
of the number of its rounds: `found` is what has ever been in the queue, of which the first n beads have left it. `Acyclic` is
the reference: every set of beads has one that needs none of the others. `dispatchWithPriority` is one call of the
coordinator, one `Turn` per bead, which sorts by priority *after* the topological sort and passes over what is not ready. In the
program only tests call the coordinator; MayorPlan applies it to the plans the guard lets through.

**LedgerFiles.** One action per synchronous file operation; operations of one process do not interleave
(`Turn`), those of several do. A lock of a dead process goes stale and is taken over; the retries of a waiter
may run out before. A torn line swallows the next record. As `BeadLog` (`BLog`), a read counts as done when it has read
the segments: `Returned` is then what it will return, with the lines the current file holds at that moment.

**ConvoySeq.** A *group* is a set of calls that draw in one synchronous block: a single send, or the
recipients of a broadcast with index 1, 2, ... The replacement of the triple is two statements, and a crash
or a failing write may come between them (`half`). After the triple `send` delivers the convoy or throws
(`Thrown`: no checkpoint, a mailbox that cannot be written), and the number is used up either way.

**GroqProvider.** `call[c]` is a call's retry state; each answer of the API (ok, malformed, 429, error,
model_not_found, context_length_exceeded) is an action. Times are three flags: `cooled` (recovery timeout
passed), `outage` (none, recent, long).

**SafeguardPool.** A step is what runs when `scan` is called or a worker's promise settles; the pool is
synchronous in between. `safeguard.ts:419-423` (no worker for the retry) is unreachable, since the failed
worker was just returned, and is no action. In practice `scan` of a worker hardly ever rejects; failures are
modelled as the pool handles them and `safeguard-pool-failover.test.ts` exercises them.

**ReviewPipeline.** `work[c]` is the convoy a poll cycle has in hand and what it awaits: *analyzing* (Refinery's
inference), *noting* (the in-progress record of the pre-pass), *judging* (the council), *recording* (the verdict's
ledger record), *reporting* (the convoy to the Mayor). The file stays in `inbox` until the handler returns, so
another cycle may take it (`overlap`) and a crash brings it back. A judge that fails votes against, as its catch
does. The triples of a council are written one after the other and any write may fail, which ends the review in the
handler's catch. `file` in a ledger record is history: which convoy was reviewed. Escalations run in the
background (`analyses`).

**KnowledgeGraph, TownMemory.** A row's id is its place in `triples`; `from` and `to` are days. `addTriple` is the
INSERT; then `selectConflicts` and one `settleConflict` per rival, because SQLite commits each statement and other
processes write in between. `asof` is the day the writer took at its SELECT. A process with rows in `todo[p]`
writes them, in any order, before anything else: what is synchronous in the code stays synchronous within its process
and interleaves with the others. A run of the Historian reads the ledger once (`seen`), as tallies of outcomes per
model and task type, then goes through its stages *synthesizing*, *batch*, *playbooks*, *routing*, *validating*,
*preferring*; `alone` and `nth` are history for `RoutesByEvidence`. `dispatch` gives the models a bead may get.
Rows that no modelled code reads are left out.

**GasCityBridge.** `proc[p]` is what a process awaits: *showing* (`bd show`), *asking* (the council), *arbitrating*,
*applying* (`bd update`). Between the last answer and the comb the code is synchronous. `bd update` that fails or is
abandoned may have taken effect (`TakesEffect`). Workers' answers are canonical forms, `NoAnswer` for those that
fail, time out or return no JSON object.

## 3. Runs and bounds

State counts are distinct states; every run ends within three minutes on two workers.

| Run | Instance | Shows |
|---|---|---|
| `runtime` | 3 beads (one needs another, all with one task text; all recorded, or one line missing), 2 polecats, 2 cycles, and one of: an overlap of cycles, a restart and a drain, 3 stalls, two of a stall, a deadlock event and a violation, or 2 dispatches and a report that cannot be written; 681 k | `GateHolds`: what gate and cache established holds when acted on. `SuccessIsCausal`. `NoDispatchForgotten`: a convoy, a slot, a rejection, a pending failure or a record always remains of a dispatched bead. `TwinsOnlyByRedispatch`: no convoy is executed twice without an overlap, not even over a crash. `ImplementsPipeline`: refinement of BeadPipeline |
| `runtime_live` | 1 cycle, 2 dispatches (also of an unknown bead), cap 1, and a lock timeout, a failing and a late scan, or a convoy that cannot be written; 49 k | `InflightCap`, `SuccessSticks` (of a bead for the Witness while every convoy is written), and under fairness `DispatchSettles`, `SlotsComeFree` |
| `runtime_requeue` | 2 beads, 1 cycle, 2 dispatches | counterexample: the re-queued convoy ends in quarantine |
| `mayor_dispatch` | a rendezvous of two beads, 2 callers, one bead dispatched twice, 1 restart, either of the first two numbers used up by a convoy that cannot be written; 2.00 M | `RendezvousWaits`, `AcceptedIsHeld`, `SentOncePerCall` |
| `plan` | 3 bead ids, 2 plans, limit 1; 66 k | `LedgerIsAcyclic`, `ReviewNeverBreaksPlan`, `UnfinishedAreAdopted`. `SearchesAgree`: for every corrected plan, in any order of its list. `DispatchFollowsNeeds`: for every plan, all priorities and all failures |
| `ledger` | 4 appends of 2 processes, rollover at every line, 2 crashes, 1 torn line; 95 k | `LockIsExact`, `ReadInOrder` whatever is lost; `ImplementsLog` (refinement of BeadLog, so that a read misses nothing) as long as one process works alone |
| `seq` | 1 process, 5 calls (two of them a broadcast), 2 restarts, 1 lost triple, any call throwing after the gate; 1.07 M | `NeverReused`, `RefusedForAnother`: behind a refusal is another call past the gate with an equal or later number |
| `provider` | 2 calls (one may go to Ollama), threshold 2, 2 attempts; 45 k | `OpenIffFailing`, `OutageIsAnnounced`, `CallsSettle` |
| `pool` | 4 scans of 2 priorities, 2 workers that may fail; 395 k | `WorkersConserved`, `NoneWaitsInVain`, `LeaveInOrder`, `ScansSettle` |
| `memory` | 2 runs of the Historian in two processes and a script; 2 task types, one a prefix of the other, 2 models, 3 histories of the ledger (a promotion, a demotion, a preference), 2 days, and a pair of: plan and lockdown, seed and crash, hook and crash, day and hook, overlap and crash; 1.00 M | `StrongestStands`, `NoContradictionStands`: the graph under interleaved writers and dead ones. `LockdownBlocksPlaybook`. `RoutesByEvidence`: the router follows the Historian's last word |
| `review` | a critical bead with a Refinery pre-pass and a plain urgent one, 2 cycles; two patches with an overlap, or one with a foreign verdict, a crash and a failing graph write, or one with all faults; 600 k | `VotesDecide`: the ledger says of a review what the graph and the votes say. `NoVerdictLost`. `ReviewedOnce` |
| `council` | a watching process, a command and a shell, 3 workers, 2 answers and an arbiter's third, 2 beads, 2 runs, 1 fault; 4.26 M | `MetadataHasComb`, `OutputIsLogged`, `LateAnswersChangeNothing` |

Why these bounds. Two overlapping cycles and two polecats are the least with which a convoy is handled twice
at once and a claim is lost to another cycle; three beads are the least with a predecessor, a successor and a
twin for the cache. Three stalls are the code's own limit. A rollover at every line puts every append inside
one. Two restarts show a counter that is restored from a restored counter. With threshold 2 one failure of
each of two calls opens the circuit. Four scans on two workers leave two waiting, the least for an order
among equals. Three beads have every shape of cycle, a chain, a fork and a join. Two runs of the Historian are the
least in which one supersedes the other, two task types the least in which a lock moves a model away from another
type or a playbook's name matches a second one. Three judges are the code's number; three workers are the least
with a majority that is not unanimous. The theorems remove the bounds where they apply. `Budgets` in `runtime`, `memory`
and `review` list which faults may come together: the product of all has too many states; each fault meets every
other one it shares state with in one of the sets.

Properties conditional on the setting: `InflightCap` holds while poll cycles do not overlap
(disagreement 4); `SuccessSticks` excludes crashes and stalls (disagreement 5) and, for a bead the Witness must
see, convoys that cannot be written (37); `NoDispatchForgotten` excludes drains and crashes (2, 3) and reports that
cannot be written (38), and `DispatchSettles` has neither in its setting; `NoContradictionStands` says nothing of
equals with different dates (40) or of one object (25); `ImplementsLog` is about one
process that does not crash (10-13); `NeverReused` is about one process and ends with the first lost triple
(15, 16); `AcceptedIsHeld` is about one process, because the outage queue is in memory and documented so
(RESILIENCE.md:69); `RoutesByEvidence` is about a run that no other one overlapped, about types no hook has
spoken on (27, 28), and of demotions about types that were never locked (30); `NoVerdictLost` holds until graph or ledger refuse a write (33); `LateAnswersChangeNothing` is
about strategy majority: a quorum of at most one half lets late answers change the winner.

Deadlock is checked where the poll timer always leaves a step; it is off where the system stops by design
(after a drain, when all calls, appends, plans or scans are done).

## 4. Fairness

* WorkerRuntime: weak fairness of each poll cycle (the interval timer fires; a promise of the pool, of the
  lock or of a signature settles), of each slot (inference has a time limit, the lock its retries) and of
  records being written. No fairness for the environment, for restarts or for any particular outcome: scans
  may always reject, inference may always fail. Overlapping cycles are not needed for progress.
* GroqProvider: weak fairness of each call's steps: the client answers or throws, timers fire. Neither
  recovery of the API nor the passing of the outage threshold is assumed.
* SafeguardPool: weak fairness of the end of each scan, whichever way it ends.

## 5. Proofs

The theorems hold for every value of the constants under the named assumptions of the modules (`PlanAssumption`, `IdAssumption`, `LimitAssumption`,
`SizeAssumption`, `BusAssumption`, `ProcessAssumption`, `ProviderAssumption`, `PoolAssumption`, `DayAssumption`,
`MemoryAssumption`, `ConsensusAssumption`, `BridgeAssumption`, `ReviewAssumption`), which TLC evaluates in the
runs.

* `WorkerRuntime_proofs`. `TypeCorrect` is inductive by itself. `Inductive` proves
  `IInv == TypeOK /\ GateHolds /\ SuccessIsCausal`. `SuccessIsCausal` alone is not inductive: when a polecat
  reports a success its predecessors were checked several awaits ago. `GateHolds` carries that check (needs
  within `Succeeded`, an identical bead in `Succeeded` for a cached result) from the gate to the report. It
  survives every step because `Succeeded` is read off the whole history and histories only grow, so a later
  failure record cannot take back what the gate saw. From it follow `GatesHold`, `Causality` and
  `Implementation`: initial states map to initial states of BeadPipeline and every step to a step or a
  stutter. `SerialCap` assumes a single cycle: between the capacity check and the claim nobody else claims.
  - `NothingForgotten` (`TraceInv`): a cycle that is about to unlink its convoy, and a slot that is about to be
    freed, have left a record of the bead or leave a failure to be written; without it the unlinking or the freeing
    would lose the last trace. A bead that only a report stands for is excluded from the first report that is lost.
  - `NoTwins` (`TwinInv`): files in the mailbox are told apart by a serial number that only grows (`SerialInv`), at
    most one cycle is at work while none overlaps, and the orders of a bead in the mailbox and its slots together are no
    more than its dispatches. A crash drops slots and keeps files, an unlink moves one from the first to the second.
  - `SuccessStays` is about an action, and assumes `Steady`: no overlap, restart, stall or violation is budgeted, which
    is the setting of disagreement 5 and of the run. `OnceInv` counts for each bead the places its dispatches can be
    (`Balance`: open orders, slots at work, failures that wait for the lock, the success itself); a bead dispatched
    once and successful therefore has nobody left who could write about it.
    For a bead of the Witness the invariant is only kept (`Sure`) until a convoy cannot be written: then the catch
    block is somebody who could.
* `Mayor_proofs`. The provider's `BreakerIsExact` and `OutageIsKnown` are invariants of the shared variables,
  inductive with the types of state and count, whatever the calls do. `CallsRunOut` is what `CallsSettle` rests on
  next to its fairness: a call has at most three rounds (primary, pruned, fallback) of `MaxRetries` attempts, each a
  request and a backoff, so `StepsLeft` starts below `9 * MaxRetries + 9`, falls with every step of the call and does
  not move with anyone else's. A prune counts because only an unpruned call to the primary model prunes (`Retrying`).
  The dispatch's three theorems share `Typed`.
  - `RendezvousHolds` (`WaitInv`): a call or a drain that waits for its signature holds a bead whose needs were
    completed at the guard, when the bead needs several; `completed` reads whole histories, so it stays true over the
    await. The outage queue needs no such part: a drain passes the guard again.
  - `NoneDropped` (`KeptInv`): what the property allows to be in the hands of any call has to be in those of the
    drain, or in a mailbox, the queue, the rest of the batch or a blocked record: another call that holds the bead may
    throw. A restart empties `accepted`, as the property is about one process.
  - `SentAtMostOnce` (`ChargeInv`): the convoys, the places in the queue, the places left in the batch and the calls in
    hand of a bead are, together, no more than its calls. Each step moves at most one from one kind of place to the
    next; a drain that fails for a bead moves it from the batch back to the queue.
  - `CyclesAreFound`: for every graph with finitely many beads, `detectCycles` is TRUE exactly where there is a cycle.
    That the recursive function exists needs a rank that falls with each call (`Rank`: beads off the grey path count
    most, then those still to be looked at): a function on the states below a rank extends to the next, by `Induction`
    as in `LedgerFiles_proofs`. By a second induction (`LookIsRight`), a search that reports no cycle leaves black beads
    that need only black ones and include what it had to look at, none of it on a cycle (`Done`); and while each bead
    of the grey path leads to each one to be looked at (`Linked`), a bead met on the path closes a cycle.
  - `SortIsRight`: for every finite list. After n rounds what was found has no bead twice, holds exactly the beads whose
    needs are among the first n, and each behind its needs (`SortInv`). As many rounds as there are beads empty the queue
    (`SortEnds`); the beads not found then each need another one not found, which is a
    cycle, and where all were found there is none (`SortedIsAcyclic`). That a loop is a function of its rounds is
    `LoopExists`, by induction.
  - `DispatchIsRight`, with priorities and failures of any kind. The queue holds what was sorted, each bead once: places
    by rank are distinct, since `Above` is a strict order (`PlacesAreOwn`). `CallInv` says of the turns of one call that
    each bead sent has all its needs completed before, in earlier calls or earlier in this one, and that a bead that
    was ready when the call began and does not fail is completed. So each call either completes one more bead or finds
    nothing left that can be completed (`Settled`), which stays so: after as many calls as there are beads it is so
    (`CallsInv`).
  - `NoCycleIsWritten` and `NoPlanIsRefused` (`PlanInv`). `InHand`: a plan under review has no needs among its own
    beads, as the model named needs before the ids were drawn (disagreement 9), and corrections that make a cycle are
    dropped, so what is written has none. `Drawn`: needs are drawn no later than the bead, and a bead in the ledger
    needs nothing of a later plan. Without it a plan, or the part a dead Mayor wrote of it, could close a cycle with
    needs that are in the ledger.
  - `OrphansAreAdopted`, about an action: the last record of an unfinished bead is among those startup filters.
* `LedgerFiles_proofs`, `LockExcludes`: whoever is inside the rollover or the append holds the lock, and nobody else but a
  dead call does. The invariants (`LockInv`, `HeldInv`) add the types of the program counters and the lock; the case that
  matters is the takeover, where the dead holder is no longer inside.
  - `ReadsAreOrdered` (`OrderInv`), for any processes, crashes and torn writes: the current file and each archived one
    hold records in the order of `log`, an archived file only earlier ones than the next and than the current file, and
    the manifest lists archived files in the order in which they were renamed. What a reader took from the segments is
    archived, so it comes before what it then finds in the current file, also when a rollover moved that file in
    between: the reader then misses records (disagreement 12) but returns none twice.
  - `AloneIsLog`: a process that works alone without loss has the log of BeadLog. No call is between the rename and the
    manifest when a read begins, so every segment is listed, and every record appended is in the current file or in a
    segment (`AloneInv`; `SoleInv` adds that nobody has died). The files hold the records of the log and no others (`FilesHoldLog`), in the order of the log, and an order without ties leaves
    one way to write records down (`OneOrder`), so that what a read returns is the log itself (`LogIsRead`): nothing missing,
    added, moved or doubled by a rollover. Of the steps of an append only the write of the line and the answer are seen.
  - `Records` and the concatenation of segments are recursive functions. `Induction` restates the well-foundedness of
    the naturals for a set of numbers instead of a predicate, which the provers can instantiate, and `KeptByLine`,
    `RecordsInOrder`, `FlatBySegment`, `SegmentsInOrder` say by it what they compute for every input.
* `ConvoySeq_proofs`, `NumbersGrow`: with one process the numbers in the mailboxes grow until a triple is
  lost. The invariant `SeqInv`: outside the window between the two statements the graph's oldest triple is
  at least the counter, inside it the graph is empty and only one call or group is at work; the sending
  call's number is the counter and exceeds every number sent. `UnlessLost` makes it inductive by dropping
  it from the first lost triple on. `RefusalsHaveCause` needs no such setting: `CauseInv` says that a call
  whose number its process's counter has reached was overtaken by another one past the gate, whether that
  delivered its convoy, threw, or is still at the triple; that calls are drawn once (`Fresh`) keeps the numbers of
  those past the gate.
* `SafeguardPool_proofs`, `NoWorkerLost` and `NoScanForgotten`: lemmas say how returning a worker, taking
  one, inserting a scan and dispatching change "free workers and workers in use partition the pool" and "the
  queue holds exactly the waiting scans"; each action is a chain of these. `OrderKept`, about an action: the queue is
  sorted by priority and call (`OrderInv`). That the insertion keeps it sorted needs that the counter of calls is above
  all of the queue, so a new scan is last among equals; a retry does not enter the queue.
* `TownMemory_proofs`, for any number of processes, runs, rows and days: `StrongestAlwaysStands`, `ContradictionsSettled`,
  `LockdownAlwaysBlocks`, `WordIsFollowed`. The invariant of the first three is about the graph and the town. `KGInv`: types,
  no row is of a later day, rows outside the critical relations are never ended, a writer's rivals are the other rows
  of its row's key, `StrongestStands`, and `RivalsResolved`, which says more than `NoContradictionStands`: of any two
  settled rows of a key, whatever their objects and dates, one has ended or the older is a flagged equal. The argument for `StrongestStands`: a row is only ended for a
  strictly stronger one of its key, and that one, if it was ended since the SELECT, was ended for one that is stronger
  still; ranks are natural numbers, and the invariant keeps for every row a standing one that is no weaker.
  `Inv` adds that the rows waiting in `todo` are well-formed and no lockdowns, that `since` is no later than the
  table, and that lockdown rows are what the query for them finds. Lemmas keep `KGInv` along each statement, so a step
  of the town only has to be one, or to leave the graph alone.
  - `WordIsFollowed` (`WordInv`): runs are numbered as they start, and one that goes on beside a run that was alone at
    its start began later (`Numbered`). A ruling, a lock or a demotion by the Historian, never ends, since nobody outranks
    it, and waits in a process only while that hosts a run (`Ruled`). While a run rules (`Rules`), whatever rulings wait
    are its own, no row of the table is of a later day, and of each of its task types the newest ruling is its own or
    waits (`WordOf`). `RulingIsFound` takes it to the router: the newest row of the query is that ruling, as seeded ones
    are of day 0. The proof needed the property to say `NeverLocked` where it said that no lock is active: of a lock that
    stood while the run validated, its demotion is newer than the run's own (disagreement 30).
* `GasCityBridge_proofs`. `MajorityIsFinal` is about the operators alone: the votes for two answers are disjoint, so an
  answer with more than half of the workers is the plurality, and more answers only add votes; it rests on
  cardinalities of intervals and subsets. `BridgeInv` proves `IInv`: types, a run in hand has no comb record of another
  run, what waits for `bd update` is in the comb as it is, and a consensus in the comb is what `resolveConsensus` gives
  for its answers. From it follow `MetadataAlwaysHasComb`, `OutputAlwaysLogged` and `ConsensusIsFinal`.
* `ReviewPipeline_proofs`. `Base` (types; a file is known by its number, and no record has a number that no file has
  yet; no triple is of a later council) is inductive by itself. Most actions then are `Calm`: notes at most in the
  ledger, no verdict in the graph, no convoy in hand further than its council, and what leaves the mailbox was
  recorded or a write failed; three properties survive a calm step for general reasons, and only taking a patch, a
  council that decides, a record and a crash are looked at one by one. `NoVerdictIsLost`: a convoy that is being
  reported has its record. `ReviewsAreBounded`: the reviews of a file that are done and those in hand, together, are at
  most one more than the faults (`Once`), and a file that waits has one less (`Waiting`), which pays for the next cycle
  that takes it. `VotesHaveDecided`: a verdict in hand is already in the graph, so reviews in the ledger and verdicts
  in hand together are no more than the graph's verdicts (`Agreed`); later ballots are of later councils (`Voted`).

Only model-checked: liveness (`DispatchSettles`, `SlotsComeFree`, `CallsSettle`, `ScansSettle`), which is out of the
prover's reach; for the provider's calls the decreasing measure behind it is a theorem (`CallsRunOut`). Every other
property of a passing run is a theorem.

## 6. Disagreements

Places where the code does not do what a comment, a document or a test says, met while modelling. The first
is kept as a run; the others were each seen as a counterexample of the module named and are described so that
they can be reproduced by stating the quoted sentence as a property.

1. (WorkerRuntime, run `runtime_requeue`) "re-queue for next poll" (worker-loop.ts:293): the convoy the
   runtime writes for a waiting bead has sender `runtime` and a literal for a signature (:333-348); there is
   no key and no role entry for that sender, so the bus quarantines it. The re-queues of handleStall and
   handleDeadlock end the same way; those at capacity and without a free polecat lack a checkpoint, which
   `send` refuses, and survive only because the handler then throws and the original stays.
2. (WorkerRuntime) drain "Returns when all beads have settled" (:178): a handler inside its scan window
   claims a polecat after drain saw none busy, since the pause flag is not read again (:259, :408).
3. (WorkerRuntime) "Pause accepting new BEAD_DISPATCH convoys" (:161): a paused handler returns normally, so
   the bus deletes the convoy (bus.ts:254-256).
4. (WorkerRuntime) "Maximum beads allowed in-flight simultaneously" (:48): the check (:265) and the claim (:408)
   are a scan window apart, so two overlapping cycles exceed it. And orchestrate returns a plan that nobody
   sends although it lists "7. Dispatch via ConvoyBus" (mayor.ts:122) and the shell prints "Beads dispatched
   to runtime." (index.ts:247; MayorPlan).
5. (WorkerRuntime) A bead whose success was taken over from an identical one is executed again after a crash
   between its record and the unlinking of its convoy (:359-366): the search for a cached result finds the
   bead's own record first, and its execution marks it in progress.
6. (MayorDispatch) "dispatches bead normally when all prerequisites have succeeded"
   (cascade-blocking.test.ts:107): failedDeps filters the whole history (mayor.ts:478-484), so a failure
   record blocks successors for ever, also after the predecessor succeeded.
7. (MayorPlan) "WAITING_FOR_CAPACITY: ... beads in-flight" (mayor.ts:147): in_progress lines of finished
   beads are counted (:144).
8. (MayorPlan) startup "Returns true if an orphan workflow was found" (mayor.ts:85): pending lines of
   finished beads count (:93-96).
9. (MayorPlan) dependencies "MUST be sequenced using the needs field" (HARDENING.md:118): the model names
   needs before createBead draws the ids (mayor.ts:265-270), so they match no bead.
10. (LedgerFiles) "No agent may modify or delete an existing line" (HARDENING.md:94): ensureFile tests and
    writes outside the lock (ledger/index.ts:38-43), so a second process can truncate the file.
11. (LedgerFiles) "A manifest.json lists all segment files" (GAP_ANALYSIS.md:353): a crash between the rename
    and the manifest (:98-111) leaves a segment no reader visits.
12. (LedgerFiles) "Read all beads" (:185): a reader of another process finds the records of a rollover in
    progress neither in the manifest nor in the current file.
13. (LedgerFiles) The first record after a torn line is glued to it and dropped by every reader (:156, :172).
14. (ConvoySeq) "Allocate the next monotonically increasing sequence number" (bus.ts:76): two calls in flight
    draw the same number (:84), the second send throws; numbers of a broadcast past the first are not in the
    graph and are drawn again after a crash (swarm/tools.ts:76).
15. (ConvoySeq) "Sequence counters are never reset" (bus.ts:49): an UPDATE and an INSERT without a transaction
    (:90-103); when the second is lost the next process starts from zero.
16. (ConvoySeq) "Each sender maintains a monotonically increasing seq counter persisted in the KG"
    (HARDENING.md:161): processes with one sender read the graph only when they start.
17. (ConvoySeq) "Broadcast a message to multiple recipients" (swarm/tools.ts:54): signatures finish in any order
    and the earlier number is refused.
18. (MayorDispatch) "drains the outage queue in FIFO order" (RESILIENCE.md:71): a bead whose dispatch fails
    goes to the back (mayor.ts:426-430). "Returns count of beads dispatched" (:409): a bead queued again or
    blocked is counted (:425).
19. (GroqProvider) "CLOSED -> OPEN -> HALF_OPEN -> CLOSED" (circuit-breaker.ts:2): a late success closes an open
    circuit; "try one request" (:45): HALF_OPEN admits every call until the probe is answered.
20. (GroqProvider) "fail fast" (provider.ts:188): a refusal of the open circuit is retried with backoff (:334).
21. (GroqProvider) "On recovery (200 response), it emits PROVIDER_RECOVERED" (RESILIENCE.md:70): a call that
    succeeds at once clears the outage silently (:167), and an answer of Ollama announces Groq's recovery (:156).
22. (GroqProvider) Ollama "activates only after all Groq endpoints fail" (RESILIENCE.md:59): the timer's age
    is all that counts. "Hot-swap permanently for this session" (:32): the swap is forgotten with the call.
    "After 3 failures -> hot-swap" (:24): the call fails without trying the fallback.
23. (SafeguardPool) "Worker loss MUST degrade throughput, not halt" (HARDENING.md:202): a retry takes the
    worker that just failed when the others are busy, and is rejected without trying them (safeguard.ts:410-418).

24. (DependencyGraph) "Dispatch beads in priority order, respecting dependencies" (coordinator.ts:106): the queue is
    sorted by priority after the topological sort (:122), so in one call a bead that outranks what it needs is passed
    over; it goes out in a later call, and a later call sends completed beads again. A need outside the list is
    skipped by the sort (:46) but never counts as completed (:126).
25. (KnowledgeGraph) "find conflicting active triples (same subject + relation, different object)" (kg/index.ts:98):
    the SELECT has no condition on the object, so a repeated fact flags itself for review.
26. (TownMemory) "write a demoted_from triple to revoke the promotion" (historian.ts:357): nothing ends the
    `locked_to` row, and the router asks for locks first (dispatch.ts:69).
27. (TownMemory) A hook's newer lock of another model on the same task type wins in the router, though its agent is
    weaker: subjects differ, so the rows are no conflict (kg/index.ts:106), and the newest is read
    (dispatch.ts:157). Of two locks of one model on different types the weaker or flagged one is a conflict, so a lock
    of the Historian ends the seeded locks of that model on other types.
28. (TownMemory) Two runs of the Historian (the nightly one and a shell's, index.ts:455 and :532) may overlap: the
    one that read the ledger earlier may write its routes later.
29. (TownMemory) queryPlaybook matches by prefix (kg/index.ts:220-226): the playbook of a task type whose name extends
    the one asked for is used, and the lockdown is looked up for the other.
30. (TownMemory) "The script is idempotent" (bootstrap-kg.ts:9): a crash after its first row leaves the table
    partial for ever. A lockdown whose write fails is only logged (safeguard.ts:292). Lockdown rows never end.
    Only the newest demotion is considered (dispatch.ts:187-197), and demoting the fallback model changes nothing. So a
    model demoted for its results comes back when the same run's validation demotes another model for a seeded lock on
    the type (:359-417) and a later row ends that lock: a hook's lock of that model on another type, or, if the seed
    was inserted while the run wrote, the Historian's own lock of it, which settles the seed only after it was read.
31. (ReviewPipeline) The runtime's own PATCH_READY and the REVIEW_VERDICT it writes carry a literal for a signature
    (worker-loop.ts:463, :534) and are quarantined: patches are only reviewed if an agent with a key sends them, and the
    Mayor never hears of a rejection by this process.
32. (ReviewPipeline) "Escalate to Refinery on unanimous Witness rejection" (:575, mayor.ts:601): any rejection
    escalates; attempts counts every record of the bead (:581), so the threshold of two is always met.
33. (ReviewPipeline) A graph or ledger write that fails after the votes is caught and logged (:537), the handler returns
    and the convoy is deleted: the patch has no verdict.
34. (GasCityBridge) `throwIfAborted` before the comb and before the metadata (bridge.ts:79, :92) can never fire: nothing
    was awaited since the last test. A result that the arbiter decided keeps the plurality's agreement and count, also
    when the arbiter chose another answer. In mode apply a run without consensus replaces the metadata of an earlier
    consensus. `watch` runs ready beads again at every poll, and one that throws costs the rest of the round.
35. (WorkerRuntime) Only the Mayor is registered with the monitor (index.ts:444): registerPolecat, registerWaitingBead
    and recordBypass have no caller in src/src, so stall and deadlock events (RESILIENCE.md) never arise. The runtime
    model keeps them as events of the environment, since the handlers are there.
36. (WorkerRuntime) "stall 3+: mark bead BLOCKED" (:619, :631; "Mayor escalates to `BLOCKED`
    status", HARDENING.md:74; "Bead is marked `BLOCKED`", RESILIENCE.md:112): the record has status `failed` and outcome
    `FAILURE` (:634-639), which also fails the beads that need this one; only the event is called BEAD_BLOCKED.
37. (WorkerRuntime) "Polecat execution failed" (:435): the catch also takes what `routeToWitness` throws after the
    execution succeeded (:430), and appends a failure behind the recorded success.
38. (WorkerRuntime) "Non-fatal — lockdown is already logged" (:775): it is in the audit log only. When the report of an
    early rejection cannot be written, the handler returns and the convoy is deleted (:385-386), and of the bead neither
    convoy nor record is left. The re-queue of a stall that cannot be written is logged as well (:667); its bead has a
    slot.
39. (ConvoySeq) "Replay attack detected" (bus.ts:139): the counter moves (:142) before the checkpoint test (:167-174) and
    the mailbox write (:177), which may throw. The number is then used up without a convoy, and refuses a call in flight
    with the same one. The runtime does it itself when no polecat is free (worker-loop.ts:395-404). And "Receivers
    maintain a `last_seen_seq` per sender" (HARDENING.md:162): no receiver has one; the sender's gate is the only one, so
    a convoy that is delivered again is not refused.
40. (KnowledgeGraph) "later `valid_from`" decides among equals before `conflict_pending` does
    (KNOWLEDGE_GRAPH.md:170-173; kg-critical-conflict.test.ts:72): only `resolveConflict` has the rule
    (kg/index.ts:321-323), which tests alone call. `addTriple` flags equals whatever their dates (:136-147) and both stand.
41. (KnowledgeGraph) "the existing triple is NOT automatically invalidated" (KNOWLEDGE_GRAPH.md:95): `addTriple` ends the
    weaker of two critical rows (kg/index.ts:121-135), as the same document demands at :170-171.

## 7. What is not modelled

* In the modelled components: BEAD_STATUS and the mailbox types that are only logged; the priority order of a
  listing; the seven-day age of cached results; the Mayor's heartbeat timer and recoverFromMissing; token
  accounting, the start-up health check and the manual reset of the breaker; what a safeguard looks for and the
  patterns it learns; detectPlaybookRegressions, recordRigWing and the AAAK manifest of the Historian, whose rows
  nothing here reads; file-system loss of synced data and archive names that collide in one millisecond; `doctor`, the
  listing of combs and redaction in the bridge.
* Code that only tests call: the action executor of the hooks, kgInvalidate, kgTraverse, resolveConflict,
  checkTunnelSafety, swarmStatus, swarmAbortWorkflow, swarmResetBead, fork groups and stack families, early deadlock
  escalation, the monitor's tables. `swarmRebalanceLimits` is the constant `Expanded` of MayorPlan.
* `swarm/bridge.ts` and `swarm/invoke.ts`, a stand-alone caller of the consensus modelled in `Consensus`; the sync
  monitor of the graph, which compares hashes and logs.
* Not at all: provider adapters (one HTTP call each), sanitising, audit log, telemetry, the CLI's rendering and the
  Go wrapper: output, or calls without a protocol.
* Signatures are a flag, texts are model values, times are choices or days.

## 8. Plan

Done, in this order: Convoys, BeadPipeline, WorkerRuntime and its proofs; BeadRecords, MayorDispatch, MayorPlan;
LedgerFiles and ConvoySeq with proofs; GroqProvider and SafeguardPool with proofs; KnowledgeGraph and TownMemory
with proofs; ReviewPipeline with proofs; Consensus and GasCityBridge with proofs; DependencyGraph with proofs;
BeadLog, which LedgerFiles implements.

Next, most important first:

1. `Heartbeat`: the escalation tables, composed with the runtime's stall counts, once the program registers polecats.
2. The bus's listing by priority, as a refinement of the runtime's unordered one; the loader and the priorities of hooks.
