---------------------------- MODULE GasCityBridge ----------------------------
(***************************************************************************)
(* The bridge to Gas City (src/gascity): each process runs councils of     *)
(* workers one after the other, for the beads that are ready (watch), for  *)
(* a command (swarm), or for the operator's shell, who may interrupt       *)
(* (src/cli/queen-shell.ts).  A run leaves a comb record, a file, and in   *)
(* mode apply metadata of the bead, which the external program bd keeps.   *)
(* No other code runs between the last answer and the comb: an interrupt   *)
(* is only seen while bd, a worker or the arbiter is awaited.              *)
(***************************************************************************)
EXTENDS Consensus

CONSTANTS Bead, Watch, Command, Shell,  \* the processes of each kind
          WatchMode, WatchStrategy,     \* the options of the watching processes
          None,                         \* no comb record or metadata
          Other,                        \* an arbiter's answer that no worker gave
          MaxRuns,                      \* bound: runs of a behaviour
          MaxFaults                     \* bound: interrupts, crashes and failures

VARIABLES proc,    \* proc[p]: what p awaits, and for which run
          todo,    \* todo[p]: ready beads that a watching process still has to run
          runs,    \* number of runs so far: names them
          comb,    \* comb[n]: the record of run n
          meta,    \* meta[b]: the consensus metadata of b
          output,  \* the results that processes have printed
          faults

vars == <<proc, todo, runs, comb, meta, output, faults>>

Process == Watch \cup Command \cup Shell
Mode == {"pure", "apply"}
Votable == {rs \in Responses : Valid(rs) # {}}
Winner == Answer \cup {Other, NoAnswer} \cup {pluralityVote(rs) : rs \in Votable}
Result == [run : 1 .. MaxRuns, bead : Bead, strategy : Strategy, responses : Responses,
           status : {"consensus", "adjudicated", "no_consensus", "error"}, winner : Winner]

ASSUME BridgeAssumption ==
  /\ MaxRuns \in Nat /\ MaxFaults \in Nat /\ None \notin Result
  /\ WatchMode \in Mode /\ WatchStrategy \in Strategy

Idle == [pc |-> "idle"]

Init ==
  /\ proc = [p \in Process |-> Idle] /\ todo = [p \in Process |-> {}]
  /\ runs = 0 /\ comb = [n \in 1 .. MaxRuns |-> None]
  /\ meta = [b \in Bead |-> None] /\ output = {} /\ faults = 0

Fault == faults < MaxFaults /\ faults' = faults + 1
Moves(p, to) == proc' = [proc EXCEPT ![p] = to]

-----------------------------------------------------------------------------
(* Who runs the bridge. *)

runGasCityBridge(p, b, mode, strategy, pc) ==
  /\ proc[p].pc = "idle" /\ runs < MaxRuns /\ runs' = runs + 1
  /\ Moves(p, [pc |-> pc, run |-> runs + 1, bead |-> b, mode |-> mode, strategy |-> strategy])

(* bd ready lists beads; what was applied to a bead does not end it. *)
watchPolls(p) ==
  /\ p \in Watch /\ proc[p].pc = "idle" /\ todo[p] = {}
  /\ \E ready \in SUBSET Bead \ {{}} : todo' = [todo EXCEPT ![p] = ready]
  /\ UNCHANGED <<proc, runs, comb, meta, output, faults>>

watch(p) ==
  /\ p \in Watch
  /\ \E b \in Bead :
       /\ b \in todo[p]
       /\ runGasCityBridge(p, b, WatchMode, WatchStrategy, "asking")
       /\ todo' = [todo EXCEPT ![p] = @ \ {b}]
  /\ UNCHANGED <<comb, meta, output, faults>>

swarmResult(p) ==
  /\ p \in Command
  /\ \E b \in Bead, mode \in Mode, strategy \in Strategy, pc \in {"showing", "asking"} :
       runGasCityBridge(p, b, mode, strategy, pc)
  /\ UNCHANGED <<todo, comb, meta, output, faults>>

swarmBead(p) ==
  /\ p \in Shell
  /\ \E b \in Bead : runGasCityBridge(p, b, "pure", "majority", "showing")
  /\ UNCHANGED <<todo, comb, meta, output, faults>>

(* A run throws: a watching process gives up the rest of its list. *)
Throws(p) == Moves(p, Idle) /\ todo' = [todo EXCEPT ![p] = {}]

(* bd fails, no provider is configured, or an option is out of range. *)
Fails(p) ==
  /\ proc[p].pc \in {"showing", "asking"}
  /\ Fault /\ Throws(p)
  /\ UNCHANGED <<runs, comb, meta, output>>

(* The operator interrupts: the shell has its prompt back at once, the run *)
(* ends where it next looks.                                               *)
Interrupted(p) ==
  /\ p \in Shell /\ proc[p].pc \in {"showing", "asking", "arbitrating"}
  /\ Fault /\ Throws(p)
  /\ UNCHANGED <<runs, comb, meta, output>>

show(p) ==
  /\ proc[p].pc = "showing"
  /\ Moves(p, [pc |-> "asking", run |-> proc[p].run, bead |-> proc[p].bead,
               mode |-> proc[p].mode, strategy |-> proc[p].strategy])
  /\ UNCHANGED <<todo, runs, comb, meta, output, faults>>

-----------------------------------------------------------------------------
(* The council. *)

ResultOf(p, responses, status, winner) ==
  [run |-> proc[p].run, bead |-> proc[p].bead, strategy |-> proc[p].strategy,
   responses |-> responses, status |-> status, winner |-> winner]

writeComb(result) == comb' = [comb EXCEPT ![result.run] = result]
Prints(p, result) == output' = output \cup {result} /\ Moves(p, Idle)

(* Mutant of finish: metadata first, the comb when bd is done. *)
finishWithoutComb(p, result) ==
  \/ /\ IF proc[p].mode = "apply"
        THEN /\ Moves(p, [pc |-> "applying", result |-> result])
             /\ UNCHANGED <<comb, output>>
        ELSE Prints(p, result) /\ writeComb(result)
     /\ UNCHANGED <<todo, faults>>
  \/ Fault /\ Throws(p) /\ UNCHANGED <<comb, output>>

(* Writing the comb, which may throw, and the end of a pure run. *)
finish(p, result) ==
  \/ /\ writeComb(result)
     /\ IF proc[p].mode = "apply"
        THEN Moves(p, [pc |-> "applying", result |-> result]) /\ UNCHANGED output
        ELSE Prints(p, result)
     /\ UNCHANGED <<todo, faults>>
  \/ Fault /\ Throws(p) /\ UNCHANGED <<comb, output>>

(* All workers have answered, failed or timed out; a late answer is lost.  *)
invokeWorkers(p) ==
  /\ proc[p].pc = "asking"
  /\ \E rs \in Responses :
       LET winner == resolveConsensus(rs, proc[p].strategy) IN
       IF winner # NoAnswer THEN finish(p, ResultOf(p, rs, "consensus", winner))
       ELSE IF Valid(rs) = {} THEN finish(p, ResultOf(p, rs, "no_consensus", NoAnswer))
       ELSE /\ Moves(p, [pc |-> "arbitrating", run |-> proc[p].run, bead |-> proc[p].bead,
                         mode |-> proc[p].mode, strategy |-> proc[p].strategy, responses |-> rs])
            /\ UNCHANGED <<todo, comb, output, faults>>
  /\ UNCHANGED <<runs, meta>>

(* The arbiter may answer what it likes; without it, the plurality wins.   *)
adjudicate(p) ==
  /\ proc[p].pc = "arbitrating"
  /\ \E winner \in Answer \cup {Other, deterministicPlurality(proc[p].responses)} :
       finish(p, ResultOf(p, proc[p].responses, "adjudicated", winner))
  /\ UNCHANGED <<runs, meta>>

-----------------------------------------------------------------------------
(* bd update, which may fail after it took effect. *)

setMetadata(p) ==
  /\ proc[p].pc = "applying"
  /\ meta' = [meta EXCEPT ![proc[p].result.bead] = proc[p].result]
  /\ Prints(p, proc[p].result)
  /\ UNCHANGED <<todo, runs, comb, faults>>

TakesEffect(result) ==
  meta' \in {meta, [meta EXCEPT ![result.bead] = result]}

(* Mutant of applyFails: the comb keeps the first result. *)
applyFailsUnlogged(p) ==
  LET result == proc[p].result
      failed == [result EXCEPT !.status = "error"]
  IN  /\ proc[p].pc = "applying" /\ Fault /\ TakesEffect(result)
      /\ Prints(p, failed)
      /\ UNCHANGED <<comb, todo, runs>>

(* The comb is written again, with the error, and that may throw too. *)
applyFails(p) ==
  /\ proc[p].pc = "applying" /\ Fault /\ TakesEffect(proc[p].result)
  /\ LET failed == [proc[p].result EXCEPT !.status = "error"]
     IN  \/ writeComb(failed) /\ Prints(p, failed) /\ UNCHANGED todo
         \/ Throws(p) /\ UNCHANGED <<comb, output>>
  /\ UNCHANGED runs

(* The process dies; bd may go on. *)
Crash(p) ==
  /\ proc[p].pc # "idle" /\ Fault /\ Throws(p)
  /\ IF proc[p].pc = "applying" THEN TakesEffect(proc[p].result) ELSE UNCHANGED meta
  /\ UNCHANGED <<runs, comb, output>>

-----------------------------------------------------------------------------

Next ==
  \E p \in Process :
    \/ watchPolls(p) \/ watch(p) \/ swarmResult(p) \/ swarmBead(p) \/ Fails(p) \/ Interrupted(p)
    \/ show(p) \/ invokeWorkers(p) \/ adjudicate(p) \/ setMetadata(p) \/ applyFails(p) \/ Crash(p)

Spec == Init /\ [][Next]_vars

-----------------------------------------------------------------------------

(* The metadata of a bead can be traced to the comb: the record of its run *)
(* has the same answers and winner (bridge.ts:82-118), whatever fails or   *)
(* dies after bd was called.                                               *)
MetadataHasComb ==
  \A b \in Bead : meta[b] # None =>
    LET n == meta[b].run IN
    comb[n] # None /\ meta[b] \in {comb[n], [comb[n] EXCEPT !.status = meta[b].status]}

(* What a process prints is what the comb says of that run: a write of     *)
(* metadata that fails changes both (bridge.ts:101-115).                   *)
OutputIsLogged == \A result \in output : comb[result.run] = result

(* A consensus would stand if the workers that failed or timed out had     *)
(* answered, whatever they said (resolve.ts:49-83: agreement is counted    *)
(* over all workers).                                                      *)
LateAnswersChangeNothing ==
  \A n \in 1 .. MaxRuns :
    (comb[n] # None /\ comb[n].status = "consensus" /\ comb[n].strategy = "majority") =>
      \A rs \in Responses :
        Completes(rs, comb[n].responses) => resolveConsensus(rs, "majority") = comb[n].winner
=============================================================================
