------------------------ MODULE GasCityBridge_proofs ------------------------
(***************************************************************************)
(* Proofs about the bridge to Gas City: a majority cannot be lost to the   *)
(* answers of the workers that were too late, and the comb accounts for    *)
(* all that is printed and all metadata.                                   *)
(***************************************************************************)
EXTENDS GasCityBridge, FiniteSetTheorems, TLAPS

(* The votes for an answer are finitely many; those for two answers are    *)
(* together no more than the workers (resolve.ts:57-78).                   *)
LEMMA VotesAddUp ==
  ASSUME NEW rs \in Responses, NEW a, NEW b, a # b
  PROVE  /\ Count(rs, a) \in Nat /\ Count(rs, b) \in Nat
         /\ Count(rs, a) + Count(rs, b) <= Workers
<1>1. IsFiniteSet(1 .. Workers) /\ Cardinality(1 .. Workers) = Workers
  BY FS_Interval, ConsensusAssumption
<1>2. IsFiniteSet(Votes(rs, a)) /\ IsFiniteSet(Votes(rs, b))
  BY <1>1, FS_Subset DEF Votes
<1>3. Votes(rs, a) \cap Votes(rs, b) = {} /\ Votes(rs, a) \cup Votes(rs, b) \in SUBSET (1 .. Workers)
  BY DEF Votes
<1>4. Cardinality(Votes(rs, a) \cup Votes(rs, b)) = Count(rs, a) + Count(rs, b) - 0
  BY <1>2, <1>3, FS_Union, FS_EmptySet DEF Count
<1>5. Cardinality(Votes(rs, a) \cup Votes(rs, b)) <= Workers
  BY <1>1, <1>3, FS_Subset
<1>6. Count(rs, a) \in Nat /\ Count(rs, b) \in Nat
  BY <1>2, FS_CardinalityType DEF Count
<1> QED BY <1>4, <1>5, <1>6

(* More answers are more votes for each. *)
LEMMA MoreVotes ==
  ASSUME NEW rs \in Responses, NEW rs2 \in Responses, Completes(rs2, rs), NEW a \in Answer
  PROVE  Count(rs, a) <= Count(rs2, a)
<1>1. IsFiniteSet(1 .. Workers)
  BY FS_Interval, ConsensusAssumption
<1>2. Votes(rs, a) \in SUBSET Votes(rs2, a)
  BY ConsensusAssumption DEF Votes, Completes
<1>3. IsFiniteSet(Votes(rs2, a))
  BY <1>1, FS_Subset DEF Votes
<1> QED BY <1>2, <1>3, FS_Subset DEF Count

(* An answer with the votes of more than half of the workers is the one    *)
(* that the plurality vote finds (resolve.ts:72-76).                       *)
LEMMA MajorityIsPlurality ==
  ASSUME NEW rs \in Responses, NEW a \in Answer, 2 * Count(rs, a) > Workers
  PROVE  a \in Valid(rs) /\ pluralityVote(rs) = a
<1>1. a \in Valid(rs)
  <2>1. IsFiniteSet({}) /\ Cardinality({}) = 0
    BY FS_EmptySet
  <2> QED BY <2>1, ConsensusAssumption DEF Count, Valid
<1>2. ASSUME NEW b \in Valid(rs) \ {a} PROVE Count(rs, b) < Count(rs, a)
  BY <1>2, VotesAddUp, ConsensusAssumption
<1> DEFINE Best(x) == \A b \in Valid(rs) \ {x} :
                        \/ Count(rs, b) < Count(rs, x)
                        \/ Count(rs, b) = Count(rs, x) /\ Before(rs, x, b)
<1>3. Best(a)
  BY <1>2
<1>4. ASSUME NEW x \in Valid(rs), Best(x) PROVE x = a
  <2>1. SUFFICES ASSUME x # a PROVE FALSE
    OBVIOUS
  <2>2. Count(rs, x) < Count(rs, a) /\ Count(rs, x) \in Nat /\ Count(rs, a) \in Nat
    BY <1>2, <2>1, VotesAddUp
  <2>3. Count(rs, a) <= Count(rs, x)
    BY <1>1, <1>4, <2>1, <2>2
  <2> QED BY <2>2, <2>3
<1>5. pluralityVote(rs) = CHOOSE x \in Valid(rs) : Best(x)
  BY DEF pluralityVote
<1> HIDE DEF Best
<1> QED BY <1>1, <1>3, <1>4, <1>5

(* A majority stands if the missing workers answer after all, whatever     *)
(* they say: agreement is counted over all workers (resolve.ts:64,78).     *)
THEOREM MajorityIsFinal ==
  ASSUME NEW rs \in Responses, NEW rs2 \in Responses, Completes(rs2, rs),
         resolveConsensus(rs, "majority") # NoAnswer
  PROVE  resolveConsensus(rs2, "majority") = resolveConsensus(rs, "majority")
<1> DEFINE a == pluralityVote(rs)
<1>1. resolveConsensus(rs, "majority") = a /\ 2 * Count(rs, a) > Workers /\ a # NoAnswer
  BY DEF resolveConsensus, Agreed
<1> HIDE DEF a
<1>2. a \in Answer
  <2>1. Count(rs, a) # 0
    BY <1>1, ConsensusAssumption
  <2>2. PICK w \in 1 .. Workers : rs[w] = a
    BY <2>1, FS_EmptySet DEF Count, Votes
  <2> QED BY <1>1, <2>2 DEF Responses
<1>3. 2 * Count(rs2, a) > Workers
  <2>1. Count(rs, a) <= Count(rs2, a)
    BY <1>2, MoreVotes
  <2>2. Count(rs, a) \in Nat /\ Count(rs2, a) \in Nat
    BY <1>1, VotesAddUp
  <2> QED BY <1>1, <2>1, <2>2, ConsensusAssumption
<1> QED BY <1>1, <1>2, <1>3, MajorityIsPlurality DEF resolveConsensus, Agreed

-----------------------------------------------------------------------------
(* The inductive invariant. *)

Open == [pc : {"showing", "asking"}, run : 1 .. MaxRuns, bead : Bead, mode : Mode,
         strategy : Strategy]
Arbitrated == [pc : {"arbitrating"}, run : 1 .. MaxRuns, bead : Bead, mode : Mode,
               strategy : Strategy, responses : Votable]
Applied == [pc : {"applying"}, result : Result]

Typed ==
  /\ runs \in 0 .. MaxRuns
  /\ proc \in [Process -> {Idle} \cup Open \cup Arbitrated \cup Applied]
  /\ comb \in [1 .. MaxRuns -> Result \cup {None}]
  /\ meta \in [Bead -> Result \cup {None}]
  /\ output \in SUBSET Result

RunOf(q) == IF q.pc = "applying" THEN q.result.run ELSE q.run

(* Runs have names of their own, and no comb record before their end. *)
Apart ==
  /\ \A p, q \in Process :
       p # q /\ proc[p].pc # "idle" /\ proc[q].pc # "idle" => RunOf(proc[p]) # RunOf(proc[q])
  /\ \A p \in Process : proc[p] \in Open \cup Arbitrated => proc[p].run <= runs /\ comb[proc[p].run] = None
  /\ \A n \in 1 .. MaxRuns : n > runs => comb[n] = None

(* What is to be applied is in the comb, and not printed yet. *)
Pending ==
  \A p \in Process : proc[p].pc = "applying" =>
    /\ comb[proc[p].result.run] = proc[p].result
    /\ \A result \in output : result.run # proc[p].result.run

(* A consensus in the comb is one on its own answers. *)
Sound ==
  \A n \in 1 .. MaxRuns : comb[n] # None /\ comb[n].status = "consensus" =>
    /\ comb[n].winner # NoAnswer
    /\ comb[n].winner = resolveConsensus(comb[n].responses, comb[n].strategy)

IInv == Typed /\ Apart /\ Pending /\ Sound /\ MetadataHasComb /\ OutputIsLogged

(* The bridge starts with an empty comb. *)
LEMMA BridgeInit ==
  Init => IInv
<1> SUFFICES ASSUME Init PROVE IInv
  OBVIOUS
<1> USE DEF Init, Idle
<1>1. Typed
  BY BridgeAssumption DEF Typed
<1>2. Apart
  BY DEF Apart, Open, Arbitrated
<1>3. Pending /\ Sound /\ MetadataHasComb /\ OutputIsLogged
  BY DEF Pending, Sound, MetadataHasComb, OutputIsLogged
<1> QED BY <1>1, <1>2, <1>3 DEF IInv

(* The runs in progress are among those that were started. *)
LEMMA Named ==
  ASSUME IInv, NEW p \in Process, proc[p].pc # "idle"
  PROVE  RunOf(proc[p]) \in 1 .. runs /\ runs \in Nat
<1> USE DEF IInv
<1>1. runs \in Nat /\ runs <= MaxRuns /\ MaxRuns \in Nat
  BY BridgeAssumption DEF Typed
<1>2. proc[p] \in Open \cup Arbitrated \cup Applied
  BY DEF Typed, Idle
<1>3. CASE proc[p] \in Open \cup Arbitrated
  <2>1. proc[p].run \in 1 .. MaxRuns /\ proc[p].pc # "applying"
    BY <1>3 DEF Open, Arbitrated
  <2> QED BY <1>1, <1>3, <2>1 DEF Apart, RunOf
<1>4. CASE proc[p] \in Applied
  <2>1. proc[p].pc = "applying" /\ proc[p].result \in Result /\ proc[p].result.run \in 1 .. MaxRuns
    BY <1>4 DEF Applied, Result
  <2>2. comb[proc[p].result.run] # None
    BY <2>1, BridgeAssumption DEF Pending
  <2> QED BY <1>1, <2>1, <2>2 DEF Apart, RunOf
<1> QED BY <1>2, <1>3, <1>4

(* A run takes a name that no comb record has (bridge.ts:25). *)
LEMMA StartKeeps ==
  ASSUME IInv, NEW p \in Process, NEW b \in Bead, NEW mode \in Mode,
         NEW strategy \in Strategy, NEW pc \in {"showing", "asking"},
         runGasCityBridge(p, b, mode, strategy, pc), UNCHANGED <<comb, meta, output>>
  PROVE  IInv'
<1> USE DEF IInv
<1> DEFINE q == [pc |-> pc, run |-> runs + 1, bead |-> b, mode |-> mode, strategy |-> strategy]
<1>1. /\ runs' = runs + 1 /\ runs' \in 1 .. MaxRuns /\ runs \in Nat
      /\ proc[p].pc = "idle" /\ proc' = [proc EXCEPT ![p] = q]
  BY BridgeAssumption DEF runGasCityBridge, Moves, Typed
<1>2. q \in Open /\ q.pc # "applying" /\ q.pc # "idle" /\ q.run = runs + 1
  BY <1>1 DEF Open
<1>3. p \in DOMAIN proc /\ DOMAIN proc = Process
  BY DEF Typed
<1> HIDE DEF q
<1>4. Typed'
  BY <1>1, <1>2 DEF Typed
<1>5. ASSUME NEW r \in Process, proc[r].pc # "idle" PROVE RunOf(proc[r]) # runs + 1
  BY <1>1, <1>5, Named
<1>6. Apart'
  <2>1. RunOf(q) = runs + 1 /\ q \in Open /\ q.run = runs + 1
    BY <1>2 DEF RunOf
  <2>2. ASSUME NEW r \in Process, NEW t \in Process, r # t,
               proc'[r].pc # "idle", proc'[t].pc # "idle"
        PROVE  RunOf(proc'[r]) # RunOf(proc'[t])
    BY <1>1, <1>3, <1>5, <2>1, <2>2 DEF Apart
  <2>3. ASSUME NEW r \in Process, proc'[r] \in Open \cup Arbitrated
        PROVE  proc'[r].run <= runs' /\ comb[proc'[r].run] = None
    <3>1. CASE r = p
      BY <1>1, <1>3, <2>1, <3>1 DEF Apart
    <3>2. CASE r # p
      <4>1. proc'[r] = proc[r] /\ proc[r].run \in 1 .. MaxRuns
        BY <1>1, <1>3, <2>3, <3>2 DEF Open, Arbitrated
      <4> QED BY <1>1, <2>3, <4>1 DEF Apart
    <3> QED BY <3>1, <3>2
  <2>4. \A n \in 1 .. MaxRuns : n > runs' => comb[n] = None
    BY <1>1 DEF Apart
  <2> QED BY <2>2, <2>3, <2>4 DEF Apart, RunOf
<1>7. Pending'
  BY <1>1, <1>2, <1>3 DEF Pending
<1>8. (Sound /\ MetadataHasComb /\ OutputIsLogged)'
  BY DEF Sound, MetadataHasComb, OutputIsLogged
<1> QED BY <1>4, <1>6, <1>7, <1>8

(* A run may end at any time, with what it has written. *)
LEMMA EndKeeps ==
  ASSUME IInv, NEW p \in Process, Moves(p, Idle), UNCHANGED <<runs, comb, meta, output>>
  PROVE  IInv'
<1> USE DEF IInv
<1>1. proc' = [proc EXCEPT ![p] = Idle] /\ DOMAIN proc = Process
  BY DEF Moves, Typed
<1>2. Typed'
  BY <1>1 DEF Typed
<1>3. Apart'
  BY <1>1 DEF Apart, Idle, Open, Arbitrated
<1>4. Pending'
  BY <1>1 DEF Pending, Idle
<1>5. (Sound /\ MetadataHasComb /\ OutputIsLogged)'
  BY DEF Sound, MetadataHasComb, OutputIsLogged
<1> QED BY <1>2, <1>3, <1>4, <1>5

(* A run that goes on keeps its name (bridge.ts:43-62). *)
LEMMA StageKeeps ==
  ASSUME IInv, NEW p \in Process, NEW q \in Open \cup Arbitrated, Moves(p, q),
         proc[p] \in Open \cup Arbitrated, q.run = proc[p].run,
         UNCHANGED <<runs, comb, meta, output>>
  PROVE  IInv'
<1> USE DEF IInv
<1>1. /\ proc' = [proc EXCEPT ![p] = q] /\ DOMAIN proc = Process
      /\ RunOf(q) = RunOf(proc[p]) /\ RunOf(q) = q.run
      /\ q.pc # "applying" /\ proc[p].pc # "idle"
  BY DEF Moves, Typed, RunOf, Open, Arbitrated
<1>2. Typed'
  BY <1>1 DEF Typed
<1>3. Apart'
  <2>1. ASSUME NEW r \in Process, NEW t \in Process, r # t,
               proc'[r].pc # "idle", proc'[t].pc # "idle"
        PROVE  RunOf(proc'[r]) # RunOf(proc'[t])
    BY <1>1, <2>1 DEF Apart
  <2>2. ASSUME NEW r \in Process, proc'[r] \in Open \cup Arbitrated
        PROVE  proc'[r].run <= runs' /\ comb'[proc'[r].run] = None
    BY <1>1, <2>2 DEF Apart
  <2> QED BY <2>1, <2>2 DEF Apart, RunOf
<1>4. Pending'
  BY <1>1 DEF Pending
<1>5. (Sound /\ MetadataHasComb /\ OutputIsLogged)'
  BY DEF Sound, MetadataHasComb, OutputIsLogged
<1> QED BY <1>2, <1>3, <1>4, <1>5

(* The end of a council: its record is the first of its name, and the      *)
(* result is printed or applied next (bridge.ts:82-91).                    *)
LEMMA FinishKeeps ==
  ASSUME IInv, NEW p \in Process, NEW result \in Result, finish(p, result),
         proc[p] \in Open \cup Arbitrated, result.run = proc[p].run,
         result.status = "consensus" =>
           /\ result.winner # NoAnswer
           /\ result.winner = resolveConsensus(result.responses, result.strategy),
         UNCHANGED <<runs, meta>>
  PROVE  IInv'
<1> USE DEF IInv
<1>1. CASE Throws(p) /\ UNCHANGED <<comb, output>>
  BY <1>1, EndKeeps DEF Throws
<1>2. CASE comb' = [comb EXCEPT ![result.run] = result]
           /\ \/ Moves(p, [pc |-> "applying", result |-> result]) /\ UNCHANGED output
              \/ Prints(p, result)
  <2> DEFINE n == result.run
  <2>1. PICK q \in {Idle} \cup Applied :
          /\ proc' = [proc EXCEPT ![p] = q]
          /\ q = Idle \/ (q.result = result /\ q.pc = "applying" /\ output' = output)
    BY <1>2 DEF Moves, Prints, Applied
  <2>2. /\ n \in 1 .. MaxRuns /\ n = RunOf(proc[p]) /\ n <= runs /\ comb[n] = None
        /\ DOMAIN proc = Process /\ DOMAIN comb = 1 .. MaxRuns /\ runs \in Nat
        /\ proc[p].pc # "idle" /\ output' \in {output, output \cup {result}}
    BY <1>2 DEF Typed, Apart, RunOf, Open, Arbitrated, Result, Prints
  <2>3. /\ comb'[n] = result /\ result # None
        /\ \A m \in 1 .. MaxRuns : m # n => comb'[m] = comb[m]
    BY <1>2, <2>2, BridgeAssumption
  <2>4. \A r \in output : r # None /\ r.run \in 1 .. MaxRuns /\ r.run # n
    BY <2>2, BridgeAssumption DEF Typed, Result, OutputIsLogged
  <2>5. \A b \in Bead : meta[b] # None => meta[b].run \in 1 .. MaxRuns /\ meta[b].run # n
    BY <2>2 DEF Typed, Result, MetadataHasComb
  <2>6. \A r \in Process \ {p} : proc'[r] = proc[r] /\ (proc[r].pc # "idle" => RunOf(proc[r]) # n)
    BY <2>1, <2>2 DEF Apart
  <2>7. proc'[p] = q /\ (q.pc # "idle" => RunOf(q) = n) /\ q \notin Open \cup Arbitrated
    BY <2>1, <2>2 DEF Idle, RunOf, Open, Arbitrated, Applied
  <2>8. Typed'
    BY <1>2, <2>1, <2>2 DEF Typed
  <2>9. Apart'
    <3>1. ASSUME NEW r \in Process, NEW t \in Process, r # t,
                 proc'[r].pc # "idle", proc'[t].pc # "idle"
          PROVE  RunOf(proc'[r]) # RunOf(proc'[t])
      BY <2>6, <2>7, <3>1 DEF Apart
    <3>2. ASSUME NEW r \in Process, proc'[r] \in Open \cup Arbitrated
          PROVE  proc'[r].run <= runs' /\ comb'[proc'[r].run] = None
      <4>1. r # p /\ proc'[r] = proc[r]
        BY <2>6, <2>7, <3>2
      <4>2. proc[r].run = RunOf(proc[r]) /\ proc[r].run \in 1 .. MaxRuns /\ proc[r].pc # "idle"
        BY <3>2, <4>1 DEF RunOf, Open, Arbitrated
      <4> QED BY <2>3, <2>6, <3>2, <4>1, <4>2 DEF Apart
    <3>3. \A m \in 1 .. MaxRuns : m > runs' => comb'[m] = None
      BY <2>2, <2>3 DEF Apart
    <3> QED BY <3>1, <3>2, <3>3 DEF Apart, RunOf
  <2>10. Pending'
    <3> SUFFICES ASSUME NEW r \in Process, proc'[r].pc = "applying"
                 PROVE  /\ comb'[proc'[r].result.run] = proc'[r].result
                        /\ \A x \in output' : x.run # proc'[r].result.run
      BY DEF Pending
    <3>1. CASE r = p
      BY <2>1, <2>3, <2>4, <2>7, <3>1 DEF Idle
    <3>2. CASE r # p
      <4>1. proc'[r] = proc[r] /\ RunOf(proc[r]) = proc[r].result.run /\ proc[r].result.run # n
        BY <2>6, <3>2 DEF RunOf
      <4>2. proc[r] \in Applied
        BY <4>1 DEF Typed, Idle, Open, Arbitrated
      <4>3. proc[r].result.run \in 1 .. MaxRuns
        BY <4>2 DEF Applied, Result
      <4> QED BY <2>2, <2>3, <4>1, <4>3 DEF Pending
    <3> QED BY <3>1, <3>2
  <2>11. Sound'
    BY <2>2, <2>3 DEF Sound
  <2>12. MetadataHasComb'
    BY <2>3, <2>5 DEF MetadataHasComb
  <2>13. OutputIsLogged'
    BY <2>2, <2>3, <2>4 DEF OutputIsLogged
  <2> QED BY <2>8, <2>9, <2>10, <2>11, <2>12, <2>13
<1> QED BY <1>1, <1>2 DEF finish, writeComb

(* The end of a run in mode apply: whether bd was heard or not, the comb   *)
(* has the result with the status that is printed (bridge.ts:93-117).      *)
LEMMA ApplyKeeps ==
  ASSUME IInv, NEW p \in Process, proc[p].pc = "applying",
         NEW last \in {proc[p].result, [proc[p].result EXCEPT !.status = "error"]},
         comb' = [comb EXCEPT ![last.run] = last], output' \in {output, output \cup {last}},
         TakesEffect(proc[p].result), Moves(p, Idle), UNCHANGED runs
  PROVE  IInv'
<1> USE DEF IInv
<1> DEFINE result == proc[p].result
           n == result.run
<1>1. proc[p] \in Applied /\ RunOf(proc[p]) = n
  BY DEF Typed, Idle, Open, Arbitrated, RunOf
<1>2. result \in Result /\ last \in Result /\ n \in 1 .. MaxRuns /\ last.run = n
  BY <1>1 DEF Applied, Result
<1>3. /\ last.status # "error" => last = result
      /\ \A st : [last EXCEPT !.status = st] = [result EXCEPT !.status = st]
      /\ result = [last EXCEPT !.status = result.status]
  BY <1>2 DEF Result
<1>4. /\ comb[n] = result /\ result # None /\ last # None /\ n <= runs /\ runs \in Nat
      /\ comb'[n] = last /\ \A m \in 1 .. MaxRuns : m # n => comb'[m] = comb[m]
      /\ \A r \in output : r.run # n /\ r.run \in 1 .. MaxRuns
  BY <1>2, BridgeAssumption DEF Typed, Pending, Apart, Result
<1>5. /\ DOMAIN proc = Process /\ proc'[p] = Idle
      /\ \A r \in Process \ {p} : proc'[r] = proc[r] /\ (proc[r].pc # "idle" => RunOf(proc[r]) # n)
  BY <1>1 DEF Typed, Moves, Apart
<1>6. Typed'
  BY <1>2 DEF Typed, Moves, TakesEffect
<1>7. Apart'
  <2>1. ASSUME NEW r \in Process, NEW t \in Process, r # t,
               proc'[r].pc # "idle", proc'[t].pc # "idle"
        PROVE  RunOf(proc'[r]) # RunOf(proc'[t])
    BY <1>5, <2>1 DEF Apart, Idle
  <2>2. ASSUME NEW r \in Process, proc'[r] \in Open \cup Arbitrated
        PROVE  proc'[r].run <= runs' /\ comb'[proc'[r].run] = None
    <3>1. r # p /\ proc'[r] = proc[r]
      BY <1>5, <2>2 DEF Idle, Open, Arbitrated
    <3>2. proc[r].run = RunOf(proc[r]) /\ proc[r].run \in 1 .. MaxRuns /\ proc[r].pc # "idle"
      BY <2>2, <3>1 DEF RunOf, Open, Arbitrated
    <3> QED BY <1>4, <1>5, <2>2, <3>1, <3>2 DEF Apart
  <2>3. \A m \in 1 .. MaxRuns : m > runs' => comb'[m] = None
    BY <1>4 DEF Apart
  <2> QED BY <2>1, <2>2, <2>3 DEF Apart, RunOf
<1>8. Pending'
  <2> SUFFICES ASSUME NEW r \in Process, proc'[r].pc = "applying"
               PROVE  /\ comb'[proc'[r].result.run] = proc'[r].result
                      /\ \A x \in output' : x.run # proc'[r].result.run
    BY DEF Pending
  <2>1. r # p /\ proc'[r] = proc[r] /\ RunOf(proc[r]) = proc[r].result.run /\ proc[r].result.run # n
    BY <1>5 DEF RunOf, Idle
  <2>2. proc[r] \in Applied
    BY <2>1 DEF Typed, Idle, Open, Arbitrated
  <2>3. proc[r].result.run \in 1 .. MaxRuns
    BY <2>2 DEF Applied, Result
  <2> QED BY <1>2, <1>4, <2>1, <2>3 DEF Pending
<1>9. Sound'
  <2>1. last.status = "consensus" => last = comb[n]
    BY <1>3, <1>4
  <2> QED BY <1>2, <1>4, <2>1 DEF Sound
<1>10. MetadataHasComb'
  <2> SUFFICES ASSUME NEW b \in Bead, meta'[b] # None
               PROVE  /\ comb'[meta'[b].run] # None
                      /\ meta'[b] \in {comb'[meta'[b].run],
                                       [comb'[meta'[b].run] EXCEPT !.status = meta'[b].status]}
    BY DEF MetadataHasComb
  <2>1. CASE meta'[b] = meta[b]
    <3>1. meta[b] \in Result /\ meta[b].run \in 1 .. MaxRuns
      BY <2>1 DEF Typed, Result
    <3>2. CASE meta[b].run # n
      BY <1>4, <2>1, <3>1, <3>2 DEF MetadataHasComb
    <3>3. CASE meta[b].run = n
      <4>1. meta[b] = [result EXCEPT !.status = meta[b].status]
        BY <1>2, <1>4, <2>1, <3>3 DEF MetadataHasComb, Result
      <4> QED BY <1>3, <1>4, <2>1, <3>3, <4>1
    <3> QED BY <3>2, <3>3
  <2>2. CASE meta'[b] = result
    BY <1>3, <1>4, <2>2
  <2> QED BY <2>1, <2>2 DEF TakesEffect, Typed
<1>11. OutputIsLogged'
  BY <1>2, <1>4 DEF OutputIsLogged
<1> QED BY <1>6, <1>7, <1>8, <1>9, <1>10, <1>11

(* Every step of the bridge keeps the invariant. *)
LEMMA BridgeStep ==
  IInv /\ [Next]_vars => IInv'
<1> SUFFICES ASSUME IInv, [Next]_vars PROVE IInv'
  OBVIOUS
<1> USE DEF IInv
<1>1. CASE UNCHANGED vars
  BY <1>1 DEF vars, Typed, Apart, Pending, Sound, MetadataHasComb, OutputIsLogged, RunOf
<1>2. ASSUME NEW p \in Process, watchPolls(p) PROVE IInv'
  BY <1>2 DEF watchPolls, Typed, Apart, Pending, Sound, MetadataHasComb, OutputIsLogged, RunOf
<1>3. ASSUME NEW p \in Process, watch(p) PROVE IInv'
  BY <1>3, StartKeeps, BridgeAssumption DEF watch
<1>4. ASSUME NEW p \in Process, swarmResult(p) PROVE IInv'
  BY <1>4, StartKeeps DEF swarmResult
<1>5. ASSUME NEW p \in Process, swarmBead(p) PROVE IInv'
  BY <1>5, StartKeeps DEF swarmBead, Mode, Strategy
<1>6. ASSUME NEW p \in Process, Fails(p) PROVE IInv'
  BY <1>6, EndKeeps DEF Fails, Throws
<1>14. ASSUME NEW p \in Process, Interrupted(p) PROVE IInv'
  BY <1>14, EndKeeps DEF Interrupted, Throws
<1>7. ASSUME NEW p \in Process, show(p) PROVE IInv'
  <2> DEFINE q == [pc |-> "asking", run |-> proc[p].run, bead |-> proc[p].bead,
                   mode |-> proc[p].mode, strategy |-> proc[p].strategy]
  <2>1. proc[p] \in Open /\ Moves(p, q)
    BY <1>7 DEF show, Typed, Idle, Arbitrated, Applied
  <2>2. q \in Open /\ q.run = proc[p].run
    BY <2>1 DEF Open
  <2> HIDE DEF q
  <2> QED BY <1>7, <2>1, <2>2, StageKeeps DEF show
<1>8. ASSUME NEW p \in Process, invokeWorkers(p) PROVE IInv'
  <2>1. proc[p] \in Open /\ proc[p].run \in 1 .. MaxRuns /\ proc[p].bead \in Bead
        /\ proc[p].strategy \in Strategy /\ proc[p].mode \in Mode
    BY <1>8 DEF invokeWorkers, Typed, Idle, Arbitrated, Applied, Open
  <2> DEFINE arbitrates(rs) ==
               [pc |-> "arbitrating", run |-> proc[p].run, bead |-> proc[p].bead,
                mode |-> proc[p].mode, strategy |-> proc[p].strategy, responses |-> rs]
             winner(rs) == resolveConsensus(rs, proc[p].strategy)
  <2>2. UNCHANGED <<runs, meta>>
    BY <1>8 DEF invokeWorkers
  <2>3. PICK rs \in Responses :
          \/ winner(rs) # NoAnswer /\ finish(p, ResultOf(p, rs, "consensus", winner(rs)))
          \/ finish(p, ResultOf(p, rs, "no_consensus", NoAnswer))
          \/ /\ Valid(rs) # {} /\ Moves(p, arbitrates(rs))
             /\ UNCHANGED <<todo, comb, output, faults>>
    BY <1>8 DEF invokeWorkers
  <2>4. CASE winner(rs) # NoAnswer /\ finish(p, ResultOf(p, rs, "consensus", winner(rs)))
    <3> DEFINE result == ResultOf(p, rs, "consensus", winner(rs))
    <3>1. winner(rs) = pluralityVote(rs) /\ rs \in Votable
      BY <2>4 DEF resolveConsensus, Votable
    <3>2. winner(rs) \in Winner
      BY <3>1 DEF Winner
    <3>3. /\ result \in Result /\ result.run = proc[p].run /\ result.winner = winner(rs)
          /\ result.responses = rs /\ result.strategy = proc[p].strategy
      BY <2>1, <3>2 DEF ResultOf, Result
    <3>4. result.winner # NoAnswer /\ result.winner = resolveConsensus(result.responses, result.strategy)
      BY <2>4, <3>3
    <3>5. finish(p, result)
      BY <2>4
    <3> HIDE DEF result, winner
    <3> QED BY <2>1, <2>2, <3>3, <3>4, <3>5, FinishKeeps
  <2>5. CASE finish(p, ResultOf(p, rs, "no_consensus", NoAnswer))
    <3> DEFINE result == ResultOf(p, rs, "no_consensus", NoAnswer)
    <3>1. result \in Result /\ result.run = proc[p].run /\ result.status # "consensus"
      BY <2>1 DEF ResultOf, Result, Winner
    <3>2. finish(p, result)
      BY <2>5
    <3> HIDE DEF result
    <3> QED BY <2>1, <2>2, <3>1, <3>2, FinishKeeps
  <2>6. CASE /\ Valid(rs) # {} /\ Moves(p, arbitrates(rs))
             /\ UNCHANGED <<todo, comb, output, faults>>
    <3> DEFINE q == arbitrates(rs)
    <3>1. q \in Arbitrated /\ q.run = proc[p].run
      BY <2>1, <2>6 DEF Arbitrated, Votable
    <3>2. Moves(p, q)
      BY <2>6
    <3> HIDE DEF q
    <3> QED BY <2>1, <2>2, <2>6, <3>1, <3>2, StageKeeps
  <2> HIDE DEF arbitrates, winner
  <2> QED BY <2>3, <2>4, <2>5, <2>6
<1>9. ASSUME NEW p \in Process, adjudicate(p) PROVE IInv'
  <2>1. /\ proc[p] \in Arbitrated /\ proc[p].run \in 1 .. MaxRuns /\ proc[p].bead \in Bead
        /\ proc[p].strategy \in Strategy /\ proc[p].responses \in Votable
        /\ proc[p].responses \in Responses
    BY <1>9 DEF adjudicate, Typed, Idle, Open, Applied, Arbitrated, Votable
  <2>2. PICK winner \in Answer \cup {Other, pluralityVote(proc[p].responses)} :
          finish(p, ResultOf(p, proc[p].responses, "adjudicated", winner))
    BY <1>9 DEF adjudicate, deterministicPlurality
  <2> DEFINE result == ResultOf(p, proc[p].responses, "adjudicated", winner)
  <2>3. result \in Result /\ result.run = proc[p].run /\ result.status # "consensus"
    BY <2>1 DEF ResultOf, Result, Winner
  <2>4. finish(p, result) /\ UNCHANGED <<runs, meta>>
    BY <1>9, <2>2 DEF adjudicate
  <2> HIDE DEF result
  <2> QED BY <2>1, <2>3, <2>4, FinishKeeps
<1>10. ASSUME NEW p \in Process, proc[p].pc = "applying"
       PROVE  /\ proc[p].result \in Result
              /\ comb = [comb EXCEPT ![proc[p].result.run] = proc[p].result]
  <2>1. proc[p].result \in Result /\ proc[p].result.run \in 1 .. MaxRuns
    BY <1>10 DEF Typed, Idle, Open, Arbitrated, Applied, Result
  <2> QED BY <1>10, <2>1 DEF Pending, Typed
<1>11. ASSUME NEW p \in Process, setMetadata(p) PROVE IInv'
  BY <1>10, <1>11, ApplyKeeps DEF setMetadata, Prints, TakesEffect
<1>12. ASSUME NEW p \in Process, applyFails(p) PROVE IInv'
  <2> DEFINE failed == [proc[p].result EXCEPT !.status = "error"]
  <2>1. proc[p].pc = "applying" /\ TakesEffect(proc[p].result) /\ UNCHANGED runs
    BY <1>12 DEF applyFails
  <2>2. CASE comb' = [comb EXCEPT ![failed.run] = failed] /\ Prints(p, failed)
    BY <2>1, <2>2, ApplyKeeps DEF Prints
  <2>3. CASE Throws(p) /\ UNCHANGED <<comb, output>>
    BY <1>10, <2>1, <2>3, ApplyKeeps DEF Throws
  <2> QED BY <1>12, <2>2, <2>3 DEF applyFails, writeComb
<1>13. ASSUME NEW p \in Process, Crash(p) PROVE IInv'
  <2>1. CASE proc[p].pc = "applying"
    BY <1>10, <1>13, <2>1, ApplyKeeps DEF Crash, Throws
  <2>2. CASE proc[p].pc # "applying"
    BY <1>13, <2>2, EndKeeps DEF Crash, Throws
  <2> QED BY <2>1, <2>2
<1> QED BY <1>1, <1>2, <1>3, <1>4, <1>5, <1>6, <1>7, <1>8, <1>9, <1>11, <1>12, <1>13, <1>14
  DEF Next

(* The invariant of the bridge. *)
THEOREM BridgeInv ==
  Spec => []IInv
<1> QED BY BridgeInit, BridgeStep, PTL DEF Spec

(* Metadata can always be traced to the comb, in spite of failing writes,  *)
(* interrupts and crashes (bridge.ts:82-118).                              *)
THEOREM MetadataAlwaysHasComb ==
  Spec => []MetadataHasComb
<1>1. IInv => MetadataHasComb
  BY DEF IInv
<1> QED BY <1>1, BridgeInv, PTL

(* What a process printed is always what the comb says (bridge.ts:82-118). *)
THEOREM OutputAlwaysLogged ==
  Spec => []OutputIsLogged
<1>1. IInv => OutputIsLogged
  BY DEF IInv
<1> QED BY <1>1, BridgeInv, PTL

(* No consensus of the comb depends on who was too late (resolve.ts:64-78).*)
THEOREM ConsensusIsFinal ==
  Spec => []LateAnswersChangeNothing
<1>1. IInv => LateAnswersChangeNothing
  <2> SUFFICES ASSUME IInv, NEW n \in 1 .. MaxRuns, comb[n] # None,
                      comb[n].status = "consensus", comb[n].strategy = "majority",
                      NEW rs \in Responses, Completes(rs, comb[n].responses)
               PROVE  resolveConsensus(rs, "majority") = comb[n].winner
    BY DEF LateAnswersChangeNothing
  <2>1. comb[n].responses \in Responses
    BY DEF IInv, Typed, Result
  <2>2. comb[n].winner # NoAnswer /\ comb[n].winner = resolveConsensus(comb[n].responses, "majority")
    BY DEF IInv, Sound
  <2> QED BY <2>1, <2>2, MajorityIsFinal
<1> QED BY <1>1, BridgeInv, PTL
=============================================================================
