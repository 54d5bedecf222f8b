------------------------------ MODULE Consensus ------------------------------
(***************************************************************************)
(* Consensus on the answers of a council of workers (src/swarm/resolve.ts) *)
(* and what is left without one (src/gascity/adjudication.ts).  Answers    *)
(* are compared by their canonical form; a worker that fails, times out or *)
(* returns no JSON object has NoAnswer.                                    *)
(***************************************************************************)
EXTENDS Integers, FiniteSets

CONSTANTS Workers,               \* how many are asked
          Answer, NoAnswer,
          QuorumNum, QuorumDen   \* quorumRatio, 0.6 by default

ASSUME ConsensusAssumption ==
  /\ Workers \in Nat \ {0} /\ NoAnswer \notin Answer
  /\ QuorumNum \in Nat /\ QuorumDen \in Nat \ {0}

Strategy == {"majority", "unanimous", "first_quorum"}
Responses == [1 .. Workers -> Answer \cup {NoAnswer}]

Votes(rs, a) == {w \in 1 .. Workers : rs[w] = a}
Count(rs, a) == Cardinality(Votes(rs, a))
Valid(rs) == {a \in Answer : Votes(rs, a) # {}}
Before(rs, a, b) == \E w \in Votes(rs, a) : \A v \in Votes(rs, b) : w < v

(* Of the most frequent answers, the one that a worker of lowest index     *)
(* gave: a Map keeps the order of insertion.                               *)
pluralityVote(rs) ==
  CHOOSE a \in Valid(rs) : \A b \in Valid(rs) \ {a} :
    Count(rs, b) < Count(rs, a) \/ (Count(rs, b) = Count(rs, a) /\ Before(rs, a, b))

(* When the arbiter has nothing to say: counted anew, with the same result. *)
deterministicPlurality(rs) == pluralityVote(rs)

(* Mutant of Agreed: agreement among the valid answers only. *)
AgreedAmongValid(rs, a, strategy) ==
  LET valid == Cardinality({w \in 1 .. Workers : rs[w] # NoAnswer})
  IN  \/ strategy = "majority" /\ 2 * Count(rs, a) > valid
      \/ strategy = "unanimous" /\ Count(rs, a) = Workers
      \/ strategy = "first_quorum" /\ QuorumDen * Count(rs, a) >= QuorumNum * valid

Agreed(rs, a, strategy) ==
  \/ strategy = "majority" /\ 2 * Count(rs, a) > Workers
  \/ strategy = "unanimous" /\ Count(rs, a) = Workers
  \/ strategy = "first_quorum" /\ QuorumDen * Count(rs, a) >= QuorumNum * Workers

(* NoAnswer where the code throws. *)
resolveConsensus(rs, strategy) ==
  IF Valid(rs) # {} /\ Agreed(rs, pluralityVote(rs), strategy) THEN pluralityVote(rs) ELSE NoAnswer

(* rs2 is rs with some of the missing answers. *)
Completes(rs2, rs) == \A w \in 1 .. Workers : rs[w] # NoAnswer => rs2[w] = rs[w]
=============================================================================
