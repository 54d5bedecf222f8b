---------------------------- MODULE Mayor_proofs ----------------------------
(***************************************************************************)
(* What the provider announces of an outage, and how many steps a call can *)
(* take, for any number of calls, any threshold and any number of retries; *)
(* what the Mayor's dispatch promises while the provider is there and      *)
(* while it is not, for any plan, any number of callers and restarts; that the plans it writes have no cycle, *)
(* for any answers of the models; and that the coordinator sorts and       *)
(* dispatches any list of beads as their needs demand.                     *)
(***************************************************************************)
EXTENDS MayorDispatch, MayorPlan, GroqProvider, FiniteSetTheorems, WellFoundedInduction, TLAPS

-----------------------------------------------------------------------------
(* The provider. *)

BreakerInv ==
  /\ state \in {"CLOSED", "OPEN", "HALF_OPEN"}
  /\ consecutiveFailures \in 0..FailureThreshold
  /\ OpenIffFailing

(* Each of the three things a step can do to the breaker keeps the         *)
(* invariant: CircuitBreaker.onSuccess, onFailure and the admission of a   *)
(* request.                                                                *)
LEMMA SuccessCloses ==
  ASSUME BreakerInv, onSuccess PROVE BreakerInv'
BY ProviderAssumption DEF BreakerInv, OpenIffFailing, onSuccess

LEMMA FailureCounts ==
  ASSUME BreakerInv, onFailure PROVE BreakerInv'
BY ProviderAssumption DEF BreakerInv, OpenIffFailing, onFailure, OneMore

LEMMA AttemptAdmits ==
  ASSUME NEW c, NEW r, BreakerInv, Attempt(c, r) PROVE BreakerInv'
BY DEF BreakerInv, OpenIffFailing, Attempt, Admits

LEMMA BreakerStep ==
  ASSUME BreakerInv, [ProviderNext]_providerVars PROVE BreakerInv'
<1>1. CASE UNCHANGED breaker
  BY <1>1 DEF breaker, BreakerInv, OpenIffFailing
<1>2. CASE Cool
  BY <1>2 DEF Cool, BreakerInv, OpenIffFailing
<1>3. ASSUME NEW c \in Call, executeInference(c) \/ Pruned(c) PROVE BreakerInv'
  BY <1>1, <1>3, AttemptAdmits DEF executeInference, Pruned, Enter
<1>4. ASSUME NEW c \in Call, Answer(c) PROVE BreakerInv'
  <2>1. onSuccess \/ onFailure
    BY <1>4 DEF Answer, AnswerOk, AnswerMalformed, AnswerError, AnswerNotFound, AnswerContext
  <2> QED BY <2>1, SuccessCloses, FailureCounts
<1>5. ASSUME NEW c \in Call, Wake(c) PROVE BreakerInv'
  BY <1>1, <1>5, AttemptAdmits DEF Wake
<1>6. ASSUME NEW c \in Call, PruneFails(c) \/ OllamaAnswers(c) \/ OllamaFails(c)
      PROVE BreakerInv'
  BY <1>1, <1>6 DEF PruneFails, OllamaAnswers, OllamaFails
<1>7. CASE OutageAges \/ UNCHANGED providerVars
  BY <1>1, <1>7 DEF OutageAges, providerVars
<1> QED BY <1>2, <1>3, <1>4, <1>5, <1>6, <1>7 DEF ProviderNext, Step

(* The circuit is closed exactly while fewer failures in a row than the    *)
(* threshold have been seen, however the answers of concurrent calls are   *)
(* interleaved: a probe that fails after another one succeeded cannot      *)
(* leave it open with a short count, nor closed with a long one.           *)
THEOREM BreakerIsExact == ProviderSpec => []OpenIffFailing
<1>1. ProviderInit => BreakerInv
  BY ProviderAssumption DEF ProviderInit, BreakerInv, OpenIffFailing
<1>2. BreakerInv => OpenIffFailing
  BY DEF BreakerInv
<1> QED BY <1>1, <1>2, BreakerStep, PTL DEF ProviderSpec

-----------------------------------------------------------------------------

LEMMA OutageStep ==
  ASSUME OutageIsAnnounced, [ProviderNext]_providerVars PROVE OutageIsAnnounced'
<1>1. CASE UNCHANGED <<outage, health>>
  BY <1>1 DEF OutageIsAnnounced
<1>2. ASSUME NEW c \in Call, Exhausted(c) PROVE OutageIsAnnounced'
  BY <1>2 DEF Exhausted, OutageIsAnnounced
<1>3. ASSUME NEW c \in Call, Succeeds(c) PROVE OutageIsAnnounced'
  BY <1>3 DEF Succeeds, OutageIsAnnounced
<1>4. ASSUME NEW c \in Call, Answer(c) PROVE OutageIsAnnounced'
  BY <1>1, <1>2, <1>3, <1>4
     DEF Answer, AnswerOk, AnswerMalformed, AnswerError, AnswerNotFound, AnswerContext
<1>5. ASSUME NEW c \in Call, Wake(c) PROVE OutageIsAnnounced'
  BY <1>1, <1>2, <1>5 DEF Wake
<1>6. ASSUME NEW c \in Call, OllamaAnswers(c) PROVE OutageIsAnnounced'
  BY <1>6 DEF OllamaAnswers, OutageIsAnnounced
<1>7. ASSUME NEW c \in Call,
             executeInference(c) \/ Pruned(c) \/ PruneFails(c) \/ OllamaFails(c)
      PROVE OutageIsAnnounced'
  BY <1>1, <1>7 DEF executeInference, Pruned, PruneFails, OllamaFails
<1>8. CASE OutageAges
  BY <1>8 DEF OutageAges, OutageIsAnnounced
<1>9. CASE Cool \/ UNCHANGED providerVars
  BY <1>1, <1>9 DEF Cool, providerVars
<1> QED BY <1>4, <1>5, <1>6, <1>7, <1>8, <1>9 DEF ProviderNext, Step

(* Whenever the outage timer runs, which sends eligible roles to Ollama    *)
(* once it is a minute old, PROVIDER_EXHAUSTED is the last that was heard  *)
(* of the provider.                                                        *)
THEOREM OutageIsKnown == ProviderSpec => []OutageIsAnnounced
<1>1. ProviderInit => OutageIsAnnounced
  BY DEF ProviderInit, OutageIsAnnounced
<1> QED BY <1>1, OutageStep, PTL DEF ProviderSpec

-----------------------------------------------------------------------------
(* How long a call can last.  A call has at most three rounds: the primary *)
(* model, once more with a pruned context, and the fallback model.  A      *)
(* round has MaxRetries attempts, and an attempt is a request and its      *)
(* backoff, whatever the breaker, the outage and the other calls do.       *)

(* Only a call to the primary model is pruned, and only once. *)
Retrying ==
  {r \in [pc : {"idle", "requesting", "backoff", "pruning", "ollama", "done", "failed"},
          model : {"primary", "fallback"}, attempt : 0 .. MaxRetries - 1,
          pruned : BOOLEAN,
          lastError : {"none", "malformed", "rate_limit", "error", "CIRCUIT_OPEN"}] :
     r.pc = "pruning" => r.model = "primary" /\ ~r.pruned}

RoundsLeft(r) == IF r.model = "fallback" THEN 0 ELSE IF r.pruned THEN 1 ELSE 2
OfAttempt(r) == IF r.pc = "requesting" THEN 2 ELSE IF r.pc = "backoff" THEN 1 ELSE 0

StepsLeft(r) ==
  IF r.pc \in {"done", "failed"} THEN 0
  ELSE RoundsLeft(r) * (3 * MaxRetries + 3) + 3 * (MaxRetries - r.attempt) + OfAttempt(r)

Longest == 9 * MaxRetries + 8

LEMMA StepsBound ==
  ASSUME NEW r \in Retrying PROVE StepsLeft(r) \in 0 .. Longest
<1>1. MaxRetries \in Nat /\ MaxRetries >= 1 /\ r.attempt \in 0 .. MaxRetries - 1
  BY ProviderAssumption DEF Retrying
<1>2. RoundsLeft(r) \in {0, 1, 2} /\ OfAttempt(r) \in {0, 1, 2}
  BY DEF RoundsLeft, OfAttempt
<1>3. CASE RoundsLeft(r) = 0
  BY <1>1, <1>2, <1>3 DEF StepsLeft, Longest
<1>4. CASE RoundsLeft(r) = 1
  BY <1>1, <1>2, <1>4 DEF StepsLeft, Longest
<1>5. CASE RoundsLeft(r) = 2
  BY <1>1, <1>2, <1>5 DEF StepsLeft, Longest
<1> QED BY <1>2, <1>3, <1>4, <1>5

(* The next attempt of a round, a new round and an end leave fewer steps.  *)
Fewer(q, r) == q \in Retrying /\ StepsLeft(q) < StepsLeft(r)

LEMMA AttemptLess ==
  ASSUME NEW r \in Retrying, NEW q \in Retrying, r.pc \notin {"done", "failed"},
         q.model = r.model, q.pruned = r.pruned,
         \/ q.attempt = r.attempt + 1 /\ r.pc \in {"requesting", "backoff"}
         \/ q.attempt = r.attempt /\ r.pc = "requesting" /\ q.pc \in {"backoff", "pruning"}
  PROVE  Fewer(q, r)
<1>1. /\ MaxRetries \in Nat /\ r.attempt \in 0 .. MaxRetries - 1 /\ q.attempt \in 0 .. MaxRetries - 1
      /\ OfAttempt(r) \in {0, 1, 2} /\ OfAttempt(q) \in {0, 1, 2}
  BY ProviderAssumption DEF Retrying, OfAttempt
<1>2. RoundsLeft(q) = RoundsLeft(r) /\ RoundsLeft(r) \in {0, 1, 2}
  BY DEF RoundsLeft
<1> DEFINE rounds == RoundsLeft(r) * (3 * MaxRetries + 3)
<1>3. rounds \in Nat
  BY <1>1, <1>2
<1> HIDE DEF rounds
<1>4. /\ StepsLeft(r) = rounds + 3 * (MaxRetries - r.attempt) + OfAttempt(r)
      /\ \/ StepsLeft(q) = rounds + 3 * (MaxRetries - q.attempt) + OfAttempt(q)
         \/ StepsLeft(q) = 0
  BY <1>2 DEF StepsLeft, rounds
<1>5. CASE q.attempt = r.attempt + 1 /\ r.pc \in {"requesting", "backoff"}
  <2>1. OfAttempt(r) >= 1
    BY <1>5 DEF OfAttempt
  <2> QED BY <1>1, <1>3, <1>4, <1>5, <2>1 DEF Fewer
<1>6. CASE q.attempt = r.attempt /\ r.pc = "requesting" /\ q.pc \in {"backoff", "pruning"}
  <2>1. OfAttempt(r) = 2 /\ OfAttempt(q) \in {0, 1}
    BY <1>6 DEF OfAttempt
  <2> QED BY <1>1, <1>3, <1>4, <1>6, <2>1 DEF Fewer
<1> QED BY <1>5, <1>6

LEMMA RoundLess ==
  ASSUME NEW r \in Retrying, NEW q \in Retrying, r.pc \notin {"done", "failed"},
         RoundsLeft(q) < RoundsLeft(r)
  PROVE  Fewer(q, r)
<1>1. /\ MaxRetries \in Nat /\ r.attempt \in 0 .. MaxRetries - 1 /\ q.attempt \in 0 .. MaxRetries - 1
      /\ OfAttempt(r) \in {0, 1, 2} /\ OfAttempt(q) \in {0, 1, 2}
  BY ProviderAssumption DEF Retrying, OfAttempt
<1>2. /\ StepsLeft(r) = RoundsLeft(r) * (3 * MaxRetries + 3) + 3 * (MaxRetries - r.attempt) + OfAttempt(r)
      /\ \/ StepsLeft(q) = RoundsLeft(q) * (3 * MaxRetries + 3) + 3 * (MaxRetries - q.attempt) + OfAttempt(q)
         \/ StepsLeft(q) = 0
  BY DEF StepsLeft
<1>3. \/ RoundsLeft(q) = 0 /\ RoundsLeft(r) = 1
      \/ RoundsLeft(q) = 0 /\ RoundsLeft(r) = 2
      \/ RoundsLeft(q) = 1 /\ RoundsLeft(r) = 2
  BY DEF RoundsLeft
<1>4. CASE RoundsLeft(q) = 0 /\ RoundsLeft(r) = 1
  BY <1>1, <1>2, <1>4 DEF Fewer
<1>5. CASE RoundsLeft(q) = 0 /\ RoundsLeft(r) = 2
  BY <1>1, <1>2, <1>5 DEF Fewer
<1>6. CASE RoundsLeft(q) = 1 /\ RoundsLeft(r) = 2
  BY <1>1, <1>2, <1>6 DEF Fewer
<1> QED BY <1>3, <1>4, <1>5, <1>6

LEMMA EndLess ==
  ASSUME NEW r \in Retrying, NEW q \in Retrying, r.pc \notin {"done", "failed"},
         q.pc \in {"done", "failed"}
  PROVE  Fewer(q, r)
<1>1. /\ MaxRetries \in Nat /\ r.attempt \in 0 .. MaxRetries - 1 /\ OfAttempt(r) \in {0, 1, 2}
  BY ProviderAssumption DEF Retrying, OfAttempt
<1>2. RoundsLeft(r) \in {0, 1, 2} /\ StepsLeft(q) = 0
  BY DEF RoundsLeft, StepsLeft
<1>3. RoundsLeft(r) * (3 * MaxRetries + 3) \in Nat
  BY <1>1, <1>2
<1>4. StepsLeft(r) = RoundsLeft(r) * (3 * MaxRetries + 3) + 3 * (MaxRetries - r.attempt) + OfAttempt(r)
  BY DEF StepsLeft
<1> HIDE DEF RoundsLeft
<1> QED BY <1>1, <1>2, <1>3, <1>4 DEF Fewer

(* Sending an attempt, or having it refused, changes no more than this.    *)
LEMMA SentOrRefused ==
  ASSUME NEW r \in Retrying
  PROVE  \A q \in {Sent(r), Refused(r)} :
           /\ q \in Retrying /\ q.pc \in {"requesting", "backoff"}
           /\ q.model = r.model /\ q.pruned = r.pruned /\ q.attempt = r.attempt
BY DEF Retrying, Sent, Refused

(* What a step of a call makes of it. *)
LEMMA CallMoves ==
  ASSUME call \in [Call -> Retrying], NEW c \in Call, Step(c)
  PROVE  \E q : Fewer(q, call[c]) /\ call' = [call EXCEPT ![c] = q]
<1> DEFINE r == call[c]
           Goal == \E q : Fewer(q, call[c]) /\ call' = [call EXCEPT ![c] = q]
<1>1. r \in Retrying /\ MaxRetries \in Nat /\ 0 \in 0 .. MaxRetries - 1
  BY ProviderAssumption
<1>2. ASSUME r.pc \notin {"done", "failed"},
             \/ Becomes(c, [r EXCEPT !.pc = "done"]) \/ Becomes(c, [r EXCEPT !.pc = "failed"])
      PROVE  Goal
  <2>1. PICK to \in {"done", "failed"} : Becomes(c, [r EXCEPT !.pc = to])
    BY <1>2
  <2> DEFINE q == [r EXCEPT !.pc = to]
  <2>2. q \in Retrying /\ q.pc \in {"done", "failed"}
    BY <1>1 DEF Retrying
  <2>3. call' = [call EXCEPT ![c] = q]
    BY <2>1 DEF Becomes
  <2> HIDE DEF q
  <2>4. Fewer(q, call[c])
    BY <1>1, <1>2, <2>2, EndLess
  <2> QED BY <2>3, <2>4
<1>3. CASE AnswerOk(c) \/ PruneFails(c) \/ OllamaAnswers(c) \/ OllamaFails(c)
  BY <1>2, <1>3 DEF AnswerOk, Succeeds, PruneFails, OllamaAnswers, OllamaFails
<1>4. ASSUME r.pc \in {"requesting", "backoff"}, NEW e \in {r.lastError, "malformed"},
             r.attempt + 1 < MaxRetries, NEW s,
             s = [r EXCEPT !.attempt = @ + 1, !.lastError = e],
             Becomes(c, Sent(s)) \/ Becomes(c, Refused(s))
      PROVE  Goal
  <2>1. s \in Retrying /\ s.model = r.model /\ s.pruned = r.pruned /\ s.attempt = r.attempt + 1
    <3>1. e \in {"none", "malformed", "rate_limit", "error", "CIRCUIT_OPEN"}
      BY <1>1, <1>4 DEF Retrying
    <3>2. r.attempt + 1 \in 0 .. MaxRetries - 1 /\ r.pc \in {"requesting", "backoff"}
      BY <1>1, <1>4 DEF Retrying
    <3>3. s = [r EXCEPT !.attempt = r.attempt + 1, !.lastError = e]
      BY <1>4
    <3> HIDE DEF r
    <3> QED BY <1>1, <3>1, <3>2, <3>3 DEF Retrying
  <2>2. PICK q \in {Sent(s), Refused(s)} : call' = [call EXCEPT ![c] = q]
    BY <1>4 DEF Becomes
  <2>3. /\ q \in Retrying /\ q.model = r.model /\ q.pruned = r.pruned
        /\ q.attempt = r.attempt + 1
    BY <2>1, SentOrRefused
  <2>4. Fewer(q, call[c])
    BY <1>1, <1>4, <2>3, AttemptLess
  <2> QED BY <2>2, <2>4
<1>5. CASE AnswerMalformed(c)
  <2>1. CASE r.attempt + 1 < MaxRetries
    BY <1>4, <1>5, <2>1 DEF AnswerMalformed
  <2>2. CASE ~(r.attempt + 1 < MaxRetries)
    BY <1>2, <1>5, <2>2 DEF AnswerMalformed, Exhausted
  <2> QED BY <2>1, <2>2
<1>6. CASE Wake(c)
  <2>1. CASE r.attempt + 1 < MaxRetries
    <3> DEFINE s == [r EXCEPT !.attempt = @ + 1]
    <3>1. s = [r EXCEPT !.attempt = @ + 1, !.lastError = r.lastError]
      BY <1>1 DEF Retrying
    <3>2. Becomes(c, Sent(s)) \/ Becomes(c, Refused(s))
      BY <1>6, <2>1 DEF Wake, Attempt
    <3> HIDE DEF s
    <3> QED BY <1>4, <1>6, <2>1, <3>1, <3>2 DEF Wake
  <2>2. CASE ~(r.attempt + 1 < MaxRetries)
    BY <1>2, <1>6, <2>2 DEF Wake, Exhausted
  <2> QED BY <2>1, <2>2
<1>7. ASSUME NEW error \in {"rate_limit", "error"}, AnswerError(c, error) PROVE Goal
  <2> DEFINE q == [r EXCEPT !.pc = "backoff", !.lastError = error]
  <2>1. /\ q \in Retrying /\ q.pc = "backoff" /\ q.model = r.model /\ q.pruned = r.pruned
        /\ q.attempt = r.attempt
    BY <1>1 DEF Retrying
  <2>2. r.pc = "requesting" /\ call' = [call EXCEPT ![c] = q]
    BY <1>7 DEF AnswerError, Becomes
  <2> HIDE DEF q
  <2>3. Fewer(q, call[c])
    BY <1>1, <2>1, <2>2, AttemptLess
  <2> QED BY <2>2, <2>3
<1>8. CASE AnswerNotFound(c)
  <2>1. CASE r.model = "primary"
    <3> DEFINE s == [r EXCEPT !.model = "fallback", !.attempt = 0, !.lastError = "none"]
    <3>1. s \in Retrying /\ s.model = "fallback"
      BY <1>1, <1>8 DEF Retrying, AnswerNotFound
    <3>2. r.pc = "requesting" /\ \E q \in {Sent(s), Refused(s)} : call' = [call EXCEPT ![c] = q]
      BY <1>8, <2>1 DEF AnswerNotFound, Becomes
    <3> HIDE DEF s
    <3>3. PICK q \in {Sent(s), Refused(s)} : call' = [call EXCEPT ![c] = q]
      BY <3>2
    <3>4. q \in Retrying /\ q.model = "fallback"
      BY <3>1, SentOrRefused
    <3>5. RoundsLeft(q) < RoundsLeft(r)
      BY <2>1, <3>4 DEF RoundsLeft
    <3>6. Fewer(q, call[c])
      BY <1>1, <3>2, <3>4, <3>5, RoundLess
    <3> QED BY <3>3, <3>6
  <2>2. CASE r.model # "primary"
    BY <1>2, <1>8, <2>2 DEF AnswerNotFound, Exhausted
  <2> QED BY <2>1, <2>2
<1>9. CASE AnswerContext(c)
  <2>1. CASE r.model = "primary" /\ ~r.pruned
    <3> DEFINE q == [r EXCEPT !.pc = "pruning"]
    <3>1. /\ q \in Retrying /\ q.pc = "pruning" /\ q.model = r.model /\ q.pruned = r.pruned
          /\ q.attempt = r.attempt
      BY <1>1, <2>1 DEF Retrying
    <3>2. r.pc = "requesting" /\ call' = [call EXCEPT ![c] = q]
      BY <1>9, <2>1 DEF AnswerContext, Becomes
    <3> HIDE DEF q
    <3>3. Fewer(q, call[c])
      BY <1>1, <3>1, <3>2, AttemptLess
    <3> QED BY <3>2, <3>3
  <2>2. CASE ~(r.model = "primary" /\ ~r.pruned)
    BY <1>2, <1>9, <2>2 DEF AnswerContext, Exhausted
  <2> QED BY <2>1, <2>2
<1>10. CASE Pruned(c)
  <2> DEFINE s == [r EXCEPT !.pruned = TRUE, !.attempt = 0, !.lastError = "none"]
             t == [s EXCEPT !.pc = "ollama"]
  <2>1. r.pc = "pruning" /\ r.model = "primary" /\ ~r.pruned
    BY <1>1, <1>10 DEF Pruned, Retrying
  <2>2. Sent(s) \in Retrying /\ Refused(s) \in Retrying /\ t \in Retrying
    BY <1>1, <2>1 DEF Retrying, Sent, Refused
  <2>3. \A q \in {t, Sent(s), Refused(s)} : q.model = "primary" /\ q.pruned = TRUE
    BY <1>1, <2>1 DEF Retrying, Sent, Refused
  <2>4. \E q \in {t, Sent(s), Refused(s)} : call' = [call EXCEPT ![c] = q]
    BY <1>10 DEF Pruned, Enter, Attempt, Becomes
  <2> HIDE DEF s, t
  <2>5. PICK q \in {t, Sent(s), Refused(s)} : call' = [call EXCEPT ![c] = q]
    BY <2>4
  <2>6. q \in Retrying /\ q.model = "primary" /\ q.pruned = TRUE
    BY <2>2, <2>3
  <2>7. RoundsLeft(q) < RoundsLeft(r)
    BY <2>1, <2>6 DEF RoundsLeft
  <2>8. Fewer(q, call[c])
    BY <1>1, <2>1, <2>6, <2>7, RoundLess
  <2> QED BY <2>5, <2>8
<1> QED BY <1>3, <1>5, <1>6, <1>7, <1>8, <1>9, <1>10 DEF Step, Answer

(* A first request, and what goes on around the calls. *)
LEMMA RetryingSteps ==
  ASSUME call \in [Call -> Retrying], [ProviderNext]_providerVars
  PROVE  /\ call' \in [Call -> Retrying]
         /\ \A c \in Call : call[c].pc # "idle" =>
              IF Step(c) THEN StepsLeft(call'[c]) < StepsLeft(call[c]) ELSE call'[c] = call[c]
<1>0. MaxRetries \in Nat /\ 0 \in 0 .. MaxRetries - 1
  BY ProviderAssumption
<1>1. ASSUME NEW c \in Call, Step(c)
      PROVE  /\ call' \in [Call -> Retrying]
             /\ StepsLeft(call'[c]) < StepsLeft(call[c])
             /\ \A d \in Call \ {c} : call'[d] = call[d]
  <2>1. PICK q : Fewer(q, call[c]) /\ call' = [call EXCEPT ![c] = q]
    BY <1>1, CallMoves
  <2>2. q \in Retrying /\ StepsLeft(q) < StepsLeft(call[c])
    BY <2>1 DEF Fewer
  <2>3. call'[c] = q /\ \A d \in Call \ {c} : call'[d] = call[d]
    BY <2>1
  <2>4. call' \in [Call -> Retrying]
    BY <2>1, <2>2
  <2> QED BY <2>2, <2>3, <2>4
<1>2. ASSUME NEW c \in Call, executeInference(c)
      PROVE  /\ call' \in [Call -> Retrying] /\ call[c].pc = "idle"
             /\ \A d \in Call \ {c} : call'[d] = call[d]
  <2> DEFINE t == [fresh EXCEPT !.pc = "ollama"]
  <2>1. Sent(fresh) \in Retrying /\ Refused(fresh) \in Retrying /\ t \in Retrying
    BY <1>0 DEF Retrying, Sent, Refused, fresh
  <2>2. call[c].pc = "idle" /\ \E q \in {t, Sent(fresh), Refused(fresh)} :
                                 call' = [call EXCEPT ![c] = q]
    BY <1>2 DEF executeInference, Enter, Attempt, Becomes
  <2> HIDE DEF t
  <2>3. PICK q \in {t, Sent(fresh), Refused(fresh)} : call' = [call EXCEPT ![c] = q]
    BY <2>2
  <2> QED BY <2>1, <2>2, <2>3
<1>3. CASE UNCHANGED call
  BY <1>1, <1>3
<1>4. CASE \E c \in Call : Step(c)
  <2>1. PICK d \in Call : Step(d)
    BY <1>4
  <2> QED BY <1>1, <2>1
<1>5. CASE \E c \in Call : executeInference(c)
  <2>1. PICK d \in Call : executeInference(d)
    BY <1>5
  <2> QED BY <1>1, <1>2, <2>1
<1> QED BY <1>3, <1>4, <1>5 DEF ProviderNext, providerVars, Cool, OutageAges

(* A call runs out of steps: every answer, timer and fallback leaves it     *)
(* fewer than before, nothing gives one back, and at no time are more than  *)
(* 9 * MaxRetries + 8 left.  So neither the breaker, which refuses attempts *)
(* for all calls, nor swaps of the model nor prunes can retry for ever; it  *)
(* is what CallsSettle rests on, next to the fairness.                      *)
THEOREM CallsRunOut ==
  ProviderSpec =>
    /\ [](\A c \in Call : StepsLeft(call[c]) \in 0 .. Longest)
    /\ [][\A c \in Call : call[c].pc # "idle" =>
            IF Step(c) THEN StepsLeft(call'[c]) < StepsLeft(call[c])
            ELSE call'[c] = call[c]]_providerVars
<1> DEFINE Inv == call \in [Call -> Retrying]
           Bounded == \A c \in Call : StepsLeft(call[c]) \in 0 .. Longest
           Less == \A c \in Call : call[c].pc # "idle" =>
                     IF Step(c) THEN StepsLeft(call'[c]) < StepsLeft(call[c])
                     ELSE call'[c] = call[c]
<1>1. ProviderInit => Inv
  BY ProviderAssumption DEF ProviderInit, fresh, Retrying
<1>2. Inv /\ [ProviderNext]_providerVars => Inv'
  BY RetryingSteps
<1>3. Inv /\ [ProviderNext]_providerVars => [Less]_providerVars
  BY RetryingSteps
<1>4. Inv => Bounded
  BY StepsBound
<1> QED BY <1>1, <1>2, <1>3, <1>4, PTL DEF ProviderSpec

-----------------------------------------------------------------------------
(* The Mayor: types.  The calls in progress are finitely many, and nothing *)
(* is left of a batch when no drain runs.                                  *)

Busy == {p \in Proc : pc[p] # "idle"}

Typed ==
  /\ TypeOK
  /\ next = 0 => batch = <<>>
  /\ IsFiniteSet(Busy)

LEMMA ProcOfMayor == Drain \in Proc /\ Caller \subseteq Proc /\ \A c \in Caller : c # Drain
BY PlanAssumption DEF Proc

(* A record more at the end of one history. *)
LEMMA WrittenAppends ==
  ASSUME TypeOK, NEW b \in Bead, NEW s \in Status, NEW o \in Outcome,
         ledger' = Written(ledger, b, s, o)
  PROVE  /\ ledger' \in [Bead -> Seq(Record)]
         /\ ledger'[b] = Append(ledger[b], [status |-> s, outcome |-> o])
         /\ \A c \in Bead \ {b} : ledger'[c] = ledger[c]
<1>1. ledger \in [Bead -> Seq(Record)]
  BY DEF TypeOK
<1> DEFINE new == [status |-> s, outcome |-> o]
<1>2. new \in Record
  BY DEF Record
<1>3. ledger' = [ledger EXCEPT ![b] = Append(ledger[b], new)]
  BY DEF Written
<1> HIDE DEF new
<1>4. Append(ledger[b], new) \in Seq(Record)
  BY <1>1, <1>2
<1>5. ledger' \in [Bead -> Seq(Record)] /\ ledger'[b] = Append(ledger[b], new)
      /\ \A c \in Bead \ {b} : ledger'[c] = ledger[c]
  BY <1>1, <1>3, <1>4
<1> QED BY <1>5 DEF new

(* What the guards of dispatchBead come to. *)
LEMMA GuardsEnd ==
  ASSUME NEW p, NEW b, NEW active, NEW queue, Guards(p, b, active, queue)
  PROVE  \/ /\ pc' = [pc EXCEPT ![p] = "blocking"]
            /\ outageQueue' = queue /\ accepted' = accepted
         \/ /\ pc' = pc
            /\ outageQueue' = Append(queue, b) /\ accepted' = accepted \cup {b}
         \/ /\ pc' = [pc EXCEPT ![p] = "signing"]
            /\ outageQueue' = queue /\ accepted' = accepted
            /\ isRendezvousNode(b) => unmetPrereqs(b) = {}
BY DEF Guards

(* The same as types. *)
LEMMA GuardsTyped ==
  ASSUME TypeOK, NEW p \in Proc, NEW b \in Bead, NEW active, NEW queue \in Seq(Bead),
         Guards(p, b, active, queue)
  PROVE  /\ pc' \in [Proc -> {"idle", "blocking", "signing"}]
         /\ outageQueue' \in Seq(Bead) /\ accepted' \subseteq Bead
         /\ \A q \in Proc \ {p} : pc'[q] = pc[q]
<1>1. pc \in [Proc -> {"idle", "blocking", "signing"}] /\ accepted \subseteq Bead
  BY DEF TypeOK
<1>2. Append(queue, b) \in Seq(Bead)
  OBVIOUS
<1> QED BY <1>1, <1>2, GuardsEnd

LEMMA ReturnsTyped ==
  ASSUME TypeOK, NEW p \in Proc, Returns(p)
  PROVE  /\ pc' \in [Proc -> {"idle", "blocking", "signing"}]
         /\ pc'[p] = "idle" /\ \A q \in Proc \ {p} : pc'[q] = pc[q]
         /\ accepted' = accepted \cup {bead[p]} /\ accepted' \subseteq Bead
         /\ counted' \in Nat /\ UNCHANGED <<batch, next, nextSeq>>
BY DEF TypeOK, Returns

LEMMA ThrowsTyped ==
  ASSUME TypeOK, NEW p \in Proc, Throws(p)
  PROVE  /\ pc' \in [Proc -> {"idle", "blocking", "signing"}]
         /\ pc'[p] = "idle" /\ \A q \in Proc \ {p} : pc'[q] = pc[q]
         /\ outageQueue' \in Seq(Bead)
         /\ UNCHANGED <<batch, next, nextSeq, counted, accepted>>
<1>1. /\ pc \in [Proc -> {"idle", "blocking", "signing"}] /\ outageQueue \in Seq(Bead)
      /\ bead \in [Proc -> Bead]
  BY DEF TypeOK
<1>2. Append(outageQueue, bead[p]) \in Seq(Bead)
  BY <1>1
<1> QED BY <1>1, <1>2 DEF Throws

LEMMA DispatchTyped ==
  ASSUME Typed, NEW c \in Caller, NEW b \in Bead, dispatchBead(c, b) PROVE TypeOK'
<1>0. TypeOK
  BY DEF Typed
<1>1. c \in Proc /\ c # Drain /\ Drain \in Proc
  BY ProcOfMayor
<1>2. outageQueue \in Seq(Bead)
  BY <1>0 DEF TypeOK
<1>3. Guards(c, b, outageActive, outageQueue)
  BY DEF dispatchBead
<1>4. /\ pc' \in [Proc -> {"idle", "blocking", "signing"}]
      /\ outageQueue' \in Seq(Bead) /\ accepted' \subseteq Bead /\ pc'[Drain] = pc[Drain]
  BY <1>0, <1>1, <1>2, <1>3, GuardsTyped
<1>5. /\ bead' \in [Proc -> Bead] /\ bead'[Drain] = bead[Drain]
      /\ seq' \in [Proc -> Nat] /\ calls' \in [Bead -> Nat]
  <2>1. /\ bead \in [Proc -> Bead] /\ seq \in [Proc -> Nat] /\ calls \in [Bead -> Nat]
        /\ calls[b] + 1 \in Nat /\ lastSeq + 1 \in Nat
    BY <1>0 DEF TypeOK
  <2>2. /\ calls' = [calls EXCEPT ![b] = calls[b] + 1] /\ bead' = [bead EXCEPT ![c] = b]
        /\ seq' = [seq EXCEPT ![c] = lastSeq + 1]
    BY DEF dispatchBead
  <2> QED BY <1>1, <2>1, <2>2
<1> QED BY <1>0, <1>4, <1>5 DEF dispatchBead, busVars, TypeOK

LEMMA DrainOneTyped ==
  ASSUME TypeOK, NEW q \in Seq(Bead), NEW i \in DOMAIN q, NEW n \in Nat, NEW active,
         NEW queue \in Seq(Bead), NEW count \in Nat, outageActive' \in BOOLEAN,
         DrainOne(q, i, n, active, queue, count)
  PROVE  TypeOK' /\ next' # 0
<1>1. q[i] \in Bead /\ i \in 1 .. Len(q) /\ Len(q) \in Nat
  OBVIOUS
<1>2. Drain \in Proc
  BY ProcOfMayor
<1>3. /\ pc' \in [Proc -> {"idle", "blocking", "signing"}]
      /\ outageQueue' \in Seq(Bead) /\ accepted' \subseteq Bead
  <2>1. Guards(Drain, q[i], active, queue)
    BY DEF DrainOne
  <2> QED BY <1>1, <1>2, <2>1, GuardsTyped
<1>4. /\ bead' \in [Proc -> Bead] /\ bead'[Drain] = q[i] /\ seq' \in [Proc -> Nat]
      /\ batch' = q /\ next' = i + 1 /\ nextSeq' \in Nat /\ counted' \in Nat
  <2>1. bead \in [Proc -> Bead] /\ seq \in [Proc -> Nat]
    BY DEF TypeOK
  <2>2. counted' \in {count, count + 1}
    BY DEF DrainOne
  <2>3. /\ bead' = [bead EXCEPT ![Drain] = q[i]] /\ seq' = [seq EXCEPT ![Drain] = n]
        /\ batch' = q /\ next' = i + 1 /\ nextSeq' = n + 1
    BY DEF DrainOne
  <2> QED BY <1>1, <1>2, <2>1, <2>2, <2>3
<1>5. /\ next' \in 0 .. Len(batch') + 1 /\ next' > 1 /\ next' # 0
      /\ batch'[next' - 1] = q[i]
  BY <1>1, <1>4
<1> QED BY <1>3, <1>4, <1>5 DEF DrainOne, busVars, TypeOK

LEMMA EndsTyped ==
  ASSUME TypeOK, NEW p \in Proc,
         Blocked(p) \/ LockTimeout(p) \/ Send(p) \/ SendThrows(p)
  PROVE  TypeOK'
<1>1. CASE Blocked(p)
  <2>1. ledger' \in [Bead -> Seq(Record)]
    <3>1. bead[p] \in Bead /\ "blocked" \in Status /\ "none" \in Outcome
      BY DEF TypeOK, Status, Outcome
    <3> QED BY <1>1, <3>1, WrittenAppends DEF Blocked
  <2>2. Returns(p)
    BY <1>1 DEF Blocked
  <2> QED BY <1>1, <2>1, <2>2, ReturnsTyped, ProcOfMayor DEF Blocked, busVars, TypeOK
<1>2. CASE LockTimeout(p)
  <2>1. Throws(p)
    BY <1>2 DEF LockTimeout
  <2> QED BY <1>2, <2>1, ThrowsTyped, ProcOfMayor DEF LockTimeout, busVars, TypeOK
<1>3. CASE Send(p)
  <2>1. Returns(p)
    BY <1>3 DEF Send
  <2>2. sent' \in Seq([bead : Bead, by : Proc]) /\ inbox' \subseteq DOMAIN sent'
    <3> DEFINE convoy == [bead |-> bead[p], by |-> p]
    <3>1. sent \in Seq([bead : Bead, by : Proc]) /\ convoy \in [bead : Bead, by : Proc]
      BY DEF TypeOK
    <3>2. sent' = Append(sent, convoy) /\ inbox' = inbox \cup {Len(sent')}
      BY <1>3 DEF Send
    <3> HIDE DEF convoy
    <3>3. inbox \subseteq DOMAIN sent
      BY DEF TypeOK
    <3> QED BY <3>1, <3>2, <3>3
  <2>3. lastSeq' \in Nat
    BY <1>3 DEF Send, TypeOK
  <2> QED BY <1>3, <2>1, <2>2, <2>3, ReturnsTyped, ProcOfMayor DEF Send, TypeOK
<1>4. CASE SendThrows(p)
  <2>1. Throws(p)
    BY <1>4 DEF SendThrows
  <2>2. lastSeq' \in Nat /\ UNCHANGED <<sent, inbox>>
    BY <1>4 DEF SendThrows, TypeOK
  <2> QED BY <1>4, <2>1, <2>2, ThrowsTyped, ProcOfMayor DEF SendThrows, TypeOK
<1> QED BY <1>1, <1>2, <1>3, <1>4

LEMMA DrainTyped ==
  ASSUME Typed, drainOutageQueue \/ DrainNext PROVE TypeOK' /\ next' # 0
<1>0. TypeOK
  BY DEF Typed
<1>1. outageQueue \in Seq(Bead) /\ batch \in Seq(Bead) /\ lastSeq + 1 \in Nat /\ nextSeq \in Nat
      /\ <<>> \in Seq(Bead) /\ counted \in Nat /\ outageActive \in BOOLEAN
  BY <1>0 DEF TypeOK
<1>2. CASE drainOutageQueue
  <2>1. 1 \in DOMAIN outageQueue
    BY <1>1, <1>2 DEF drainOutageQueue
  <2> QED BY <1>0, <1>1, <1>2, <2>1, DrainOneTyped DEF drainOutageQueue
<1>3. CASE DrainNext
  BY <1>0, <1>1, <1>3, DrainOneTyped DEF DrainNext
<1> QED BY <1>2, <1>3

LEMMA WorldTyped ==
  ASSUME TypeOK, \/ \E active \in BOOLEAN : setOutageActive(active)
                 \/ DrainReturns \/ Restart
                 \/ \E i \in inbox : Work(i)
                 \/ \E b \in Bead : Report(b)
                 \/ UNCHANGED vars
  PROVE  TypeOK'
<1>1. CASE \E active \in BOOLEAN : setOutageActive(active)
  BY <1>1 DEF setOutageActive, callVars, busVars, TypeOK
<1>2. CASE DrainReturns
  <2>1. batch' \in Seq(Bead) /\ next' \in 0 .. Len(batch') + 1
    BY <1>2 DEF DrainReturns
  <2> QED BY <1>2, <2>1, ProcOfMayor DEF DrainReturns, callVars, busVars, TypeOK
<1>3. CASE Restart
  <2>1. /\ batch' \in Seq(Bead) /\ outageQueue' \in Seq(Bead) /\ next' \in 0 .. Len(batch') + 1
        /\ restarts' \in 0 .. MaxRestarts /\ pc'[Drain] = "idle"
    BY <1>3, PlanAssumption, ProcOfMayor DEF Restart, TypeOK
  <2> QED BY <1>3, <2>1 DEF Restart, busVars, TypeOK
<1>4. ASSUME NEW i \in inbox, Work(i) PROVE TypeOK'
  <2>1. sent[i].bead \in Bead
    <3> DEFINE Convoy == [bead : Bead, by : Proc]
    <3>1. sent \in Seq(Convoy) /\ i \in DOMAIN sent /\ \A x \in Convoy : x.bead \in Bead
      BY DEF TypeOK
    <3> HIDE DEF Convoy
    <3> QED BY <3>1
  <2>2. ledger' \in [Bead -> Seq(Record)]
    <3>1. "in_progress" \in Status /\ "none" \in Outcome
      BY DEF Status, Outcome
    <3> QED BY <1>4, <2>1, <3>1, WrittenAppends DEF Work
  <2>3. inbox' \subseteq DOMAIN sent'
    BY <1>4 DEF Work, TypeOK
  <2> QED BY <1>4, <2>2, <2>3 DEF Work, mayorVars, callVars, TypeOK
<1>5. ASSUME NEW b \in Bead, Report(b) PROVE TypeOK'
  <2>1. ledger' \in [Bead -> Seq(Record)]
    <3>1. {"done", "failed"} \subseteq Status /\ {"SUCCESS", "FAILURE"} \subseteq Outcome
      BY DEF Status, Outcome
    <3> QED BY <1>5, <3>1, WrittenAppends DEF Report
  <2> QED BY <1>5, <2>1 DEF Report, mayorVars, callVars, busVars, TypeOK
<1>6. CASE UNCHANGED vars
  BY <1>6 DEF vars, mayorVars, callVars, busVars, TypeOK
<1> QED BY <1>1, <1>2, <1>3, <1>4, <1>5, <1>6

(* A finite set and what little can be added to it. *)
LEMMA OneAdded ==
  ASSUME NEW T, IsFiniteSet(T), NEW x, NEW S, S \subseteq T \cup {x}
  PROVE  /\ IsFiniteSet(S) /\ Cardinality(S) \in Nat /\ Cardinality(T) \in Nat
         /\ Cardinality(S) <= Cardinality(T) + 1
<1>1. IsFiniteSet(T \cup {x}) /\ Cardinality(T) \in Nat
  BY FS_AddElement, FS_CardinalityType
<1>2. Cardinality(T \cup {x}) = IF x \in T THEN Cardinality(T) ELSE Cardinality(T) + 1
  BY FS_AddElement
<1>3. Cardinality(S) <= Cardinality(T \cup {x}) /\ IsFiniteSet(S) /\ Cardinality(S) \in Nat
  BY <1>1, FS_Subset, FS_CardinalityType
<1>4. Cardinality(T \cup {x}) <= Cardinality(T) + 1 /\ Cardinality(T \cup {x}) \in Nat
  BY <1>1, <1>2, FS_CardinalityType
<1> QED BY <1>1, <1>3, <1>4

LEMMA NoneAdded ==
  ASSUME NEW T, IsFiniteSet(T), NEW S, S \subseteq T
  PROVE  /\ IsFiniteSet(S) /\ Cardinality(S) \in Nat /\ Cardinality(T) \in Nat
         /\ Cardinality(S) <= Cardinality(T)
BY FS_Subset, FS_CardinalityType

LEMMA OneTaken ==
  ASSUME NEW T, IsFiniteSet(T), NEW x \in T, NEW S, S \subseteq T \ {x}
  PROVE  /\ IsFiniteSet(S) /\ Cardinality(S) \in Nat /\ Cardinality(T) \in Nat
         /\ Cardinality(S) + 1 <= Cardinality(T)
<1>1. IsFiniteSet(T \ {x}) /\ Cardinality(T \ {x}) = Cardinality(T) - 1
  BY FS_RemoveElement
<1>2. Cardinality(S) <= Cardinality(T \ {x}) /\ IsFiniteSet(S)
  BY <1>1, FS_Subset
<1> QED BY <1>1, <1>2, FS_CardinalityType

(* At most one call begins in a step. *)
LEMMA BusyStep ==
  ASSUME Typed, [Next]_vars PROVE \E x : Busy' \subseteq Busy \cup {x}
<1>0. TypeOK
  BY DEF Typed
<1>1. ASSUME NEW c \in Caller, NEW b \in Bead, dispatchBead(c, b)
      PROVE  Busy' \subseteq Busy \cup {c}
  <2>1. Guards(c, b, outageActive, outageQueue) /\ c \in Proc /\ outageQueue \in Seq(Bead)
    BY <1>0, <1>1, ProcOfMayor DEF dispatchBead, TypeOK
  <2>2. \A q \in Proc \ {c} : pc'[q] = pc[q]
    BY <1>0, <2>1, GuardsTyped
  <2> QED BY <2>2 DEF Busy
<1>2. CASE drainOutageQueue \/ DrainNext
  <2>1. \A q \in Proc \ {Drain} : pc'[q] = pc[q]
    <3>1. pc \in [Proc -> {"idle", "blocking", "signing"}]
      BY <1>0 DEF TypeOK
    <3>2. pc' = pc \/ pc' = [pc EXCEPT ![Drain] = "blocking"] \/ pc' = [pc EXCEPT ![Drain] = "signing"]
      BY <1>2, GuardsEnd DEF drainOutageQueue, DrainNext, DrainOne
    <3> QED BY <3>1, <3>2
  <2> QED BY <2>1 DEF Busy
<1>3. ASSUME NEW p \in Proc, Blocked(p) \/ LockTimeout(p) \/ Send(p) \/ SendThrows(p)
      PROVE  Busy' \subseteq Busy
  <2>1. Returns(p) \/ Throws(p)
    BY <1>3 DEF Blocked, LockTimeout, Send, SendThrows
  <2>2. pc'[p] = "idle" /\ \A q \in Proc \ {p} : pc'[q] = pc[q]
    BY <1>0, <2>1, ReturnsTyped, ThrowsTyped
  <2> QED BY <2>2 DEF Busy
<1>4. CASE Restart
  <2>1. Busy' = {}
    BY <1>4 DEF Restart, Busy
  <2> QED BY <2>1
<1>5. CASE UNCHANGED pc
  BY <1>5 DEF Busy
<1> QED
  BY <1>1, <1>2, <1>3, <1>4, <1>5
     DEF Next, setOutageActive, DrainReturns, Work, Report, callVars, vars

LEMMA TypedStep == ASSUME Typed, [Next]_vars PROVE Typed'
<1>0. TypeOK /\ (next = 0 => batch = <<>>)
  BY DEF Typed
<1>1. PICK x : Busy' \subseteq Busy \cup {x}
  BY BusyStep
<1>2. IsFiniteSet(Busy)'
  BY <1>1, OneAdded DEF Typed
<1>3. ASSUME NEW c \in Caller, NEW b \in Bead, dispatchBead(c, b)
      PROVE  TypeOK' /\ (next' = 0 => batch' = <<>>)
  BY <1>0, <1>3, DispatchTyped DEF dispatchBead
<1>4. ASSUME NEW p \in Proc, Blocked(p) \/ LockTimeout(p) \/ Send(p) \/ SendThrows(p)
      PROVE  TypeOK' /\ (next' = 0 => batch' = <<>>)
  <2>1. UNCHANGED <<next, batch>>
    BY <1>4 DEF Blocked, LockTimeout, Send, SendThrows, Returns, Throws
  <2> QED BY <1>0, <1>4, <2>1, EndsTyped
<1>5. CASE drainOutageQueue \/ DrainNext
  BY <1>0, <1>2, <1>5, DrainTyped DEF Typed
<1>6. ASSUME \/ \E active \in BOOLEAN : setOutageActive(active)
             \/ DrainReturns \/ Restart
             \/ \E i \in inbox : Work(i)
             \/ \E b \in Bead : Report(b)
             \/ UNCHANGED vars
      PROVE  TypeOK' /\ (next' = 0 => batch' = <<>>)
  <2>1. UNCHANGED <<next, batch>> \/ batch' = <<>>
    BY <1>6 DEF setOutageActive, DrainReturns, Restart, Work, Report, mayorVars, vars
  <2> QED BY <1>0, <1>6, <2>1, WorldTyped
<1> QED BY <1>2, <1>3, <1>4, <1>5, <1>6 DEF Typed, Next

LEMMA TypedInit == Init => Typed
<1> SUFFICES ASSUME Init PROVE Typed
  OBVIOUS
<1>1. Busy = {}
  BY DEF Init, Busy
<1>2. /\ ledger \in [Bead -> Seq(Record)]
      /\ bead \in [Proc -> Bead]
  <2>1. [status |-> "pending", outcome |-> "none"] \in Record
    BY DEF Record, Status, Outcome
  <2>2. (CHOOSE b \in Bead : TRUE) \in Bead
    BY PlanAssumption
  <2>3. /\ ledger = [b \in Bead |-> <<[status |-> "pending", outcome |-> "none"]>>]
        /\ bead = [p \in Proc |-> CHOOSE b \in Bead : TRUE]
    BY DEF Init
  <2> DEFINE pending == [status |-> "pending", outcome |-> "none"]
  <2>4. pending \in Record
    BY <2>1
  <2>5. bead \in [Proc -> Bead]
    BY <2>2, <2>3
  <2>6. ledger = [b \in Bead |-> <<pending>>]
    BY <2>3
  <2> HIDE DEF pending
  <2>7. <<pending>> \in Seq(Record)
    BY <2>4
  <2>8. ledger \in [Bead -> Seq(Record)]
    BY <2>6, <2>7
  <2> QED BY <2>5, <2>8
<1>3. TypeOK
  <2>1. /\ outageQueue \in Seq(Bead) /\ batch \in Seq(Bead)
        /\ sent \in Seq([bead : Bead, by : Proc]) /\ inbox \subseteq DOMAIN sent
    BY DEF Init
  <2>2. /\ next \in 0 .. Len(batch) + 1 /\ restarts \in 0 .. MaxRestarts
        /\ pc[Drain] = "idle"
    BY PlanAssumption, ProcOfMayor DEF Init
  <2>3. /\ pc \in [Proc -> {"idle", "blocking", "signing"}] /\ seq \in [Proc -> Nat]
        /\ calls \in [Bead -> Nat] /\ accepted \subseteq Bead /\ outageActive \in BOOLEAN
        /\ nextSeq \in Nat /\ counted \in Nat /\ lastSeq \in Nat
    BY DEF Init
  <2> QED BY <1>2, <2>1, <2>2, <2>3 DEF TypeOK
<1> QED BY <1>1, <1>3, FS_EmptySet DEF Typed, Init

-----------------------------------------------------------------------------
(* The ledger is append-only: what was done once was done for good. *)

LEMMA HistoriesGrow ==
  ASSUME Typed, [Next]_vars, NEW b \in Bead, NEW i \in DOMAIN ledger[b]
  PROVE  i \in DOMAIN ledger'[b] /\ ledger'[b][i] = ledger[b][i]
<1>0. TypeOK /\ ledger[b] \in Seq(Record)
  BY DEF Typed, TypeOK
<1>1. ASSUME NEW a \in Bead, NEW s \in Status, NEW o \in Outcome, ledger' = Written(ledger, a, s, o)
      PROVE  i \in DOMAIN ledger'[b] /\ ledger'[b][i] = ledger[b][i]
  <2> DEFINE new == [status |-> s, outcome |-> o]
  <2>1. ledger'[b] = ledger[b] \/ ledger'[b] = Append(ledger[b], new)
    BY <1>0, <1>1, WrittenAppends
  <2>2. new \in Record
    BY DEF Record
  <2> HIDE DEF new
  <2> QED BY <1>0, <2>1, <2>2
<1>2. \/ ledger' = ledger
      \/ \E a \in Bead, s \in Status, o \in Outcome : ledger' = Written(ledger, a, s, o)
  <2>1. {"blocked", "in_progress", "done", "failed"} \subseteq Status
        /\ {"none", "SUCCESS", "FAILURE"} \subseteq Outcome
    BY DEF Status, Outcome
  <2>2. ASSUME NEW p \in Proc, Blocked(p)
        PROVE  \E a \in Bead, s \in Status, o \in Outcome : ledger' = Written(ledger, a, s, o)
    <3>1. bead[p] \in Bead
      BY <1>0 DEF TypeOK
    <3> QED BY <2>1, <2>2, <3>1 DEF Blocked
  <2>3. ASSUME NEW k \in inbox, Work(k)
        PROVE  \E a \in Bead, s \in Status, o \in Outcome : ledger' = Written(ledger, a, s, o)
    <3>1. sent[k].bead \in Bead
      <4> DEFINE Convoy == [bead : Bead, by : Proc]
      <4>1. sent \in Seq(Convoy) /\ k \in DOMAIN sent /\ \A c \in Convoy : c.bead \in Bead
        BY <1>0 DEF TypeOK
      <4> HIDE DEF Convoy
      <4> QED BY <4>1
    <3> QED BY <2>1, <2>3, <3>1 DEF Work
  <2>4. ASSUME NEW a \in Bead, Report(a)
        PROVE  \E s \in Status, o \in Outcome : ledger' = Written(ledger, a, s, o)
    BY <2>1, <2>4 DEF Report
  <2>5. CASE \/ \E c \in Caller, a \in Bead : dispatchBead(c, a)
             \/ \E p \in Proc : LockTimeout(p) \/ Send(p) \/ SendThrows(p)
             \/ \E active \in BOOLEAN : setOutageActive(active)
             \/ drainOutageQueue \/ DrainNext \/ DrainReturns \/ Restart \/ UNCHANGED vars
    BY <2>5 DEF dispatchBead, LockTimeout, Send, SendThrows, setOutageActive, drainOutageQueue,
                DrainNext, DrainOne, DrainReturns, Restart, vars
  <2> QED BY <2>2, <2>3, <2>4, <2>5 DEF Next
<1> QED BY <1>0, <1>1, <1>2

LEMMA CompletedStays ==
  ASSUME Typed, [Next]_vars, NEW n \in Bead, completed(n) PROVE completed(n)'
<1>1. PICK i \in DOMAIN ledger[n] : IsDone(ledger[n][i])
  BY DEF completed, Some
<1>2. i \in DOMAIN ledger'[n] /\ ledger'[n][i] = ledger[n][i]
  BY HistoriesGrow
<1> QED BY <1>1, <1>2 DEF completed, Some

(* The mailbox file of a convoy is never taken back either. *)
LEMMA MailGrows ==
  ASSUME Typed, [Next]_vars
  PROVE  \/ UNCHANGED sent
         \/ \E p \in Proc : /\ pc[p] = "signing" /\ Send(p)
                            /\ bead[p] \in Bead
                            /\ DOMAIN sent' = DOMAIN sent \cup {Len(sent) + 1}
                            /\ Len(sent) + 1 \notin DOMAIN sent
                            /\ sent'[Len(sent) + 1].bead = bead[p]
                            /\ \A i \in DOMAIN sent : sent'[i] = sent[i]
<1>0. TypeOK
  BY DEF Typed
<1>1. ASSUME NEW p \in Proc, Send(p)
      PROVE  /\ pc[p] = "signing" /\ Send(p)
             /\ bead[p] \in Bead
             /\ DOMAIN sent' = DOMAIN sent \cup {Len(sent) + 1}
             /\ Len(sent) + 1 \notin DOMAIN sent
             /\ sent'[Len(sent) + 1].bead = bead[p]
             /\ \A i \in DOMAIN sent : sent'[i] = sent[i]
  <2> DEFINE convoy == [bead |-> bead[p], by |-> p]
  <2>1. /\ sent \in Seq([bead : Bead, by : Proc]) /\ convoy \in [bead : Bead, by : Proc]
        /\ convoy.bead = bead[p] /\ bead[p] \in Bead
    BY <1>0 DEF TypeOK
  <2>2. sent' = Append(sent, convoy)
    BY <1>1 DEF Send
  <2> HIDE DEF convoy
  <2>3. /\ DOMAIN sent' = 1 .. Len(sent) + 1 /\ DOMAIN sent = 1 .. Len(sent) /\ Len(sent) \in Nat
        /\ sent'[Len(sent) + 1] = convoy /\ \A i \in DOMAIN sent : sent'[i] = sent[i]
    BY <2>1, <2>2
  <2> QED BY <1>1, <2>1, <2>3 DEF Send
<1>2. CASE \/ \E c \in Caller, a \in Bead : dispatchBead(c, a)
           \/ \E p \in Proc : Blocked(p) \/ LockTimeout(p) \/ SendThrows(p)
           \/ \E active \in BOOLEAN : setOutageActive(active)
           \/ drainOutageQueue \/ DrainNext \/ DrainReturns \/ Restart
           \/ (\E i \in inbox : Work(i)) \/ (\E b \in Bead : Report(b)) \/ UNCHANGED vars
  BY <1>2 DEF dispatchBead, Blocked, LockTimeout, SendThrows, setOutageActive, drainOutageQueue,
              DrainNext, DrainOne, DrainReturns, Restart, Work, Report, vars, busVars
<1> QED BY <1>1, <1>2 DEF Next

-----------------------------------------------------------------------------
(* The rendezvous: a call that awaits its signature has passed the guard,  *)
(* and what the guard saw stays true.                                      *)

Together(b) == Cardinality(Needs[b]) >= 2 => \A n \in Needs[b] : completed(n)

WaitInv ==
  /\ Typed
  /\ \A p \in Proc : pc[p] = "signing" => Together(bead[p])
  /\ RendezvousWaits

LEMMA NeedsAreBeads ==
  ASSUME NEW b \in Bead PROVE Needs[b] \subseteq Bead /\ Cardinality(Needs[b]) \in Nat
BY PlanAssumption, FS_CardinalityType

LEMMA TogetherStays ==
  ASSUME Typed, [Next]_vars, NEW b \in Bead, Together(b) PROVE Together(b)'
BY CompletedStays, NeedsAreBeads DEF Together

LEMMA GuardsPassed ==
  ASSUME NEW p \in Proc, NEW b \in Bead, NEW active, NEW queue, Guards(p, b, active, queue),
         Typed, pc[p] = "idle", pc'[p] = "signing"
  PROVE  Together(b)
<1>1. pc \in [Proc -> {"idle", "blocking", "signing"}]
  BY DEF Typed, TypeOK
<1>2. isRendezvousNode(b) => unmetPrereqs(b) = {}
  BY <1>1, GuardsEnd
<1>3. Cardinality(Needs[b]) >= 2 => isRendezvousNode(b)
  BY NeedsAreBeads DEF isRendezvousNode
<1> QED BY <1>2, <1>3 DEF Together, unmetPrereqs

(* Who awaits a signature after a step did so before, or has just passed.  *)
LEMMA SigningStep ==
  ASSUME Typed, [Next]_vars, NEW q \in Proc, pc'[q] = "signing"
  PROVE  \/ pc[q] = "signing" /\ bead'[q] = bead[q]
         \/ bead'[q] \in Bead /\ Together(bead'[q])
<1>0. TypeOK
  BY DEF Typed
<1>t. /\ pc \in [Proc -> {"idle", "blocking", "signing"}] /\ bead \in [Proc -> Bead]
      /\ outageQueue \in Seq(Bead)
  BY <1>0 DEF TypeOK
<1>1. ASSUME NEW p \in Proc, NEW b \in Bead, NEW active, NEW queue \in Seq(Bead),
             Guards(p, b, active, queue), pc[p] = "idle", bead' = [bead EXCEPT ![p] = b]
      PROVE  \/ pc[q] = "signing" /\ bead'[q] = bead[q]
             \/ bead'[q] \in Bead /\ Together(bead'[q])
  <2>1. CASE q = p
    <3>1. Together(b) /\ bead'[q] = b
      BY <1>1, <1>t, <2>1, GuardsPassed
    <3> QED BY <3>1
  <2>2. CASE q # p
    <3>1. pc'[q] = pc[q] /\ bead'[q] = bead[q]
      BY <1>0, <1>1, <1>t, <2>2, GuardsTyped
    <3> QED BY <3>1
  <2> QED BY <2>1, <2>2
<1>2. ASSUME NEW c \in Caller, NEW b \in Bead, dispatchBead(c, b)
      PROVE  \/ pc[q] = "signing" /\ bead'[q] = bead[q]
             \/ bead'[q] \in Bead /\ Together(bead'[q])
  <2>1. /\ Guards(c, b, outageActive, outageQueue) /\ pc[c] = "idle"
        /\ bead' = [bead EXCEPT ![c] = b] /\ c \in Proc
    BY <1>2, ProcOfMayor DEF dispatchBead
  <2> QED BY <1>1, <1>t, <2>1
<1>3. CASE drainOutageQueue
  <2>0. 1 \in DOMAIN outageQueue
    BY <1>3, <1>t DEF drainOutageQueue
  <2>1. /\ Guards(Drain, outageQueue[1], FALSE, <<>>)
        /\ bead' = [bead EXCEPT ![Drain] = outageQueue[1]] /\ next = 0
    BY <1>3 DEF drainOutageQueue, DrainOne
  <2>2. pc[Drain] = "idle" /\ outageQueue[1] \in Bead /\ <<>> \in Seq(Bead)
    BY <1>0, <1>t, <2>0, <2>1, ProcOfMayor DEF TypeOK
  <2> QED BY <1>1, <2>1, <2>2, ProcOfMayor
<1>4. CASE DrainNext
  <2>1. /\ Guards(Drain, batch[next], outageActive, outageQueue) /\ next \in DOMAIN batch
        /\ bead' = [bead EXCEPT ![Drain] = batch[next]] /\ pc[Drain] = "idle"
    BY <1>4 DEF DrainNext, DrainOne
  <2>2. batch[next] \in Bead
    BY <1>0, <2>1 DEF TypeOK
  <2> QED BY <1>1, <1>t, <2>1, <2>2, ProcOfMayor
<1>5. ASSUME NEW p \in Proc, Blocked(p) \/ LockTimeout(p) \/ Send(p) \/ SendThrows(p)
      PROVE  pc[q] = "signing" /\ bead'[q] = bead[q]
  <2>1. (Returns(p) \/ Throws(p)) /\ bead' = bead
    BY <1>5 DEF Blocked, LockTimeout, Send, SendThrows
  <2>2. pc'[p] = "idle" /\ \A r \in Proc \ {p} : pc'[r] = pc[r]
    BY <1>0, <2>1, ReturnsTyped, ThrowsTyped
  <2> QED BY <2>1, <2>2
<1>6. CASE UNCHANGED <<pc, bead>>
  BY <1>6
<1>7. CASE Restart
  BY <1>7 DEF Restart
<1> QED
  BY <1>2, <1>3, <1>4, <1>5, <1>6, <1>7
     DEF Next, setOutageActive, DrainReturns, Work, Report, mayorVars, callVars, vars

LEMMA WaitStep == ASSUME WaitInv, [Next]_vars PROVE WaitInv'
<1>0. Typed /\ TypeOK
  BY DEF WaitInv, Typed
<1>1. Typed'
  BY <1>0, TypedStep
<1>2. ASSUME NEW p \in Proc, pc'[p] = "signing" PROVE Together(bead[p])'
  <2>1. CASE pc[p] = "signing" /\ bead'[p] = bead[p]
    <3>1. bead[p] \in Bead /\ Together(bead[p])
      BY <1>0, <2>1 DEF WaitInv, TypeOK
    <3>2. PICK b \in Bead : b = bead[p]
      BY <3>1
    <3>3. Together(b)'
      BY <1>0, <3>1, <3>2, TogetherStays
    <3> QED BY <2>1, <3>2, <3>3
  <2>2. CASE bead'[p] \in Bead /\ Together(bead'[p])
    <3>1. PICK b \in Bead : b = bead'[p]
      BY <2>2
    <3>2. Together(b)'
      BY <1>0, <2>2, <3>1, TogetherStays
    <3> QED BY <3>1, <3>2
  <2> QED BY <1>0, <1>2, <2>1, <2>2, SigningStep
<1>3. ASSUME NEW i \in DOMAIN sent PROVE sent[i].bead \in Bead /\ Together(sent[i].bead)
  <2>1. sent[i].bead \in Bead
    <3> DEFINE Convoy == [bead : Bead, by : Proc]
    <3>1. sent \in Seq(Convoy) /\ \A c \in Convoy : c.bead \in Bead
      BY <1>0 DEF TypeOK
    <3> HIDE DEF Convoy
    <3> QED BY <3>1
  <2> QED BY <2>1 DEF WaitInv, RendezvousWaits, Together
<1>4. ASSUME NEW i \in DOMAIN sent' PROVE Together(sent[i].bead)'
  <2>1. ASSUME NEW b \in Bead, b = sent'[i].bead, Together(b) PROVE Together(sent[i].bead)'
    <3>1. Together(b)'
      BY <1>0, <2>1, TogetherStays
    <3> QED BY <2>1, <3>1
  <2>2. CASE i \in DOMAIN sent /\ sent'[i] = sent[i]
    BY <1>3, <2>1, <2>2
  <2>3. CASE \E p \in Proc : pc[p] = "signing" /\ bead[p] \in Bead /\ sent'[i].bead = bead[p]
    BY <2>1, <2>3 DEF WaitInv
  <2> QED BY <1>0, <1>4, <2>2, <2>3, MailGrows
<1>5. RendezvousWaits'
  BY <1>4 DEF RendezvousWaits, Together
<1> QED BY <1>1, <1>2, <1>5 DEF WaitInv

(* For any plan and any number of callers, restarts and outages: no convoy *)
(* of a bead with several prerequisites is sent before all of them were    *)
(* done, also when the bead waited in the outage queue or for a signature  *)
(* (Mayor.dispatchBead, drainOutageQueue).                                 *)
THEOREM RendezvousHolds == Spec => []RendezvousWaits
<1>1. Init => WaitInv
  BY TypedInit DEF Init, WaitInv, RendezvousWaits
<1>2. WaitInv => RendezvousWaits
  BY DEF WaitInv
<1> QED BY <1>1, <1>2, WaitStep, PTL DEF Spec

-----------------------------------------------------------------------------
(* Held: what a call returned for does not rest on the call of another     *)
(* caller, which may throw; it is in a mailbox, recorded as blocked, in    *)
(* the queue, in the rest of the batch, or in the hands of the drain.      *)

InMail(b) == \E i \in DOMAIN sent : sent[i].bead = b
Noted(b)  == \E i \in DOMAIN ledger[b] : ledger[b][i].status = "blocked"
Waits(b)  == \E i \in DOMAIN outageQueue : outageQueue[i] = b
Left(b)   == \E i \in DOMAIN batch : i >= next /\ batch[i] = b
Drained(b) == pc[Drain] # "idle" /\ bead[Drain] = b

Kept(b) == InMail(b) \/ Noted(b) \/ Waits(b) \/ Left(b) \/ Drained(b)

KeptInv == Typed /\ \A b \in accepted : Kept(b)

LEMMA KeptIsHeld == KeptInv => AcceptedIsHeld
<1> SUFFICES ASSUME KeptInv, NEW b \in accepted PROVE Held(b)
  BY DEF AcceptedIsHeld
<1>1. Kept(b)
  BY DEF KeptInv
<1>2. Noted(b) => Some(ledger[b], LAMBDA r : r.status = "blocked")
  BY DEF Noted, Some
<1>3. Waits(b) => b \in Range(outageQueue)
  BY DEF Waits, Range
<1> QED BY <1>1, <1>2, <1>3, ProcOfMayor DEF Kept, InMail, Left, Drained, Held

LEMMA MailAndNotesStay ==
  ASSUME Typed, [Next]_vars, NEW b \in Bead
  PROVE  (InMail(b) => InMail(b)') /\ (Noted(b) => Noted(b)')
<1>1. InMail(b) => InMail(b)'
  BY MailGrows DEF InMail
<1>2. ASSUME Noted(b) PROVE Noted(b)'
  <2>1. PICK i \in DOMAIN ledger[b] : ledger[b][i].status = "blocked"
    BY <1>2 DEF Noted
  <2>2. i \in DOMAIN ledger'[b] /\ ledger'[b][i] = ledger[b][i]
    BY HistoriesGrow
  <2> QED BY <2>1, <2>2 DEF Noted
<1> QED BY <1>1, <1>2

(* A bead at the end of a queue. *)
LEMMA AppendedBead ==
  ASSUME NEW q \in Seq(Bead), NEW b \in Bead
  PROVE  /\ DOMAIN Append(q, b) = DOMAIN q \cup {Len(q) + 1}
         /\ Len(q) + 1 \notin DOMAIN q
         /\ Append(q, b)[Len(q) + 1] = b
         /\ \A i \in DOMAIN q : Append(q, b)[i] = q[i]
OBVIOUS

LEMMA DispatchKeeps ==
  ASSUME KeptInv, [Next]_vars, NEW c \in Caller, NEW a \in Bead, dispatchBead(c, a),
         NEW b \in accepted'
  PROVE  Kept(b)'
<1>0. /\ Typed /\ TypeOK /\ outageQueue \in Seq(Bead) /\ accepted \subseteq Bead
      /\ bead \in [Proc -> Bead] /\ pc \in [Proc -> {"idle", "blocking", "signing"}]
  BY DEF KeptInv, Typed, TypeOK
<1>1. c \in Proc /\ Drain \in Proc /\ c # Drain
  BY ProcOfMayor
<1>2. Guards(c, a, outageActive, outageQueue) /\ UNCHANGED <<batch, next>>
      /\ bead'[Drain] = bead[Drain]
  BY <1>0, <1>1 DEF dispatchBead
<1>3. pc'[Drain] = pc[Drain]
  BY <1>0, <1>1, <1>2, GuardsTyped
<1>4. \/ outageQueue' = outageQueue /\ accepted' = accepted
      \/ outageQueue' = Append(outageQueue, a) /\ accepted' = accepted \cup {a}
  BY <1>2, GuardsEnd
<1>5. ASSUME outageQueue' = Append(outageQueue, a) PROVE Waits(a)'
  BY <1>0, <1>5, AppendedBead DEF Waits
<1>6. ASSUME b \in accepted PROVE Kept(b)'
  <2>1. Waits(b) => Waits(b)'
    BY <1>0, <1>4, AppendedBead DEF Waits
  <2>2. (Left(b) => Left(b)') /\ (Drained(b) => Drained(b)')
    BY <1>2, <1>3 DEF Left, Drained
  <2> QED BY <1>0, <1>6, <2>1, <2>2, MailAndNotesStay DEF KeptInv, Kept
<1> QED BY <1>4, <1>5, <1>6 DEF Kept

LEMMA EndsKeep ==
  ASSUME KeptInv, [Next]_vars, NEW p \in Proc,
         Blocked(p) \/ LockTimeout(p) \/ Send(p) \/ SendThrows(p),
         NEW b \in accepted'
  PROVE  Kept(b)'
<1>0. /\ Typed /\ TypeOK /\ outageQueue \in Seq(Bead) /\ accepted \subseteq Bead
      /\ bead \in [Proc -> Bead] /\ ledger \in [Bead -> Seq(Record)]
  BY DEF KeptInv, Typed, TypeOK
<1>1. (Returns(p) \/ Throws(p)) /\ bead' = bead
  BY DEF Blocked, LockTimeout, Send, SendThrows
<1>2. UNCHANGED <<batch, next>> /\ \A q \in Proc \ {p} : pc'[q] = pc[q]
  BY <1>0, <1>1, ReturnsTyped, ThrowsTyped
<1>3. bead[p] \in Bead /\ Drain \in Proc
  BY <1>0, ProcOfMayor
(* Blocked and Send return: the bead is recorded, or in the mailbox. *)
<1>4. ASSUME Returns(p), outageQueue' = outageQueue, Kept(bead[p])' PROVE Kept(b)'
  <2>1. CASE b = bead[p]
    BY <1>1, <1>4, <2>1 DEF Kept, InMail, Noted, Waits, Left, Drained
  <2>2. CASE b # bead[p]
    <3>1. b \in accepted
      BY <1>4, <2>2 DEF Returns
    <3>2. Drained(b) => Drained(b)'
      BY <1>1, <1>2, <1>3, <2>2 DEF Drained
    <3>3. (Waits(b) => Waits(b)') /\ (Left(b) => Left(b)')
      BY <1>2, <1>4 DEF Waits, Left
    <3> QED BY <1>0, <3>1, <3>2, <3>3, MailAndNotesStay DEF KeptInv, Kept
  <2> QED BY <2>1, <2>2
<1>5. CASE Blocked(p)
  <2>1. ledger' = Written(ledger, bead[p], "blocked", "none") /\ outageQueue' = outageQueue
        /\ Returns(p)
    BY <1>5 DEF Blocked
  <2>2. "blocked" \in Status /\ "none" \in Outcome
    BY DEF Status, Outcome
  <2> DEFINE note == [status |-> "blocked", outcome |-> "none"]
  <2>3. ledger'[bead[p]] = Append(ledger[bead[p]], note) /\ ledger[bead[p]] \in Seq(Record)
    BY <1>0, <1>3, <2>1, <2>2, WrittenAppends
  <2>4. note \in Record /\ note.status = "blocked"
    BY <2>2 DEF Record
  <2> HIDE DEF note
  <2> DEFINE end == Len(ledger[bead[p]]) + 1
  <2>5. end \in DOMAIN ledger'[bead[p]] /\ ledger'[bead[p]][end] = note
    BY <2>3, <2>4
  <2> HIDE DEF end
  <2>6. Noted(bead[p])'
    BY <1>1, <2>4, <2>5 DEF Noted
  <2> QED BY <1>4, <2>1, <2>6 DEF Kept
<1>6. CASE Send(p)
  <2> DEFINE convoy == [bead |-> bead[p], by |-> p]
  <2>1. /\ sent \in Seq([bead : Bead, by : Proc]) /\ convoy \in [bead : Bead, by : Proc]
        /\ convoy.bead = bead[p]
    BY <1>0 DEF TypeOK
  <2>2. sent' = Append(sent, convoy) /\ outageQueue' = outageQueue /\ Returns(p)
    BY <1>6 DEF Send
  <2> HIDE DEF convoy
  <2>3. Len(sent) + 1 \in DOMAIN sent' /\ sent'[Len(sent) + 1] = convoy
    BY <2>1, <2>2
  <2>4. InMail(bead[p])'
    BY <1>1, <2>1, <2>3 DEF InMail
  <2> QED BY <1>4, <2>2, <2>4 DEF Kept
(* The others throw: what the drain had is queued again. *)
<1>7. ASSUME Throws(p) PROVE Kept(b)'
  <2>1. b \in accepted
    BY <1>7 DEF Throws
  <2>2. outageQueue' = IF p = Drain THEN Append(outageQueue, bead[p]) ELSE outageQueue
    BY <1>7 DEF Throws
  <2>3. Waits(b) => Waits(b)'
    BY <1>0, <1>3, <2>2, AppendedBead DEF Waits
  <2>4. Drained(b) => Drained(b)' \/ Waits(b)'
    <3>1. CASE p = Drain
      BY <1>0, <1>3, <2>2, <3>1, AppendedBead DEF Drained, Waits
    <3>2. CASE p # Drain
      BY <1>1, <1>2, <1>3, <3>2 DEF Drained
    <3> QED BY <3>1, <3>2
  <2>5. Left(b) => Left(b)'
    BY <1>2 DEF Left
  <2> QED BY <1>0, <2>1, <2>3, <2>4, <2>5, MailAndNotesStay DEF KeptInv, Kept
<1> QED BY <1>5, <1>6, <1>7 DEF LockTimeout, SendThrows

(* A bead of the queue, or of the rest of the batch, is at work now, is    *)
(* queued again, or is still ahead.                                        *)
LEMMA DrainOneKeeps ==
  ASSUME Typed, NEW q \in Seq(Bead), NEW i \in DOMAIN q, NEW n, NEW active,
         NEW queue \in Seq(Bead), NEW count, pc[Drain] = "idle",
         DrainOne(q, i, n, active, queue, count)
  PROVE  /\ \A k \in DOMAIN q : k >= i => Drained(q[k])' \/ Waits(q[k])' \/ Left(q[k])'
         /\ \A b : (\E k \in DOMAIN queue : queue[k] = b) => Waits(b)'
         /\ \/ accepted' = accepted
            \/ accepted' = accepted \cup {q[i]} /\ Waits(q[i])'
<1>0. /\ pc \in [Proc -> {"idle", "blocking", "signing"}] /\ bead \in [Proc -> Bead]
      /\ Drain \in Proc
  BY ProcOfMayor DEF Typed, TypeOK
<1>q. q[i] \in Bead
  OBVIOUS
<1>1. /\ Guards(Drain, q[i], active, queue) /\ bead' = [bead EXCEPT ![Drain] = q[i]]
      /\ batch' = q /\ next' = i + 1
  BY DEF DrainOne
<1>2. \/ pc'[Drain] # "idle" /\ outageQueue' = queue /\ accepted' = accepted
      \/ outageQueue' = Append(queue, q[i]) /\ accepted' = accepted \cup {q[i]}
  BY <1>0, <1>1, GuardsEnd
<1>3. outageQueue' = Append(queue, q[i]) => Waits(q[i])'
  BY <1>q, AppendedBead DEF Waits
<1>4. pc'[Drain] # "idle" => Drained(q[i])'
  BY <1>0, <1>1 DEF Drained
<1>5. \A k \in DOMAIN q : k > i => Left(q[k])'
  BY <1>1 DEF Left
<1>6. \A k \in DOMAIN q : k >= i => k = i \/ k > i
  OBVIOUS
<1>7. \A b : (\E k \in DOMAIN queue : queue[k] = b) => Waits(b)'
  BY <1>q, <1>2, AppendedBead DEF Waits
<1> QED BY <1>2, <1>3, <1>4, <1>5, <1>6, <1>7

LEMMA DrainKeeps ==
  ASSUME KeptInv, [Next]_vars, drainOutageQueue \/ DrainNext, NEW b \in accepted'
  PROVE  Kept(b)'
<1>0. /\ Typed /\ TypeOK /\ outageQueue \in Seq(Bead) /\ batch \in Seq(Bead)
      /\ accepted \subseteq Bead /\ <<>> \in Seq(Bead) /\ Drain \in Proc
  BY ProcOfMayor DEF KeptInv, Typed, TypeOK
<1>1. CASE drainOutageQueue
  <2>1. 1 \in DOMAIN outageQueue
    BY <1>0, <1>1 DEF drainOutageQueue
  <2>2. DrainOne(outageQueue, 1, lastSeq + 1, FALSE, <<>>, 0) /\ next = 0
    BY <1>1 DEF drainOutageQueue
  <2>3. pc[Drain] = "idle" /\ batch = <<>>
    BY <1>0, <2>2 DEF Typed, TypeOK
  <2>q. PICK q \in Seq(Bead) : q = outageQueue
    BY <1>0
  <2>4. /\ \A k \in DOMAIN q : k >= 1 => Drained(q[k])' \/ Waits(q[k])' \/ Left(q[k])'
        /\ \/ accepted' = accepted
           \/ accepted' = accepted \cup {q[1]} /\ Waits(q[1])'
    <3>1. PICK n \in Nat : n = lastSeq + 1
      BY <1>0 DEF TypeOK
    <3>2. DrainOne(q, 1, n, FALSE, <<>>, 0)
      BY <2>2, <2>q, <3>1
    <3> QED BY <1>0, <2>1, <2>3, <2>q, <3>2, DrainOneKeeps
  <2>5. \A k \in DOMAIN q : k >= 1
    OBVIOUS
  <2>6. ASSUME b \in accepted PROVE Kept(b)'
    <3>1. ~Drained(b) /\ ~Left(b)
      BY <2>3 DEF Drained, Left
    <3>2. Waits(b) => Kept(b)'
      BY <2>q, <2>4, <2>5 DEF Waits, Kept
    <3> QED BY <1>0, <2>6, <3>1, <3>2, MailAndNotesStay DEF KeptInv, Kept
  <2> QED BY <2>4, <2>6 DEF Kept
<1>2. CASE DrainNext
  <2>1. /\ next \in DOMAIN batch /\ pc[Drain] = "idle"
        /\ DrainOne(batch, next, nextSeq, outageActive, outageQueue, counted)
    BY <1>2 DEF DrainNext
  <2>q. PICK q \in Seq(Bead), queue \in Seq(Bead) : q = batch /\ queue = outageQueue
    BY <1>0
  <2>i. PICK i \in DOMAIN q : i = next
    BY <2>1, <2>q
  <2>2. /\ \A k \in DOMAIN q : k >= i => Drained(q[k])' \/ Waits(q[k])' \/ Left(q[k])'
        /\ \A a : (\E k \in DOMAIN queue : queue[k] = a) => Waits(a)'
        /\ \/ accepted' = accepted
           \/ accepted' = accepted \cup {q[i]} /\ Waits(q[i])'
    <3>1. PICK n, active, count :
            n = nextSeq /\ active = outageActive /\ count = counted
      OBVIOUS
    <3>2. DrainOne(q, i, n, active, queue, count)
      BY <2>1, <2>q, <2>i, <3>1
    <3> QED BY <1>0, <2>1, <3>2, DrainOneKeeps
  <2>3. ASSUME b \in accepted PROVE Kept(b)'
    <3>1. ~Drained(b)
      BY <2>1 DEF Drained
    <3>2. Waits(b) => Kept(b)'
      BY <2>q, <2>2 DEF Waits, Kept
    <3>3. Left(b) => Kept(b)'
      BY <2>q, <2>i, <2>2 DEF Left, Kept
    <3> QED BY <1>0, <2>3, <3>1, <3>2, <3>3, MailAndNotesStay DEF KeptInv, Kept
  <2> QED BY <2>2, <2>3 DEF Kept
<1> QED BY <1>1, <1>2

LEMMA KeptStep == ASSUME KeptInv, [Next]_vars PROVE KeptInv'
<1>0. Typed /\ accepted \subseteq Bead
  BY DEF KeptInv, Typed, TypeOK
<1>1. Typed'
  BY <1>0, TypedStep
<1>2. ASSUME NEW b \in accepted' PROVE Kept(b)'
  <2>1. ASSUME \/ \E active \in BOOLEAN : setOutageActive(active)
               \/ \E i \in inbox : Work(i)
               \/ \E a \in Bead : Report(a)
               \/ UNCHANGED vars
        PROVE Kept(b)'
    <3>1. UNCHANGED <<outageQueue, batch, next, accepted, pc, bead>>
      BY <2>1 DEF setOutageActive, Work, Report, mayorVars, callVars, vars
    <3>2. Waits(b)' = Waits(b) /\ Left(b)' = Left(b) /\ Drained(b)' = Drained(b)
      BY <3>1 DEF Waits, Left, Drained
    <3> QED BY <1>0, <1>2, <3>1, <3>2, MailAndNotesStay DEF KeptInv, Kept
  <2>2. CASE DrainReturns
    <3>1. /\ UNCHANGED <<outageQueue, accepted, pc, bead>> /\ next > Len(batch)
          /\ batch \in Seq(Bead) /\ next \in Nat
      BY <1>0, <2>2 DEF DrainReturns, callVars, Typed, TypeOK
    <3>2. ~Left(b)
      BY <3>1 DEF Left
    <3>3. Waits(b)' = Waits(b) /\ Drained(b)' = Drained(b)
      BY <3>1 DEF Waits, Drained
    <3> QED BY <1>0, <1>2, <3>1, <3>2, <3>3, MailAndNotesStay DEF KeptInv, Kept
  <2>3. CASE Restart
    BY <1>2, <2>3 DEF Restart
  <2> QED BY <1>2, <2>1, <2>2, <2>3, DispatchKeeps, EndsKeep, DrainKeeps DEF Next
<1> QED BY <1>1, <1>2 DEF KeptInv

(* For any plan, any number of callers, restarts and outages: a bead whose *)
(* dispatch was accepted is in a mailbox, recorded as blocked, queued, or  *)
(* being dispatched; refused sequence numbers, lock timeouts and an outage *)
(* that returns in the middle of a drain lose none (Mayor.dispatchBead,    *)
(* drainOutageQueue).                                                      *)
THEOREM NoneDropped == Spec => []AcceptedIsHeld
<1>1. Init => KeptInv
  BY TypedInit DEF Init, KeptInv
<1>2. Spec => []KeptInv
  BY <1>1, KeptStep, PTL DEF Spec
<1> QED BY <1>2, KeptIsHeld, PTL

-----------------------------------------------------------------------------
(* Once per call: what a bead's calls are charged for.  Each stands for    *)
(* one convoy that was sent or may still be; the steps of the Mayor move   *)
(* it on and never make two of it.                                         *)

Mailed(b)    == {i \in DOMAIN sent : sent[i].bead = b}
WaitingAt(b) == {i \in DOMAIN outageQueue : outageQueue[i] = b}
LeftAt(b)    == {i \in DOMAIN batch : i >= next /\ batch[i] = b}
Calling(b)   == {p \in Proc : pc[p] # "idle" /\ bead[p] = b}

Charge(b) == Cardinality(Mailed(b)) + Cardinality(WaitingAt(b))
             + Cardinality(LeftAt(b)) + Cardinality(Calling(b))

ChargeInv == Typed /\ \A b \in Bead : Charge(b) <= calls[b]

LEMMA PlacesFinite ==
  ASSUME NEW S, NEW q \in Seq(S), NEW T, T \subseteq DOMAIN q PROVE IsFiniteSet(T)
<1>1. DOMAIN q = 1 .. Len(q) /\ 1 \in Int /\ Len(q) \in Int
  OBVIOUS
<1>2. IsFiniteSet(1 .. Len(q))
  BY <1>1, FS_Interval
<1> QED BY <1>1, <1>2, FS_Subset

LEMMA ChargeFinite ==
  ASSUME Typed, NEW b
  PROVE  /\ IsFiniteSet(Mailed(b)) /\ Cardinality(Mailed(b)) \in Nat
         /\ IsFiniteSet(WaitingAt(b)) /\ Cardinality(WaitingAt(b)) \in Nat
         /\ IsFiniteSet(LeftAt(b)) /\ Cardinality(LeftAt(b)) \in Nat
         /\ IsFiniteSet(Calling(b)) /\ Cardinality(Calling(b)) \in Nat
<1>1. /\ sent \in Seq([bead : Bead, by : Proc]) /\ outageQueue \in Seq(Bead)
      /\ batch \in Seq(Bead) /\ IsFiniteSet(Busy)
  BY DEF Typed, TypeOK
<1>2. IsFiniteSet(Mailed(b)) /\ IsFiniteSet(WaitingAt(b)) /\ IsFiniteSet(LeftAt(b))
  <2>1. /\ Mailed(b) \subseteq DOMAIN sent /\ WaitingAt(b) \subseteq DOMAIN outageQueue
        /\ LeftAt(b) \subseteq DOMAIN batch
    BY DEF Mailed, WaitingAt, LeftAt
  <2> QED BY <1>1, <2>1, PlacesFinite
<1>3. IsFiniteSet(Calling(b))
  <2>1. Calling(b) \subseteq Busy
    BY DEF Calling, Busy
  <2> QED BY <1>1, <2>1, FS_Subset
<1> QED BY <1>2, <1>3, FS_CardinalityType

(* Nothing new. *)
LEMMA ChargeFalls ==
  ASSUME Typed, NEW b, Mailed(b)' \subseteq Mailed(b), WaitingAt(b)' \subseteq WaitingAt(b),
         LeftAt(b)' \subseteq LeftAt(b), Calling(b)' \subseteq Calling(b)
  PROVE  Charge(b)' <= Charge(b) /\ Charge(b)' \in Nat
<1>1. /\ Cardinality(Mailed(b)') <= Cardinality(Mailed(b)) /\ Cardinality(Mailed(b)') \in Nat
      /\ Cardinality(WaitingAt(b)') <= Cardinality(WaitingAt(b))
      /\ Cardinality(WaitingAt(b)') \in Nat
      /\ Cardinality(LeftAt(b)') <= Cardinality(LeftAt(b)) /\ Cardinality(LeftAt(b)') \in Nat
      /\ Cardinality(Calling(b)') <= Cardinality(Calling(b)) /\ Cardinality(Calling(b)') \in Nat
  BY ChargeFinite, NoneAdded
<1> QED BY <1>1, ChargeFinite DEF Charge

LEMMA DispatchCharge ==
  ASSUME Typed, NEW c \in Caller, NEW a \in Bead, dispatchBead(c, a), NEW b \in Bead,
         Charge(b) <= calls[b]
  PROVE  Charge(b)' <= calls'[b]
<1>0. /\ TypeOK /\ outageQueue \in Seq(Bead) /\ calls \in [Bead -> Nat]
      /\ bead \in [Proc -> Bead] /\ pc \in [Proc -> {"idle", "blocking", "signing"}]
  BY DEF Typed, TypeOK
<1>1. /\ Guards(c, a, outageActive, outageQueue) /\ UNCHANGED <<batch, next, sent>>
      /\ bead' = [bead EXCEPT ![c] = a] /\ c \in Proc /\ pc[c] = "idle"
      /\ calls' = [calls EXCEPT ![a] = calls[a] + 1]
  BY ProcOfMayor DEF dispatchBead, busVars
<1>2. Mailed(b)' = Mailed(b) /\ LeftAt(b)' = LeftAt(b)
  BY <1>1 DEF Mailed, LeftAt
<1>3. \A q \in Proc \ {c} : pc'[q] = pc[q] /\ bead'[q] = bead[q]
  BY <1>0, <1>1, GuardsTyped
<1>4. \/ outageQueue' = outageQueue
      \/ outageQueue' = Append(outageQueue, a) /\ pc' = pc
  BY <1>1, GuardsEnd
<1>5. /\ Charge(b) \in Nat /\ calls[b] \in Nat
      /\ Cardinality(Mailed(b)) \in Nat /\ Cardinality(WaitingAt(b)) \in Nat
      /\ Cardinality(LeftAt(b)) \in Nat /\ Cardinality(Calling(b)) \in Nat
  BY <1>0, ChargeFinite DEF Charge
<1>6. CASE a # b
  <2>1. Calling(b)' \subseteq Calling(b)
    BY <1>0, <1>1, <1>3, <1>6 DEF Calling
  <2>2. WaitingAt(b)' \subseteq WaitingAt(b)
    BY <1>0, <1>4, <1>6, AppendedBead DEF WaitingAt
  <2>3. calls'[b] = calls[b]
    BY <1>0, <1>1, <1>6
  <2>4. Charge(b)' <= Charge(b) /\ Charge(b)' \in Nat
    BY <1>2, <2>1, <2>2, ChargeFalls
  <2> QED BY <1>5, <2>3, <2>4
<1>7. CASE a = b
  <2>1. calls'[b] = calls[b] + 1
    BY <1>0, <1>1, <1>7
  <2>2. CASE outageQueue' = outageQueue
    <3>1. WaitingAt(b)' = WaitingAt(b) /\ Calling(b)' \subseteq Calling(b) \cup {c}
      BY <1>3, <2>2 DEF WaitingAt, Calling
    <3>2. Cardinality(Calling(b)') <= Cardinality(Calling(b)) + 1 /\ Cardinality(Calling(b)') \in Nat
      BY <3>1, ChargeFinite, OneAdded
    <3>3. Charge(b)' = Cardinality(Mailed(b)) + Cardinality(WaitingAt(b))
                       + Cardinality(LeftAt(b)) + Cardinality(Calling(b)')
      BY <1>2, <3>1 DEF Charge
    <3> QED BY <1>5, <2>1, <3>2, <3>3 DEF Charge
  <2>3. CASE outageQueue' = Append(outageQueue, a) /\ pc' = pc
    <3>1. /\ Calling(b)' \subseteq Calling(b)
          /\ WaitingAt(b)' \subseteq WaitingAt(b) \cup {Len(outageQueue) + 1}
      BY <1>0, <1>1, <1>3, <2>3, AppendedBead DEF WaitingAt, Calling
    <3>2. /\ Cardinality(Calling(b)') <= Cardinality(Calling(b))
          /\ Cardinality(Calling(b)') \in Nat
          /\ Cardinality(WaitingAt(b)') <= Cardinality(WaitingAt(b)) + 1
          /\ Cardinality(WaitingAt(b)') \in Nat
      BY <3>1, ChargeFinite, OneAdded, NoneAdded
    <3>3. Charge(b)' = Cardinality(Mailed(b)) + Cardinality(WaitingAt(b)')
                       + Cardinality(LeftAt(b)) + Cardinality(Calling(b)')
      BY <1>2 DEF Charge
    <3> QED BY <1>5, <2>1, <3>2, <3>3 DEF Charge
  <2> QED BY <1>4, <2>2, <2>3
<1> QED BY <1>6, <1>7

LEMMA EndsCharge ==
  ASSUME Typed, NEW p \in Proc, [Next]_vars, NEW b \in Bead,
         Blocked(p) \/ LockTimeout(p) \/ Send(p) \/ SendThrows(p)
  PROVE  Charge(b)' <= Charge(b) /\ calls' = calls
<1>0. /\ TypeOK /\ outageQueue \in Seq(Bead) /\ bead \in [Proc -> Bead]
      /\ sent \in Seq([bead : Bead, by : Proc])
  BY DEF Typed, TypeOK
<1>1. (Returns(p) \/ Throws(p)) /\ bead' = bead /\ calls' = calls /\ pc[p] # "idle"
  BY DEF Blocked, LockTimeout, Send, SendThrows
<1>2. /\ UNCHANGED <<batch, next>> /\ pc'[p] = "idle"
      /\ \A q \in Proc \ {p} : pc'[q] = pc[q]
  BY <1>0, <1>1, ReturnsTyped, ThrowsTyped
<1>3. LeftAt(b)' = LeftAt(b) /\ Calling(b)' \subseteq Calling(b) \ {p}
  BY <1>1, <1>2 DEF LeftAt, Calling
<1>4. bead[p] = b => p \in Calling(b)
  BY <1>1 DEF Calling
<1>5. /\ Cardinality(Mailed(b)) \in Nat /\ Cardinality(WaitingAt(b)) \in Nat
      /\ Cardinality(LeftAt(b)) \in Nat /\ Cardinality(Calling(b)) \in Nat
  BY ChargeFinite
<1>6. CASE Blocked(p) \/ LockTimeout(p) \/ SendThrows(p)
  <2>1. Mailed(b)' = Mailed(b)
    BY <1>6 DEF Blocked, LockTimeout, SendThrows, busVars, Mailed
  <2>2. outageQueue' = outageQueue \/ outageQueue' = Append(outageQueue, bead[p])
    BY <1>6 DEF Blocked, LockTimeout, SendThrows, Throws
  <2>3. CASE WaitingAt(b)' \subseteq WaitingAt(b)
    BY <1>1, <1>3, <2>1, <2>3, ChargeFalls
  <2>4. CASE ~(WaitingAt(b)' \subseteq WaitingAt(b))
    <3>1. /\ bead[p] = b
          /\ WaitingAt(b)' \subseteq WaitingAt(b) \cup {Len(outageQueue) + 1}
      BY <1>0, <2>2, <2>4, AppendedBead DEF WaitingAt
    <3>2. /\ Cardinality(Calling(b)') + Cardinality(WaitingAt(b)')
               <= Cardinality(Calling(b)) + Cardinality(WaitingAt(b))
          /\ Cardinality(Calling(b)') \in Nat /\ Cardinality(WaitingAt(b)') \in Nat
      <4>1. /\ Cardinality(Calling(b)') + 1 <= Cardinality(Calling(b))
            /\ Cardinality(Calling(b)') \in Nat
        BY <1>3, <1>4, <3>1, ChargeFinite, OneTaken
      <4>2. /\ Cardinality(WaitingAt(b)') <= Cardinality(WaitingAt(b)) + 1
            /\ Cardinality(WaitingAt(b)') \in Nat
        BY <3>1, ChargeFinite, OneAdded
      <4> QED BY <1>5, <4>1, <4>2
    <3>3. Charge(b)' = Cardinality(Mailed(b)) + Cardinality(WaitingAt(b)')
                       + Cardinality(LeftAt(b)) + Cardinality(Calling(b)')
      BY <1>3, <2>1 DEF Charge
    <3> QED BY <1>1, <1>5, <3>2, <3>3 DEF Charge
  <2> QED BY <2>3, <2>4
<1>7. CASE Send(p)
  <2>1. WaitingAt(b)' = WaitingAt(b)
    BY <1>7 DEF Send, WaitingAt
  <2>2. /\ DOMAIN sent' = DOMAIN sent \cup {Len(sent) + 1}
        /\ sent'[Len(sent) + 1].bead = bead[p]
        /\ \A i \in DOMAIN sent : sent'[i] = sent[i]
    <3> DEFINE convoy == [bead |-> bead[p], by |-> p]
    <3>1. /\ convoy \in [bead : Bead, by : Proc] /\ convoy.bead = bead[p]
          /\ sent' = Append(sent, convoy)
      BY <1>0, <1>7 DEF Send
    <3> HIDE DEF convoy
    <3> QED BY <1>0, <3>1
  <2>3. CASE bead[p] # b
    <3>1. Mailed(b)' \subseteq Mailed(b)
      BY <2>2, <2>3 DEF Mailed
    <3> QED BY <1>1, <1>3, <2>1, <3>1, ChargeFalls
  <2>4. CASE bead[p] = b
    <3>1. Mailed(b)' \subseteq Mailed(b) \cup {Len(sent) + 1}
      BY <2>2 DEF Mailed
    <3>2. /\ Cardinality(Calling(b)') + Cardinality(Mailed(b)')
               <= Cardinality(Calling(b)) + Cardinality(Mailed(b))
          /\ Cardinality(Calling(b)') \in Nat /\ Cardinality(Mailed(b)') \in Nat
      <4>1. /\ Cardinality(Calling(b)') + 1 <= Cardinality(Calling(b))
            /\ Cardinality(Calling(b)') \in Nat
        BY <1>3, <1>4, <2>4, ChargeFinite, OneTaken
      <4>2. /\ Cardinality(Mailed(b)') <= Cardinality(Mailed(b)) + 1
            /\ Cardinality(Mailed(b)') \in Nat
        BY <3>1, ChargeFinite, OneAdded
      <4> QED BY <1>5, <4>1, <4>2
    <3>3. Charge(b)' = Cardinality(Mailed(b)') + Cardinality(WaitingAt(b))
                       + Cardinality(LeftAt(b)) + Cardinality(Calling(b)')
      BY <1>3, <2>1 DEF Charge
    <3> QED BY <1>1, <1>5, <3>2, <3>3 DEF Charge
  <2> QED BY <2>3, <2>4
<1> QED BY <1>6, <1>7

(* The drain takes bead i of q: it is a call now, or is queued again. *)
LEMMA DrainOneCharge ==
  ASSUME Typed, NEW q \in Seq(Bead), NEW i \in DOMAIN q, NEW n, NEW active,
         NEW queue \in Seq(Bead), NEW count, pc[Drain] = "idle",
         DrainOne(q, i, n, active, queue, count), NEW b \in Bead
  PROVE  LET ahead  == {k \in DOMAIN q : k >= i /\ q[k] = b}
             before == {k \in DOMAIN queue : queue[k] = b}
         IN  /\ Cardinality(WaitingAt(b)') + Cardinality(LeftAt(b)') + Cardinality(Calling(b)')
                  <= Cardinality(ahead) + Cardinality(before) + Cardinality(Calling(b))
             /\ Cardinality(WaitingAt(b)') \in Nat /\ Cardinality(LeftAt(b)') \in Nat
             /\ Cardinality(Calling(b)') \in Nat
<1> DEFINE ahead  == {k \in DOMAIN q : k >= i /\ q[k] = b}
           before == {k \in DOMAIN queue : queue[k] = b}
<1>0. /\ pc \in [Proc -> {"idle", "blocking", "signing"}] /\ bead \in [Proc -> Bead]
      /\ Drain \in Proc /\ TypeOK
  BY ProcOfMayor DEF Typed, TypeOK
<1>q. q[i] \in Bead /\ \A k \in DOMAIN q : k >= i + 1 => k >= i /\ k # i
  OBVIOUS
<1>1. /\ Guards(Drain, q[i], active, queue) /\ bead' = [bead EXCEPT ![Drain] = q[i]]
      /\ batch' = q /\ next' = i + 1
  BY DEF DrainOne
<1>2. \A p \in Proc \ {Drain} : pc'[p] = pc[p] /\ bead'[p] = bead[p]
  <2>1. pc' = pc \/ pc' = [pc EXCEPT ![Drain] = "blocking"] \/ pc' = [pc EXCEPT ![Drain] = "signing"]
    BY <1>1, GuardsEnd
  <2> QED BY <1>0, <1>1, <2>1
<1>3. \/ outageQueue' = queue
      \/ outageQueue' = Append(queue, q[i]) /\ pc' = pc
  BY <1>1, GuardsEnd
<1>4. LeftAt(b)' \subseteq ahead \ {i}
  BY <1>1, <1>q DEF LeftAt
<1>5. /\ IsFiniteSet(ahead) /\ Cardinality(ahead) \in Nat
      /\ IsFiniteSet(before) /\ Cardinality(before) \in Nat
      /\ IsFiniteSet(Calling(b)) /\ Cardinality(Calling(b)) \in Nat
  <2>1. ahead \subseteq DOMAIN q /\ before \subseteq DOMAIN queue
    OBVIOUS
  <2> QED BY <2>1, PlacesFinite, ChargeFinite, FS_CardinalityType
<1>6. CASE q[i] # b
  <2>1. Calling(b)' \subseteq Calling(b)
    BY <1>0, <1>1, <1>2, <1>6 DEF Calling
  <2>2. WaitingAt(b)' \subseteq before
    BY <1>q, <1>3, <1>6, AppendedBead DEF WaitingAt
  <2>3. LeftAt(b)' \subseteq ahead
    BY <1>4
  <2> HIDE DEF ahead, before
  <2>4. /\ Cardinality(Calling(b)') <= Cardinality(Calling(b))
        /\ Cardinality(Calling(b)') \in Nat
        /\ Cardinality(WaitingAt(b)') <= Cardinality(before) /\ Cardinality(WaitingAt(b)') \in Nat
        /\ Cardinality(LeftAt(b)') <= Cardinality(ahead) /\ Cardinality(LeftAt(b)') \in Nat
    BY <1>5, <2>1, <2>2, <2>3, NoneAdded
  <2>5. /\ Cardinality(WaitingAt(b)') + Cardinality(LeftAt(b)') + Cardinality(Calling(b)')
             <= Cardinality(ahead) + Cardinality(before) + Cardinality(Calling(b))
        /\ Cardinality(WaitingAt(b)') \in Nat /\ Cardinality(LeftAt(b)') \in Nat
        /\ Cardinality(Calling(b)') \in Nat
    BY <1>5, <2>4
  <2> QED BY <2>5 DEF ahead, before
<1>7. CASE q[i] = b
  <2>0. i \in ahead
    BY <1>7
  <2>1. CASE outageQueue' = queue
    <3>1. WaitingAt(b)' = before /\ Calling(b)' \subseteq Calling(b) \cup {Drain}
      BY <1>2, <2>1 DEF WaitingAt, Calling
    <3> HIDE DEF ahead, before
    <3>2. /\ Cardinality(LeftAt(b)') + Cardinality(Calling(b)')
               <= Cardinality(ahead) + Cardinality(Calling(b))
          /\ Cardinality(LeftAt(b)') \in Nat /\ Cardinality(Calling(b)') \in Nat
      <4>1. /\ Cardinality(LeftAt(b)') + 1 <= Cardinality(ahead)
            /\ Cardinality(LeftAt(b)') \in Nat
        BY <1>4, <1>5, <2>0, OneTaken
      <4>2. /\ Cardinality(Calling(b)') <= Cardinality(Calling(b)) + 1
            /\ Cardinality(Calling(b)') \in Nat
        BY <1>5, <3>1, OneAdded
      <4> QED BY <1>5, <4>1, <4>2
    <3>3. /\ Cardinality(WaitingAt(b)') + Cardinality(LeftAt(b)') + Cardinality(Calling(b)')
               <= Cardinality(ahead) + Cardinality(before) + Cardinality(Calling(b))
          /\ Cardinality(WaitingAt(b)') \in Nat
      BY <1>5, <3>1, <3>2
    <3> QED BY <3>2, <3>3 DEF ahead, before
  <2>2. CASE outageQueue' = Append(queue, q[i]) /\ pc' = pc
    <3>1. /\ WaitingAt(b)' \subseteq before \cup {Len(queue) + 1}
          /\ Calling(b)' \subseteq Calling(b)
      <4>1. WaitingAt(b)' \subseteq before \cup {Len(queue) + 1}
        BY <1>q, <2>2, AppendedBead DEF WaitingAt
      <4>2. Calling(b)' \subseteq Calling(b)
        BY <1>2, <2>2 DEF Calling
      <4> QED BY <4>1, <4>2
    <3> HIDE DEF ahead, before
    <3>2. /\ Cardinality(LeftAt(b)') + Cardinality(WaitingAt(b)')
               <= Cardinality(ahead) + Cardinality(before)
          /\ Cardinality(LeftAt(b)') \in Nat /\ Cardinality(WaitingAt(b)') \in Nat
      <4>1. /\ Cardinality(LeftAt(b)') + 1 <= Cardinality(ahead)
            /\ Cardinality(LeftAt(b)') \in Nat
        BY <1>4, <1>5, <2>0, OneTaken
      <4>2. /\ Cardinality(WaitingAt(b)') <= Cardinality(before) + 1
            /\ Cardinality(WaitingAt(b)') \in Nat
        BY <1>5, <3>1, OneAdded
      <4> QED BY <1>5, <4>1, <4>2
    <3>3. Cardinality(Calling(b)') <= Cardinality(Calling(b)) /\ Cardinality(Calling(b)') \in Nat
      BY <1>5, <3>1, NoneAdded
    <3>4. Cardinality(WaitingAt(b)') + Cardinality(LeftAt(b)') + Cardinality(Calling(b)')
            <= Cardinality(ahead) + Cardinality(before) + Cardinality(Calling(b))
      BY <1>5, <3>2, <3>3
    <3> QED BY <3>2, <3>3, <3>4 DEF ahead, before
  <2> QED BY <1>3, <2>1, <2>2
<1> QED BY <1>6, <1>7

\* The arithmetic of one bead taken off the batch.
LEMMA ChargeSum ==
  ASSUME NEW m \in Nat, NEW w \in Nat, NEW l \in Nat, NEW c \in Nat,
         NEW w1 \in Nat, NEW l1 \in Nat, NEW c1 \in Nat, NEW a \in Nat, NEW f \in Nat,
         w1 + l1 + c1 <= a + f + c, a + f = w + l
  PROVE  m + w1 + l1 + c1 <= m + w + l + c
BY SMT

LEMMA DrainCharge ==
  ASSUME Typed, drainOutageQueue \/ DrainNext, NEW b \in Bead
  PROVE  Charge(b)' <= Charge(b) /\ calls' = calls
<1>0. /\ TypeOK /\ outageQueue \in Seq(Bead) /\ batch \in Seq(Bead)
      /\ <<>> \in Seq(Bead) /\ Drain \in Proc
  BY ProcOfMayor DEF Typed, TypeOK
<1>1. Mailed(b)' = Mailed(b) /\ calls' = calls
  BY DEF drainOutageQueue, DrainNext, DrainOne, busVars, Mailed
<1>2. /\ Cardinality(Mailed(b)) \in Nat /\ Cardinality(WaitingAt(b)) \in Nat
      /\ Cardinality(LeftAt(b)) \in Nat /\ Cardinality(Calling(b)) \in Nat
  BY ChargeFinite
<1>3. ASSUME NEW q \in Seq(Bead), NEW i \in DOMAIN q, NEW n, NEW active,
             NEW queue \in Seq(Bead), NEW count, pc[Drain] = "idle",
             DrainOne(q, i, n, active, queue, count),
             Cardinality({k \in DOMAIN q : k >= i /\ q[k] = b})
               + Cardinality({k \in DOMAIN queue : queue[k] = b})
               = Cardinality(WaitingAt(b)) + Cardinality(LeftAt(b)),
             Cardinality({k \in DOMAIN q : k >= i /\ q[k] = b}) \in Nat,
             Cardinality({k \in DOMAIN queue : queue[k] = b}) \in Nat
      PROVE  Charge(b)' <= Charge(b)
  <2> DEFINE ahead  == {k \in DOMAIN q : k >= i /\ q[k] = b}
             before == {k \in DOMAIN queue : queue[k] = b}
  <2>1. /\ Cardinality(WaitingAt(b)') + Cardinality(LeftAt(b)') + Cardinality(Calling(b)')
             <= Cardinality(ahead) + Cardinality(before) + Cardinality(Calling(b))
        /\ Cardinality(WaitingAt(b)') \in Nat /\ Cardinality(LeftAt(b)') \in Nat
        /\ Cardinality(Calling(b)') \in Nat
    BY <1>3, DrainOneCharge
  <2>2. /\ Cardinality(ahead) + Cardinality(before)
             = Cardinality(WaitingAt(b)) + Cardinality(LeftAt(b))
        /\ Cardinality(ahead) \in Nat /\ Cardinality(before) \in Nat
    BY <1>3
  <2>3. Charge(b)' = Cardinality(Mailed(b)) + Cardinality(WaitingAt(b)')
                     + Cardinality(LeftAt(b)') + Cardinality(Calling(b)')
    BY <1>1 DEF Charge
  <2>4. Charge(b) = Cardinality(Mailed(b)) + Cardinality(WaitingAt(b))
                    + Cardinality(LeftAt(b)) + Cardinality(Calling(b))
    BY DEF Charge
  <2> HIDE DEF ahead, before
  <2>5. Cardinality(Mailed(b)) + Cardinality(WaitingAt(b)') + Cardinality(LeftAt(b)')
             + Cardinality(Calling(b)')
          <= Cardinality(Mailed(b)) + Cardinality(WaitingAt(b)) + Cardinality(LeftAt(b))
             + Cardinality(Calling(b))
    BY <1>2, <2>1, <2>2, ChargeSum
  <2> QED BY <2>3, <2>4, <2>5
<1>4. CASE drainOutageQueue
  <2>1. 1 \in DOMAIN outageQueue
    BY <1>0, <1>4 DEF drainOutageQueue
  <2>2. DrainOne(outageQueue, 1, lastSeq + 1, FALSE, <<>>, 0) /\ next = 0
    BY <1>4 DEF drainOutageQueue
  <2>3. pc[Drain] = "idle" /\ batch = <<>>
    BY <1>0, <2>2 DEF Typed, TypeOK
  <2>4. LeftAt(b) = {} /\ Cardinality({}) = 0
    BY <2>3, FS_EmptySet DEF LeftAt
  <2>q. PICK q \in Seq(Bead) : q = outageQueue
    BY <1>0
  <2>n. PICK n : n = lastSeq + 1
    OBVIOUS
  <2>5. {k \in DOMAIN q : k >= 1 /\ q[k] = b} = WaitingAt(b)
    BY <2>q DEF WaitingAt
  <2>6. {k \in DOMAIN <<>> : (<<>>)[k] = b} = {}
    OBVIOUS
  <2>7. DrainOne(q, 1, n, FALSE, <<>>, 0) /\ 1 \in DOMAIN q
    BY <2>1, <2>2, <2>q, <2>n
  <2>8. Cardinality(WaitingAt(b)) + 0 = Cardinality(WaitingAt(b)) + 0 /\ 0 \in Nat
    OBVIOUS
  <2> QED BY <1>0, <1>1, <1>2, <1>3, <2>3, <2>4, <2>5, <2>6, <2>7, <2>8
<1>5. CASE DrainNext
  <2>1. /\ next \in DOMAIN batch /\ pc[Drain] = "idle"
        /\ DrainOne(batch, next, nextSeq, outageActive, outageQueue, counted)
    BY <1>5 DEF DrainNext
  <2>q. PICK q \in Seq(Bead), queue \in Seq(Bead) : q = batch /\ queue = outageQueue
    BY <1>0
  <2>i. PICK i \in DOMAIN q : i = next
    BY <2>1, <2>q
  <2>n. PICK n, active, count : n = nextSeq /\ active = outageActive /\ count = counted
    OBVIOUS
  <2>2. DrainOne(q, i, n, active, queue, count)
    BY <2>1, <2>q, <2>i, <2>n
  <2>3. /\ {k \in DOMAIN q : k >= i /\ q[k] = b} = LeftAt(b)
        /\ {k \in DOMAIN queue : queue[k] = b} = WaitingAt(b)
    BY <2>q, <2>i DEF LeftAt, WaitingAt
  <2>4. Cardinality(LeftAt(b)) + Cardinality(WaitingAt(b))
          = Cardinality(WaitingAt(b)) + Cardinality(LeftAt(b))
    BY <1>2
  <2> QED BY <1>1, <1>2, <1>3, <2>1, <2>2, <2>3, <2>4
<1> QED BY <1>4, <1>5

LEMMA ChargeStep == ASSUME ChargeInv, [Next]_vars PROVE ChargeInv'
<1>0. Typed /\ calls \in [Bead -> Nat]
  BY DEF ChargeInv, Typed, TypeOK
<1>1. Typed'
  BY <1>0, TypedStep
<1>2. ASSUME NEW b \in Bead PROVE Charge(b)' <= calls'[b]
  <2>0. Charge(b) <= calls[b] /\ Charge(b) \in Nat /\ calls[b] \in Nat
    BY <1>0, ChargeFinite DEF ChargeInv, Charge
  <2>1. ASSUME calls' = calls, Charge(b)' <= Charge(b), Charge(b)' \in Nat
        PROVE  Charge(b)' <= calls'[b]
    BY <2>0, <2>1
  <2>n. Charge(b)' \in Nat
    <3>1. /\ IsFiniteSet(Mailed(b)') /\ IsFiniteSet(WaitingAt(b)')
          /\ IsFiniteSet(LeftAt(b)') /\ IsFiniteSet(Calling(b)')
      <4>1. /\ sent' \in Seq([bead : Bead, by : Proc]) /\ outageQueue' \in Seq(Bead)
            /\ batch' \in Seq(Bead) /\ IsFiniteSet(Busy')
        BY <1>1 DEF Typed, TypeOK
      <4>2. /\ Mailed(b)' \subseteq DOMAIN sent' /\ WaitingAt(b)' \subseteq DOMAIN outageQueue'
            /\ LeftAt(b)' \subseteq DOMAIN batch' /\ Calling(b)' \subseteq Busy'
        BY DEF Mailed, WaitingAt, LeftAt, Calling, Busy
      <4> QED BY <4>1, <4>2, PlacesFinite, FS_Subset
    <3>2. /\ Cardinality(Mailed(b)') \in Nat /\ Cardinality(WaitingAt(b)') \in Nat
          /\ Cardinality(LeftAt(b)') \in Nat /\ Cardinality(Calling(b)') \in Nat
      BY <3>1, FS_CardinalityType
    <3> QED BY <3>2 DEF Charge
  <2>2. ASSUME NEW p \in Proc, Blocked(p) \/ LockTimeout(p) \/ Send(p) \/ SendThrows(p)
        PROVE  Charge(b)' <= calls'[b]
    BY <1>0, <2>1, <2>2, <2>n, EndsCharge
  <2>3. CASE drainOutageQueue \/ DrainNext
    BY <1>0, <2>1, <2>3, <2>n, DrainCharge
  <2>4. CASE \/ \E active \in BOOLEAN : setOutageActive(active)
             \/ (\E i \in inbox : Work(i)) \/ (\E a \in Bead : Report(a)) \/ UNCHANGED vars
    <3>1. UNCHANGED <<sent, outageQueue, batch, next, pc, bead, calls>>
      BY <2>4 DEF setOutageActive, Work, Report, mayorVars, callVars, busVars, vars
    <3>2. /\ Mailed(b)' = Mailed(b) /\ WaitingAt(b)' = WaitingAt(b)
          /\ LeftAt(b)' = LeftAt(b) /\ Calling(b)' = Calling(b)
      BY <3>1 DEF Mailed, WaitingAt, LeftAt, Calling
    <3> QED BY <1>0, <2>1, <3>1, <3>2, ChargeFalls
  <2>5. CASE DrainReturns \/ Restart
    <3>1. /\ UNCHANGED <<sent, bead, calls>> /\ batch' = <<>>
          /\ outageQueue' \in {outageQueue, <<>>}
          /\ \A p \in Proc : pc'[p] = pc[p] \/ pc'[p] = "idle"
      BY <2>5 DEF DrainReturns, Restart, callVars, busVars
    <3>2. /\ Mailed(b)' = Mailed(b) /\ WaitingAt(b)' \subseteq WaitingAt(b)
          /\ LeftAt(b)' \subseteq LeftAt(b) /\ Calling(b)' \subseteq Calling(b)
      BY <3>1 DEF Mailed, WaitingAt, LeftAt, Calling
    <3> QED BY <1>0, <2>1, <3>1, <3>2, ChargeFalls
  <2> QED BY <1>0, <2>0, <2>2, <2>3, <2>4, <2>5, DispatchCharge DEF Next
<1> QED BY <1>1, <1>2 DEF ChargeInv

(* Every call of dispatchBead puts at most one convoy into a mailbox, for  *)
(* any plan, any number of callers, restarts and outages: queueing a bead  *)
(* again after a failed drain never duplicates it (drainOutageQueue).      *)
THEOREM SentAtMostOnce == Spec => []SentOncePerCall
<1>1. Init => ChargeInv
  <2> SUFFICES ASSUME Init, NEW b \in Bead PROVE Charge(b) <= calls[b]
    BY TypedInit DEF ChargeInv
  <2>1. Mailed(b) = {} /\ WaitingAt(b) = {} /\ LeftAt(b) = {} /\ Calling(b) = {} /\ calls[b] = 0
    <3>1. sent = <<>> /\ outageQueue = <<>> /\ batch = <<>>
      BY DEF Init
    <3>2. pc = [p \in Proc |-> "idle"] /\ calls = [x \in Bead |-> 0]
      BY DEF Init
    <3> QED BY <3>1, <3>2 DEF Mailed, WaitingAt, LeftAt, Calling
  <2> QED BY <2>1, FS_EmptySet DEF Charge
<1>2. ChargeInv => SentOncePerCall
  <2> SUFFICES ASSUME ChargeInv, NEW b \in Bead PROVE Cardinality(Mailed(b)) <= calls[b]
    BY DEF SentOncePerCall, Mailed
  <2>1. Typed /\ Charge(b) <= calls[b] /\ calls[b] \in Nat
    BY DEF ChargeInv, Typed, TypeOK
  <2>2. /\ Cardinality(Mailed(b)) \in Nat /\ Cardinality(WaitingAt(b)) \in Nat
        /\ Cardinality(LeftAt(b)) \in Nat /\ Cardinality(Calling(b)) \in Nat
    BY <2>1, ChargeFinite
  <2> QED BY <2>1, <2>2 DEF Charge
<1> QED BY <1>1, <1>2, ChargeStep, PTL DEF Spec

-----------------------------------------------------------------------------
(***************************************************************************)
(* The search for cycles.  It is a recursive function of the marks of the  *)
(* search: what is left to look at, the path, and what is done.  A call    *)
(* looks at one bead more or goes down by one on the path, which gives     *)
(* each state of the search a rank; the function exists, and what it       *)
(* returns is shown, by induction over the ranks.                          *)
(***************************************************************************)

Rank(p, m) ==
  Cardinality(DOMAIN p \ m.grey) * (Cardinality(DOMAIN p) + 1) + Cardinality(m.ids)

Below(p, n) == {m \in Marks(p) : Rank(p, m) < n}

Found(p) == [cycle : BOOLEAN, black : SUBSET DOMAIN p]

Chosen(m) == CHOOSE i \in m.ids : TRUE
Down(p, m) == [ids |-> p[Chosen(m)] \cap DOMAIN p, grey |-> m.grey \cup {Chosen(m)},
               black |-> m.black]
Others(m, black) == [ids |-> m.ids \ {Chosen(m)}, grey |-> m.grey, black |-> black]

(* Induction over the naturals. *)
LEMMA Induction ==
  ASSUME NEW S, 0 \in S, \A n \in Nat : n \in S => n + 1 \in S
  PROVE  \A n \in Nat : n \in S
<1> DEFINE R == {ss \in Nat \X Nat : ss[1] < ss[2]}
           T == {n \in Nat : n \notin S}
<1>1. IsWellFoundedOn(R, Nat)
  BY NatLessThanWellFounded DEF OpToRel
<1>2. \A x, y \in Nat : <<x, y>> \in R <=> x < y
  OBVIOUS
<1> HIDE DEF R
<1> SUFFICES ASSUME T # {} PROVE FALSE
  OBVIOUS
<1>3. T \subseteq Nat
  OBVIOUS
<1>4. PICK m \in T : \A n \in T : ~ (<<n, m>> \in R)
  <2> HIDE DEF T
  <2> QED BY <1>1, <1>3, WFMin
<1>5. m \in Nat /\ m # 0 /\ m \notin S
  OBVIOUS
<1>6. m - 1 \in Nat /\ m - 1 < m
  BY <1>5
<1>7. m - 1 \in S
  BY <1>2, <1>4, <1>5, <1>6
<1>8. (m - 1) + 1 \in S
  BY <1>6, <1>7
<1> QED BY <1>5, <1>8

(* A rank is a natural number, and there is a highest one.                 *)
LEMMA RankType ==
  ASSUME NEW p, IsFiniteSet(DOMAIN p), NEW m \in Marks(p)
  PROVE  /\ Rank(p, m) \in Nat
         /\ Rank(p, m) <= Cardinality(DOMAIN p) * (Cardinality(DOMAIN p) + 1)
                          + Cardinality(DOMAIN p)
<1>1. m.ids \subseteq DOMAIN p /\ DOMAIN p \ m.grey \subseteq DOMAIN p
  BY DEF Marks
<1>2. /\ Cardinality(DOMAIN p) \in Nat
      /\ Cardinality(m.ids) \in Nat /\ Cardinality(m.ids) <= Cardinality(DOMAIN p)
      /\ Cardinality(DOMAIN p \ m.grey) \in Nat
      /\ Cardinality(DOMAIN p \ m.grey) <= Cardinality(DOMAIN p)
  BY <1>1, FS_Subset, FS_CardinalityType
<1>3. ASSUME NEW a \in Nat, NEW b \in Nat, NEW c \in Nat, a <= c, b <= c
      PROVE  a * (c + 1) + b \in Nat /\ a * (c + 1) + b <= c * (c + 1) + c
  <2>1. a * (c + 1) \in Nat /\ a * (c + 1) <= c * (c + 1)
    BY <1>3
  <2>2. c * (c + 1) \in Nat
    BY <1>3
  <2> QED BY <1>3, <2>1, <2>2
<1> QED BY <1>2, <1>3 DEF Rank

(* A state of the search that is not at its end calls lower ones.          *)
LEMMA RankFalls ==
  ASSUME NEW p, IsFiniteSet(DOMAIN p), NEW m \in Marks(p), m.ids # {}
  PROVE  /\ Chosen(m) \in m.ids
         /\ Chosen(m) \notin m.grey =>
              Down(p, m) \in Marks(p) /\ Rank(p, Down(p, m)) < Rank(p, m)
         /\ \A black \in SUBSET DOMAIN p :
              Others(m, black) \in Marks(p) /\ Rank(p, Others(m, black)) < Rank(p, m)
<1> DEFINE id == Chosen(m)
<1>1. id \in m.ids
  BY DEF Chosen
<1>2. /\ m.ids \subseteq DOMAIN p /\ m.grey \subseteq DOMAIN p /\ m.black \subseteq DOMAIN p
      /\ IsFiniteSet(m.ids) /\ IsFiniteSet(DOMAIN p \ m.grey)
  BY FS_Subset DEF Marks
<1> HIDE DEF id
<1>3. ASSUME id \notin m.grey
      PROVE  Down(p, m) \in Marks(p) /\ Rank(p, Down(p, m)) < Rank(p, m)
  <2>1. Down(p, m) = [ids |-> p[id] \cap DOMAIN p, grey |-> m.grey \cup {id}, black |-> m.black]
    BY DEF Down, id
  <2>2. Down(p, m) \in Marks(p)
    BY <1>1, <1>2, <2>1 DEF Marks
  <2>3. /\ Down(p, m).ids \subseteq DOMAIN p
        /\ DOMAIN p \ Down(p, m).grey = (DOMAIN p \ m.grey) \ {id}
        /\ id \in DOMAIN p \ m.grey
    BY <1>1, <1>2, <1>3, <2>1
  <2>4. /\ Cardinality(Down(p, m).ids) \in Nat /\ Cardinality(DOMAIN p) \in Nat
        /\ Cardinality(Down(p, m).ids) <= Cardinality(DOMAIN p)
    BY <2>3, FS_Subset, FS_CardinalityType
  <2>5. /\ Cardinality(DOMAIN p \ Down(p, m).grey) = Cardinality(DOMAIN p \ m.grey) - 1
        /\ Cardinality(DOMAIN p \ m.grey) \in Nat
        /\ Cardinality(DOMAIN p \ m.grey) >= 1
    <3> DEFINE white == DOMAIN p \ m.grey
    <3>1. IsFiniteSet(white) /\ id \in white
      BY <1>2, <2>3
    <3>2. IsFiniteSet(white \ {id})
      BY <3>1, FS_Subset
    <3>3. /\ Cardinality(white \ {id}) = Cardinality(white) - 1
          /\ Cardinality(white) \in Nat /\ Cardinality(white \ {id}) \in Nat
      BY <3>1, <3>2, FS_RemoveElement, FS_CardinalityType
    <3>4. DOMAIN p \ Down(p, m).grey = white \ {id}
      BY <2>3
    <3> HIDE DEF white
    <3>5. Cardinality(white) >= 1
      BY <3>3
    <3> QED BY <3>3, <3>4, <3>5 DEF white
  <2>6. ASSUME NEW a \in Nat, NEW b \in Nat, NEW c \in Nat, NEW d \in Nat, a >= 1, b <= c
        PROVE  (a - 1) * (c + 1) + b < a * (c + 1) + d
    <3>1. (a - 1) * (c + 1) = a * (c + 1) - (c + 1) /\ a * (c + 1) \in Int
      BY <2>6
    <3> QED BY <2>6, <3>1
  <2>7. Cardinality(m.ids) \in Nat
    BY <1>2, FS_CardinalityType
  <2> QED BY <2>2, <2>4, <2>5, <2>6, <2>7 DEF Rank
<1>4. ASSUME NEW black \in SUBSET DOMAIN p
      PROVE  Others(m, black) \in Marks(p) /\ Rank(p, Others(m, black)) < Rank(p, m)
  <2>1. Others(m, black) = [ids |-> m.ids \ {id}, grey |-> m.grey, black |-> black]
    BY DEF Others, id
  <2>2. Others(m, black) \in Marks(p)
    BY <1>2, <2>1 DEF Marks
  <2>3. /\ Cardinality(m.ids \ {id}) = Cardinality(m.ids) - 1 /\ Cardinality(m.ids) \in Nat
    BY <1>1, <1>2, FS_RemoveElement, FS_CardinalityType
  <2>4. Cardinality(DOMAIN p \ m.grey) * (Cardinality(DOMAIN p) + 1) \in Int
    <3>1. Cardinality(DOMAIN p \ m.grey) \in Nat /\ Cardinality(DOMAIN p) \in Nat
      BY <1>2, FS_CardinalityType
    <3> QED BY <3>1
  <2>5. Rank(p, Others(m, black)) =
          Cardinality(DOMAIN p \ m.grey) * (Cardinality(DOMAIN p) + 1) + Cardinality(m.ids \ {id})
    BY <2>1 DEF Rank
  <2> QED BY <2>2, <2>3, <2>4, <2>5 DEF Rank
<1> QED BY <1>1, <1>3, <1>4 DEF id

(* The cases of a look, with what the calls it makes return.               *)
LEMMA LookCases ==
  ASSUME NEW p, NEW f, NEW m \in Marks(p), m.ids # {}
  PROVE  LET below == f[Down(p, m)]
         IN  Look(p, f, m) =
               IF Chosen(m) \in m.grey THEN [cycle |-> TRUE, black |-> m.black]
               ELSE IF Chosen(m) \in m.black THEN f[Others(m, m.black)]
               ELSE IF below.cycle THEN below
               ELSE f[Others(m, below.black \cup {Chosen(m)})]
BY DEF Look, Down, Others, Chosen

(* A look depends on lower states only, and returns what has its type.     *)
LEMMA LookAgrees ==
  ASSUME NEW p, IsFiniteSet(DOMAIN p), NEW m \in Marks(p), NEW f, NEW g,
         \A k \in Marks(p) : Rank(p, k) < Rank(p, m) => f[k] = g[k] /\ f[k] \in Found(p)
  PROVE  Look(p, f, m) = Look(p, g, m) /\ Look(p, f, m) \in Found(p)
<1>1. m.black \in SUBSET DOMAIN p
  BY DEF Marks
<1>2. CASE m.ids = {}
  BY <1>1, <1>2 DEF Look, Found
<1>3. CASE m.ids # {}
  <2> DEFINE id == Chosen(m)
             below == f[Down(p, m)]
  <2>1. id \in m.ids /\ m.ids \subseteq DOMAIN p
    BY <1>3, RankFalls DEF Marks
  <2>2. id \notin m.grey => below = g[Down(p, m)] /\ below \in Found(p)
    BY <1>3, RankFalls
  <2>3. \A black \in SUBSET DOMAIN p :
          f[Others(m, black)] = g[Others(m, black)] /\ f[Others(m, black)] \in Found(p)
    BY <1>3, RankFalls
  <2>4. id \notin m.grey => below.black \cup {id} \in SUBSET DOMAIN p
    BY <2>1, <2>2 DEF Found
  <2>5. [cycle |-> TRUE, black |-> m.black] \in Found(p)
    BY <1>1 DEF Found
  <2>6. Look(p, f, m) = IF id \in m.grey THEN [cycle |-> TRUE, black |-> m.black]
               ELSE IF id \in m.black THEN f[Others(m, m.black)]
               ELSE IF below.cycle THEN below
               ELSE f[Others(m, below.black \cup {id})]
    BY <1>3, LookCases
  <2>7. Look(p, g, m) = IF id \in m.grey THEN [cycle |-> TRUE, black |-> m.black]
               ELSE IF id \in m.black THEN g[Others(m, m.black)]
               ELSE IF g[Down(p, m)].cycle THEN g[Down(p, m)]
               ELSE g[Others(m, g[Down(p, m)].black \cup {id})]
    BY <1>3, LookCases
  <2> HIDE DEF id, below
  <2> QED BY <1>1, <2>2, <2>3, <2>4, <2>5, <2>6, <2>7
<1> QED BY <1>2, <1>3

(* The search exists: on the lower states first, and each state calls      *)
(* lower ones only.                                                        *)
LEMMA SearchExists ==
  ASSUME NEW p, IsFiniteSet(DOMAIN p)
  PROVE  \E dfs : dfs = [m \in Marks(p) |-> Look(p, dfs, m)]
<1> DEFINE Seen(f, m) == Look(p, f, m)
           Part(f, n) == /\ f = [m \in Below(p, n) |-> Seen(f, m)]
                         /\ \A m \in Below(p, n) : f[m] \in Found(p)
           S == {n \in Nat : \E f : Part(f, n)}
<1>1. \A m \in Marks(p) : Rank(p, m) \in Nat
  BY RankType
<1>2. 0 \in S
  <2>1. Below(p, 0) = {}
    BY <1>1 DEF Below
  <2> DEFINE f == [m \in {} |-> 0]
  <2> HIDE DEF Seen
  <2>2. f = [m \in {} |-> Seen(f, m)]
    OBVIOUS
  <2> HIDE DEF f
  <2>3. Part(f, 0)
    BY <2>1, <2>2
  <2> QED BY <2>3
<1>3. ASSUME NEW n \in Nat, n \in S PROVE n + 1 \in S
  <2>1. PICK f : Part(f, n)
    BY <1>3
  <2> HIDE DEF Seen
  <2> DEFINE g == [m \in Below(p, n + 1) |-> IF m \in Below(p, n) THEN f[m] ELSE Seen(f, m)]
  <2>2. Below(p, n) \subseteq Below(p, n + 1)
    BY <1>1 DEF Below
  <2>3. \A m \in Below(p, n) : g[m] = f[m] /\ f[m] = Seen(f, m) /\ f[m] \in Found(p)
    BY <2>1, <2>2
  <2>4. \A m \in Below(p, n + 1) \ Below(p, n) : g[m] = Seen(f, m)
    OBVIOUS
  <2> HIDE DEF g
  <2>5. ASSUME NEW m \in Below(p, n + 1)
        PROVE  Seen(f, m) = Seen(g, m) /\ Seen(f, m) \in Found(p)
    <3>1. m \in Marks(p) /\ \A k \in Marks(p) : Rank(p, k) < Rank(p, m) => k \in Below(p, n)
      BY <1>1 DEF Below
    <3>2. \A k \in Marks(p) : Rank(p, k) < Rank(p, m) => f[k] = g[k] /\ f[k] \in Found(p)
      BY <2>3, <3>1
    <3> QED BY <3>1, <3>2, LookAgrees DEF Seen
  <2>6. \A m \in Below(p, n + 1) : g[m] = Seen(g, m) /\ g[m] \in Found(p)
    BY <2>3, <2>4, <2>5
  <2>7. g = [m \in Below(p, n + 1) |-> Seen(g, m)]
    BY <2>6 DEF g
  <2> QED BY <2>6, <2>7
<1> DEFINE c == Cardinality(DOMAIN p)
           top == c * (c + 1) + c + 1
<1>4. top \in Nat /\ Below(p, top) = Marks(p)
  <2>1. c \in Nat
    BY FS_CardinalityType
  <2>2. c * (c + 1) + c \in Nat
    BY <2>1
  <2> QED BY <1>1, <2>2, RankType DEF Below
<1> HIDE DEF S, top
<1>5. top \in S
  BY <1>2, <1>3, <1>4, Induction
<1> QED BY <1>4, <1>5 DEF S

(* What detectCycles returns is what a function says that looks.           *)
LEMMA DetectIsSearch ==
  ASSUME NEW p, IsFiniteSet(DOMAIN p)
  PROVE  \E dfs : /\ \A m \in Marks(p) : dfs[m] = Look(p, dfs, m)
                  /\ detectCycles(p) = dfs[[ids |-> DOMAIN p, grey |-> {}, black |-> {}]].cycle
<1> DEFINE Searches(f) == f = [m \in Marks(p) |-> Look(p, f, m)]
           dfs == CHOOSE f : Searches(f)
<1>1. Searches(dfs)
  <2> HIDE DEF Searches
  <2>1. \E f : Searches(f)
    BY SearchExists DEF Searches
  <2> QED BY <2>1
<1>2. detectCycles(p) = dfs[[ids |-> DOMAIN p, grey |-> {}, black |-> {}]].cycle
  BY DEF detectCycles
<1> HIDE DEF dfs
<1>3. ASSUME NEW m \in Marks(p) PROVE dfs[m] = Look(p, dfs, m)
  <2> DEFINE Seen(k) == Look(p, dfs, k)
  <2>1. dfs = [k \in Marks(p) |-> Seen(k)]
    BY <1>1
  <2> HIDE DEF Seen
  <2>2. dfs[m] = Seen(m)
    BY <2>1
  <2> QED BY <2>2 DEF Seen
<1> QED BY <1>2, <1>3

(* Beads whose needs are among them and that close no cycle.               *)
Done(p, black) ==
  /\ \A b \in black : p[b] \cap DOMAIN p \subseteq black
  /\ \A S \in SUBSET black : S # {} => \E b \in S : p[b] \cap S = {}

(* The search comes from a state in which what is done is done.            *)
Orderly(p, m) == Done(p, m.black) /\ m.black \cap m.grey = {}

(* Each bead of the path leads to each bead that is to be looked at: from  *)
(* it on every one needs another one or that bead.                         *)
Linked(p, m) ==
  \A x \in m.grey, u \in m.ids :
    \E S \in SUBSET DOMAIN p : x \in S /\ \A s \in S : p[s] \cap S # {} \/ u \in p[s]

(* What a search of m that ends with r has shown.                          *)
Right(p, m, r) ==
  /\ r \in Found(p)
  /\ Orderly(p, m) /\ ~r.cycle =>
       m.black \cup m.ids \subseteq r.black /\ r.black \cap m.grey = {} /\ Done(p, r.black)
  /\ Acyclic(p) /\ Linked(p, m) => ~r.cycle

(* A bead is done when its needs are.                                      *)
LEMMA DoneNext ==
  ASSUME NEW p, NEW black \in SUBSET DOMAIN p, Done(p, black), NEW id \in DOMAIN p,
         id \notin black, p[id] \cap DOMAIN p \subseteq black
  PROVE  Done(p, black \cup {id})
<1>1. \A b \in black \cup {id} : p[b] \cap DOMAIN p \subseteq black
  BY DEF Done
<1>2. ASSUME NEW S \in SUBSET (black \cup {id}), S # {}
      PROVE  \E b \in S : p[b] \cap S = {}
  <2>1. CASE S \ {id} = {}
    <3>1. S = {id}
      BY <1>2, <2>1
    <3>2. id \notin p[id]
      BY <1>1
    <3> QED BY <3>1, <3>2
  <2>2. CASE S \ {id} # {}
    <3>1. S \ {id} \in SUBSET black
      BY <1>2
    <3>2. PICK b \in S \ {id} : p[b] \cap (S \ {id}) = {}
      BY <2>2, <3>1 DEF Done
    <3>3. id \notin p[b]
      BY <1>1, <3>1
    <3> QED BY <3>2, <3>3
  <2> QED BY <2>1, <2>2
<1> QED BY <1>1, <1>2 DEF Done

(* Going down, the path still leads to what is looked at.                  *)
LEMMA LinkedDown ==
  ASSUME NEW p, NEW m \in Marks(p), m.ids # {}, Linked(p, m)
  PROVE  Linked(p, Down(p, m)) /\ \A black : Linked(p, Others(m, black))
<1> DEFINE id == Chosen(m)
<1>1. id \in m.ids /\ m.ids \subseteq DOMAIN p
  BY DEF Chosen, Marks
<1> HIDE DEF id
<1>2. /\ Down(p, m).ids = p[id] \cap DOMAIN p
      /\ Down(p, m).grey = m.grey \cup {id}
  BY DEF Down, id
<1>3. \A black : Others(m, black).ids = m.ids \ {id} /\ Others(m, black).grey = m.grey
  BY DEF Others, id
<1>4. ASSUME NEW x \in m.grey \cup {id}, NEW u \in p[id] \cap DOMAIN p
      PROVE  \E S \in SUBSET DOMAIN p : x \in S /\ \A s \in S : p[s] \cap S # {} \/ u \in p[s]
  <2>1. CASE x = id
    <3>1. {id} \in SUBSET DOMAIN p /\ x \in {id} /\ \A s \in {id} : u \in p[s]
      BY <1>1, <1>4, <2>1
    <3> QED BY <3>1
  <2>2. CASE x \in m.grey
    <3>1. PICK S \in SUBSET DOMAIN p :
            x \in S /\ \A s \in S : p[s] \cap S # {} \/ id \in p[s]
      BY <1>1, <2>2 DEF Linked
    <3> DEFINE T == S \cup {id}
    <3>2. T \in SUBSET DOMAIN p /\ x \in T
      BY <1>1, <3>1
    <3>3. \A s \in T : p[s] \cap T # {} \/ u \in p[s]
      BY <1>4, <3>1
    <3> QED BY <3>2, <3>3
  <2> QED BY <1>4, <2>1, <2>2
<1>5. Linked(p, Down(p, m))
  BY <1>2, <1>4 DEF Linked
<1> QED BY <1>3, <1>5 DEF Linked

(* One look is right when all lower ones are.                              *)
LEMMA LookIsRight ==
  ASSUME NEW p, IsFiniteSet(DOMAIN p), NEW dfs, NEW m \in Marks(p),
         \A k \in Marks(p) : Rank(p, k) < Rank(p, m) => Right(p, k, dfs[k])
  PROVE  Right(p, m, Look(p, dfs, m))
<1>1. /\ m.ids \subseteq DOMAIN p /\ m.grey \subseteq DOMAIN p /\ m.black \subseteq DOMAIN p
  BY DEF Marks
<1>2. Look(p, dfs, m) \in Found(p)
  BY LookAgrees DEF Right
<1>3. CASE m.ids = {}
  <2>1. Look(p, dfs, m) = [cycle |-> FALSE, black |-> m.black]
    BY <1>3 DEF Look
  <2> QED BY <1>2, <1>3, <2>1 DEF Right, Orderly
<1>4. CASE m.ids # {}
  <2> DEFINE id == Chosen(m)
             down == Down(p, m)
             below == dfs[down]
             rest(black) == Others(m, black)
  <2>1. id \in m.ids /\ id \in DOMAIN p
    BY <1>1, <1>4, RankFalls
  <2>2. /\ down.ids = p[id] \cap DOMAIN p /\ down.grey = m.grey \cup {id}
        /\ down.black = m.black
    BY DEF Down
  <2>3. \A black : /\ rest(black).ids = m.ids \ {id} /\ rest(black).grey = m.grey
                   /\ rest(black).black = black
    BY DEF Others
  <2>4. id \notin m.grey => Right(p, down, below)
    BY <1>4, RankFalls
  <2>5. \A black \in SUBSET DOMAIN p : Right(p, rest(black), dfs[rest(black)])
    BY <1>4, RankFalls
  <2>6. Linked(p, m) => Linked(p, down) /\ \A black : Linked(p, rest(black))
    BY <1>4, LinkedDown
  <2>7. Look(p, dfs, m) = IF id \in m.grey THEN [cycle |-> TRUE, black |-> m.black]
               ELSE IF id \in m.black THEN dfs[rest(m.black)]
               ELSE IF below.cycle THEN below
               ELSE dfs[rest(below.black \cup {id})]
    BY <1>4, LookCases
  <2> HIDE DEF id, down, below, rest
  <2>8. CASE id \in m.grey
    <3>1. Look(p, dfs, m).cycle
      BY <2>7, <2>8
    <3>2. ~(Acyclic(p) /\ Linked(p, m))
      <4> SUFFICES ASSUME Acyclic(p), Linked(p, m) PROVE FALSE
        OBVIOUS
      <4>1. PICK S \in SUBSET DOMAIN p : id \in S /\ \A s \in S : p[s] \cap S # {} \/ id \in p[s]
        BY <2>1, <2>8 DEF Linked
      <4>2. \A s \in S : p[s] \cap S # {}
        BY <4>1
      <4> QED BY <4>1, <4>2 DEF Acyclic
    <3> QED BY <1>2, <3>1, <3>2 DEF Right
  <2>9. CASE id \notin m.grey /\ id \in m.black
    <3>1. Look(p, dfs, m) = dfs[rest(m.black)]
      BY <2>7, <2>9
    <3>2. Right(p, rest(m.black), dfs[rest(m.black)])
      BY <1>1, <2>5
    <3>3. Orderly(p, m) => Orderly(p, rest(m.black))
      BY <2>3 DEF Orderly
    <3> QED BY <1>2, <2>1, <2>3, <2>6, <2>9, <3>1, <3>2, <3>3 DEF Right
  <2>10. CASE id \notin m.grey /\ id \notin m.black /\ below.cycle
    <3>1. Look(p, dfs, m) = below
      BY <2>7, <2>10
    <3> QED BY <1>2, <2>4, <2>6, <2>10, <3>1 DEF Right
  <2>11. CASE id \notin m.grey /\ id \notin m.black /\ ~below.cycle
    <3> DEFINE black == below.black \cup {id}
    <3>1. Look(p, dfs, m) = dfs[rest(black)]
      BY <2>7, <2>11
    <3>2. black \in SUBSET DOMAIN p
      BY <2>1, <2>4, <2>11 DEF Right, Found
    <3>3. Right(p, rest(black), dfs[rest(black)])
      BY <2>5, <3>2
    <3>4. ASSUME Orderly(p, m)
          PROVE  Orderly(p, rest(black)) /\ m.black \subseteq black
      <4>1. Orderly(p, down)
        BY <2>2, <2>11, <3>4 DEF Orderly
      <4>2. /\ m.black \cup (p[id] \cap DOMAIN p) \subseteq below.black
            /\ below.black \cap (m.grey \cup {id}) = {} /\ Done(p, below.black)
        BY <2>2, <2>4, <2>11, <4>1 DEF Right
      <4>3. Done(p, black)
        BY <2>1, <3>2, <4>2, DoneNext
      <4> QED BY <2>3, <2>11, <4>2, <4>3 DEF Orderly
    <3> HIDE DEF black
    <3>5. id \in black
      BY DEF black
    <3> QED BY <1>2, <2>3, <2>6, <3>1, <3>3, <3>4, <3>5 DEF Right
  <2> QED BY <2>8, <2>9, <2>10, <2>11
<1> QED BY <1>3, <1>4

(* The search for cycles finds one exactly where there is one, whatever    *)
(* the needs are, beads that need themselves and needs outside the list    *)
(* included (tools.ts:189-214): beads none of which can come first.        *)
THEOREM CyclesAreFound ==
  ASSUME NEW p, IsFiniteSet(DOMAIN p)
  PROVE  detectCycles(p) <=> ~Acyclic(p)
<1>1. PICK dfs : /\ \A m \in Marks(p) : dfs[m] = Look(p, dfs, m)
                 /\ detectCycles(p) = dfs[[ids |-> DOMAIN p, grey |-> {}, black |-> {}]].cycle
  BY DetectIsSearch
<1> DEFINE S == {n \in Nat : \A m \in Below(p, n) : Right(p, m, dfs[m])}
<1>2. \A m \in Marks(p) : Rank(p, m) \in Nat
  BY RankType
<1>3. 0 \in S
  BY <1>2 DEF Below
<1>4. ASSUME NEW n \in Nat, n \in S PROVE n + 1 \in S
  <2> SUFFICES ASSUME NEW m \in Below(p, n + 1) PROVE Right(p, m, dfs[m])
    OBVIOUS
  <2>1. m \in Marks(p) /\ \A k \in Marks(p) : Rank(p, k) < Rank(p, m) => k \in Below(p, n)
    BY <1>2 DEF Below
  <2>2. \A k \in Marks(p) : Rank(p, k) < Rank(p, m) => Right(p, k, dfs[k])
    BY <1>4, <2>1
  <2> QED BY <1>1, <2>1, <2>2, LookIsRight
<1> DEFINE all == [ids |-> DOMAIN p, grey |-> {}, black |-> {}]
<1>5. all \in Marks(p)
  BY DEF Marks
<1>6. \A n \in Nat : n \in S
  <2> HIDE DEF S
  <2> QED BY <1>3, <1>4, Induction
<1>7. Right(p, all, dfs[all])
  <2>1. Rank(p, all) + 1 \in Nat /\ all \in Below(p, Rank(p, all) + 1)
    BY <1>2, <1>5 DEF Below
  <2> QED BY <1>6, <2>1
<1>8. Orderly(p, all) /\ Linked(p, all)
  BY DEF Orderly, Done, Linked
<1>9. ASSUME ~dfs[all].cycle PROVE Acyclic(p)
  <2>1. DOMAIN p \subseteq dfs[all].black /\ Done(p, dfs[all].black)
    BY <1>7, <1>8, <1>9 DEF Right
  <2> QED BY <2>1 DEF Done, Acyclic
<1>10. detectCycles(p) = dfs[all].cycle
  BY <1>1
<1>11. detectCycles(p) \in BOOLEAN
  BY <1>7, <1>10 DEF Right, Found
<1> QED BY <1>7, <1>8, <1>9, <1>10, <1>11 DEF Right

-----------------------------------------------------------------------------
(***************************************************************************)
(* The coordinator's sort and dispatch.  Each is a loop: a recursive       *)
(* function of the number of rounds, of which one lemma says that it       *)
(* exists.  An invariant of the loop, by induction over the rounds, says   *)
(* what the function returns.                                              *)
(***************************************************************************)

(* f gives the values of a loop of N rounds over V.                        *)
Loops(f, N, V, first, more) ==
  /\ f \in [0..N -> V] /\ f[0] = first
  /\ \A i \in 1..N : f[i] = more[<<i, f[i - 1]>>]

(* Every loop exists.                                                      *)
LEMMA LoopExists ==
  ASSUME NEW N \in Nat, NEW V, NEW first \in V, NEW more \in [(1..N) \X V -> V]
  PROVE  \E f : Loops(f, N, V, first, more)
<1> DEFINE Part(f, n) == /\ f \in [0..n -> V] /\ f[0] = first
                         /\ \A i \in 1..n : f[i] = more[<<i, f[i - 1]>>]
           S == {n \in Nat : n <= N => \E f : Part(f, n)}
<1>1. 0 \in S
  <2> DEFINE f == [i \in 0..0 |-> first]
  <2>1. Part(f, 0)
    OBVIOUS
  <2> HIDE DEF Part
  <2> QED BY <2>1
<1>2. ASSUME NEW n \in Nat, n \in S PROVE n + 1 \in S
  <2> SUFFICES ASSUME n + 1 <= N PROVE \E f : Part(f, n + 1)
    OBVIOUS
  <2>1. PICK f : Part(f, n)
    BY <1>2
  <2>2. f[n] \in V /\ <<n + 1, f[n]>> \in (1..N) \X V
    BY <2>1
  <2> DEFINE g == [i \in 0 .. n + 1 |-> IF i = n + 1 THEN more[<<n + 1, f[n]>>] ELSE f[i]]
  <2>3. more[<<n + 1, f[n]>>] \in V
    BY <2>2
  <2>4. g \in [0 .. n + 1 -> V] /\ g[n + 1] = more[<<n + 1, f[n]>>]
    BY <2>1, <2>3
  <2>5. \A i \in 0..n : g[i] = f[i]
    OBVIOUS
  <2> HIDE DEF g
  <2>6. ASSUME NEW i \in 1 .. n + 1 PROVE g[i] = more[<<i, g[i - 1]>>]
    <3>1. CASE i = n + 1
      BY <2>4, <2>5, <3>1
    <3>2. CASE i # n + 1
      <4>1. i \in 1..n /\ i \in 0..n /\ i - 1 \in 0..n
        BY <3>2
      <4> QED BY <2>1, <2>5, <4>1
    <3> QED BY <3>1, <3>2
  <2>7. Part(g, n + 1)
    BY <2>1, <2>4, <2>5, <2>6
  <2> HIDE DEF Part
  <2> QED BY <2>7
<1> HIDE DEF S
<1>3. N \in S
  BY <1>1, <1>2, Induction
<1> QED BY <1>3 DEF S, Loops

(* InOrder, bead by bead. *)
Keeps(kept, beads, S) ==
  /\ InOrder(beads, S) = kept[Len(beads)] /\ kept[0] = <<>>
  /\ \A i \in 1..Len(beads) :
       kept[i] = IF beads[i] \in S THEN Append(kept[i - 1], beads[i]) ELSE kept[i - 1]

LEMMA KeptByBead ==
  ASSUME NEW D, NEW beads \in Seq(D), NEW S
  PROVE  \E kept : Keeps(kept, beads, S)
<1> DEFINE N == Len(beads)
           Keep(i, v) == IF beads[i] \in S THEN Append(v, beads[i]) ELSE v
           Keeping(f) == f = [i \in 0..Len(beads) |->
             IF i = 0 THEN <<>>
             ELSE IF beads[i] \in S THEN Append(f[i - 1], beads[i]) ELSE f[i - 1]]
           more == [x \in (1..N) \X Seq(D) |-> Keep(x[1], x[2])]
<1>1. N \in Nat /\ \A i \in 1..N : beads[i] \in D
  OBVIOUS
<1>2. \A x \in (1..N) \X Seq(D) : Keep(x[1], x[2]) \in Seq(D)
  BY <1>1
<1>3. <<>> \in Seq(D)
  OBVIOUS
<1>4. more \in [(1..N) \X Seq(D) -> Seq(D)]
  BY <1>2
<1>5. \A i \in 1..N, v \in Seq(D) : more[<<i, v>>] = Keep(i, v)
  OBVIOUS
<1> DEFINE V == Seq(D)
<1> HIDE DEF more, N, V
<1>6. PICK f : Loops(f, N, V, <<>>, more)
  <2>1. N \in Nat /\ <<>> \in V /\ more \in [(1..N) \X V -> V]
    BY <1>1, <1>3, <1>4 DEF V
  <2> QED BY <2>1, LoopExists
<1>7. \A i \in 1..N : i - 1 \in 0..N /\ f[i - 1] \in Seq(D)
  BY <1>1, <1>6 DEF V, Loops
<1>8. \A i \in 1..N : f[i] = Keep(i, f[i - 1])
  BY <1>5, <1>6, <1>7 DEF Loops
<1>9. Keeping(f)
  <2> USE DEF N
  <2> DEFINE E(i) == IF i = 0 THEN <<>>
             ELSE IF beads[i] \in S THEN Append(f[i - 1], beads[i]) ELSE f[i - 1]
  <2>1. \A i \in 0..N : f[i] = E(i)
    <3>1. \A i \in 0..N : i = 0 \/ i \in 1..N
      BY <1>1
    <3> QED BY <1>6, <1>8, <3>1 DEF Loops
  <2> HIDE DEF E
  <2>2. f = [i \in 0..N |-> E(i)]
    BY <1>6, <2>1 DEF Loops
  <2> QED BY <2>2 DEF E
<1> DEFINE kept == CHOOSE k : Keeping(k)
<1>10. Keeping(kept)
  <2> HIDE DEF Keeping
  <2> QED BY <1>9
<1>11. InOrder(beads, S) = kept[Len(beads)]
  BY DEF InOrder
<1> HIDE DEF kept
<1> USE DEF N
<1>12. kept[0] = <<>> /\ \A i \in 1..N : kept[i] = Keep(i, kept[i - 1])
  <2> DEFINE E(i) == IF i = 0 THEN <<>>
             ELSE IF beads[i] \in S THEN Append(kept[i - 1], beads[i]) ELSE kept[i - 1]
  <2>1. kept = [i \in 0..N |-> E(i)]
    BY <1>10
  <2> HIDE DEF E
  <2>2. \A i \in 0..N : kept[i] = E(i)
    BY <2>1
  <2> QED BY <1>1, <2>2 DEF E
<1> QED BY <1>11, <1>12 DEF Keeps

(* The list restricted to S: no bead twice, if the list has none twice.    *)
LEMMA InOrderIs ==
  ASSUME NEW D, NEW beads \in Seq(D), IsInjective(beads), NEW S
  PROVE  /\ InOrder(beads, S) \in Seq(D) /\ IsInjective(InOrder(beads, S))
         /\ \A x : Contains(InOrder(beads, S), x) <=> x \in S /\ Contains(beads, x)
<1> DEFINE N == Len(beads)
           inList(x, s) == \E i \in 1..Len(s) : s[i] = x
           Good(v, n) == /\ v \in Seq(D) /\ IsInjective(v)
                         /\ \A x : inList(x, v) <=> x \in S /\ \E i \in 1..n : beads[i] = x
<1>1. PICK kept : Keeps(kept, beads, S)
  BY KeptByBead
<1> DEFINE R == {n \in Nat : n <= N => Good(kept[n], n)}
<1>2. 0 \in R
  <2>1. <<>> \in Seq(D) /\ IsInjective(<<>>) /\ \A x : ~inList(x, <<>>)
    BY DEF IsInjective
  <2>2. Good(<<>>, 0)
    BY <2>1
  <2> HIDE DEF Good
  <2> QED BY <1>1, <2>2 DEF Keeps
<1>3. ASSUME NEW n \in Nat, n \in R PROVE n + 1 \in R
  <2> SUFFICES ASSUME n + 1 <= N PROVE Good(kept[n + 1], n + 1)
    OBVIOUS
  <2> DEFINE v == kept[n]
             b == beads[n + 1]
  <2>1. /\ Good(v, n) /\ n + 1 \in 1..N /\ b \in D
        /\ kept[n + 1] = IF b \in S THEN Append(v, b) ELSE v
    <3>1. n + 1 \in 1..N /\ (n + 1) - 1 = n /\ b \in D
      OBVIOUS
    <3>2. kept[n + 1] = IF b \in S THEN Append(v, b) ELSE v
      BY <1>1, <3>1 DEF Keeps
    <3>3. Good(v, n)
      <4> HIDE DEF Good
      <4> QED BY <1>3
    <3> HIDE DEF Good
    <3> QED BY <3>1, <3>2, <3>3
  <2>2. ~ \E i \in 1..n : beads[i] = b
    BY <2>1 DEF IsInjective
  <2>3. \A x : (\E i \in 1 .. n + 1 : beads[i] = x) <=> (\E i \in 1..n : beads[i] = x) \/ x = b
    <3>1. \A i \in 1 .. n + 1 : i \in 1..n \/ i = n + 1
      OBVIOUS
    <3>2. n + 1 \in 1 .. n + 1 /\ \A i \in 1..n : i \in 1 .. n + 1
      OBVIOUS
    <3> QED BY <3>1, <3>2
  <2>4. v \in Seq(D) /\ IsInjective(v)
        /\ \A x : inList(x, v) <=> x \in S /\ \E i \in 1..n : beads[i] = x
    BY <2>1
  <2>5. CASE b \notin S
    BY <2>1, <2>3, <2>4, <2>5
  <2>6. CASE b \in S
    <3> DEFINE t == Append(v, b)
    <3>0. kept[n + 1] = t
      BY <2>1, <2>6
    <3>1. /\ t \in Seq(D) /\ Len(t) = Len(v) + 1 /\ Len(v) \in Nat /\ t[Len(v) + 1] = b
          /\ DOMAIN t = 1..Len(t) /\ DOMAIN v = 1..Len(v)
          /\ \A i \in 1..Len(v) : t[i] = v[i]
      BY <2>1, <2>4
    <3> HIDE DEF t, v, b
    <3>2. \A x : inList(x, t) <=> inList(x, v) \/ x = b
      <4>1. \A i \in 1..Len(t) : i \in 1..Len(v) \/ i = Len(v) + 1
        BY <3>1
      <4>2. Len(v) + 1 \in 1..Len(t) /\ \A i \in 1..Len(v) : i \in 1..Len(t)
        BY <3>1
      <4> QED BY <3>1, <4>1, <4>2
    <3>3. ~inList(b, v)
      BY <2>2, <2>4
    <3>4. IsInjective(t)
      BY <2>4, <3>1, <3>3 DEF IsInjective
    <3> QED BY <2>3, <2>4, <2>6, <3>0, <3>1, <3>2, <3>4
  <2> QED BY <2>5, <2>6
<1> HIDE DEF R
<1>4. N \in Nat /\ N \in R
  <2>1. N \in Nat
    OBVIOUS
  <2> QED BY <1>2, <1>3, <2>1, Induction
<1> QED BY <1>1, <1>4 DEF R, Keeps, Contains

(* x comes before position n of s.                                         *)
Before(x, s, n) == \E i \in 1..Len(s) : i < n /\ s[i] = x

(* A list of beads after the other one, none of them in both.              *)
LEMMA JoinedLists ==
  ASSUME NEW D, NEW s \in Seq(D), NEW t \in Seq(D), IsInjective(s), IsInjective(t),
         \A x : ~(Contains(s, x) /\ Contains(t, x))
  PROVE  /\ s \o t \in Seq(D) /\ IsInjective(s \o t)
         /\ \A x : Contains(s \o t, x) <=> Contains(s, x) \/ Contains(t, x)
         /\ \A x, n : Before(x, s, n) => Before(x, s \o t, n)
         /\ \A x : \A n \in 0..Len(s) : Before(x, s \o t, n + 1) <=> Before(x, s, n + 1)
         /\ \A i \in 1..Len(s \o t) : \/ i \in 1..Len(s) /\ (s \o t)[i] = s[i]
                                      \/ i > Len(s) /\ Contains(t, (s \o t)[i])
<1> DEFINE u == s \o t
<1>1. /\ u \in Seq(D) /\ Len(u) = Len(s) + Len(t) /\ Len(s) \in Nat /\ Len(t) \in Nat
      /\ DOMAIN u = 1..Len(u) /\ DOMAIN s = 1..Len(s) /\ DOMAIN t = 1..Len(t)
      /\ \A i \in 1..Len(s) : u[i] = s[i]
      /\ \A i \in 1..Len(t) : u[Len(s) + i] = t[i]
  OBVIOUS
<1> HIDE DEF u
<1>2. ASSUME NEW i \in 1..Len(u)
      PROVE  \/ i \in 1..Len(s) /\ u[i] = s[i]
             \/ i > Len(s) /\ i - Len(s) \in 1..Len(t) /\ u[i] = t[i - Len(s)]
  <2>1. CASE i \in 1..Len(s)
    BY <1>1, <2>1
  <2>2. CASE i \notin 1..Len(s)
    <3>1. i > Len(s) /\ i - Len(s) \in 1..Len(t) /\ Len(s) + (i - Len(s)) = i
      BY <1>1, <2>2
    <3> QED BY <1>1, <3>1
  <2> QED BY <2>1, <2>2
<1>3. \A i \in 1..Len(s) : i \in 1..Len(u)
  BY <1>1
<1>4. \A i \in 1..Len(t) : Len(s) + i \in 1..Len(u)
  BY <1>1
<1>5. \A x : Contains(u, x) <=> Contains(s, x) \/ Contains(t, x)
  BY <1>1, <1>2, <1>3, <1>4 DEF Contains
<1>6. IsInjective(u)
  <2> SUFFICES ASSUME NEW i \in 1..Len(u), NEW j \in 1..Len(u), u[i] = u[j] PROVE i = j
    BY <1>1 DEF IsInjective
  <2>1. CASE i \in 1..Len(s) /\ j \in 1..Len(s)
    BY <1>1, <2>1 DEF IsInjective
  <2>2. CASE i \notin 1..Len(s) /\ j \notin 1..Len(s)
    <3>1. /\ i - Len(s) \in DOMAIN t /\ u[i] = t[i - Len(s)]
          /\ j - Len(s) \in DOMAIN t /\ u[j] = t[j - Len(s)]
      BY <1>1, <1>2, <2>2
    <3>2. i - Len(s) = j - Len(s)
      BY <3>1 DEF IsInjective
    <3> QED BY <1>1, <3>2
  <2>6. \A k \in 1..Len(u) : k \notin 1..Len(s) => Contains(t, u[k])
    <3>1. \A k \in 1..Len(u) : k \notin 1..Len(s) =>
            \E m \in 1..Len(t) : t[m] = u[k]
      BY <1>2
    <3> QED BY <3>1 DEF Contains
  <2>5. \A k \in 1..Len(s) : Contains(s, u[k])
    BY <1>1 DEF Contains
  <2>3. CASE i \in 1..Len(s) /\ j \notin 1..Len(s)
    BY <2>3, <2>5, <2>6
  <2>4. CASE i \notin 1..Len(s) /\ j \in 1..Len(s)
    BY <2>4, <2>5, <2>6
  <2> QED BY <2>1, <2>2, <2>3, <2>4
<1>7. \A x, n : Before(x, s, n) => Before(x, u, n)
  BY <1>1, <1>3 DEF Before
<1>8. \A x : \A n \in 0..Len(s) : Before(x, u, n + 1) <=> Before(x, s, n + 1)
  <2> SUFFICES ASSUME NEW n \in 0..Len(s), NEW x, Before(x, u, n + 1) PROVE Before(x, s, n + 1)
    BY <1>7
  <2>1. PICK i \in 1..Len(u) : i < n + 1 /\ u[i] = x
    BY DEF Before
  <2>2. i \in 1..Len(s)
    BY <1>1, <2>1
  <2> QED BY <1>1, <2>1, <2>2 DEF Before
<1>9. \A i \in 1..Len(u) : \/ i \in 1..Len(s) /\ u[i] = s[i]
                           \/ i > Len(s) /\ Contains(t, u[i])
  BY <1>2 DEF Contains
<1> QED BY <1>1, <1>5, <1>6, <1>7, <1>8, <1>9 DEF u

(* After n rounds of the sort: whatever needs only beads that were taken   *)
(* out of the queue has been in it, and no bead before what it needs.      *)
SortInv(p, n, found) ==
  /\ found \in Seq(DOMAIN p) /\ IsInjective(found)
  /\ \A x \in DOMAIN p :
       Contains(found, x) <=> \A y \in p[x] \cap DOMAIN p : Before(y, found, n + 1)
  /\ \A i \in 1..Len(found) : \A y \in p[found[i]] \cap DOMAIN p : Before(y, found, i)

(* topologicalSort, round by round.                                        *)
SortsBy(found, p, beads) ==
  /\ topologicalSort(p, beads) = found[Len(beads)]
  /\ found[0] = InOrder(beads, {b \in DOMAIN p : p[b] \cap DOMAIN p = {}})
  /\ \A n \in 1..Len(beads) : found[n] = Round(p, beads, n, found[n - 1])

LEMMA RoundType ==
  ASSUME NEW p, NEW beads \in Seq(DOMAIN p), IsInjective(beads), NEW n, NEW f \in Seq(DOMAIN p)
  PROVE  Round(p, beads, n, f) \in Seq(DOMAIN p)
<1> DEFINE S == {b \in DOMAIN p : Freed(p, f[n], SubSeq(f, 1, n), b)}
<1>1. InOrder(beads, S) \in Seq(DOMAIN p)
  BY InOrderIs
<1>2. f \o InOrder(beads, S) \in Seq(DOMAIN p)
  <2> HIDE DEF S
  <2> QED BY <1>1
<1> QED BY <1>2 DEF Round

LEMMA RoundsExist ==
  ASSUME NEW p, NEW beads \in Seq(DOMAIN p), IsInjective(beads)
  PROVE  \E found : SortsBy(found, p, beads)
<1> DEFINE N == Len(beads)
           V == Seq(DOMAIN p)
           first == InOrder(beads, {b \in DOMAIN p : p[b] \cap DOMAIN p = {}})
           Sorting(f) == f = [n \in 0..Len(beads) |->
             IF n = 0 THEN InOrder(beads, {b \in DOMAIN p : p[b] \cap DOMAIN p = {}})
             ELSE Round(p, beads, n, f[n - 1])]
           more == [x \in (1..N) \X V |-> Round(p, beads, x[1], x[2])]
<1>1. N \in Nat /\ first \in V
  BY InOrderIs
<1>2. more \in [(1..N) \X V -> V]
  BY RoundType
<1>3. \A n \in 1..N, v \in V : more[<<n, v>>] = Round(p, beads, n, v)
  OBVIOUS
<1> HIDE DEF N, V, first, more
<1>4. PICK f : Loops(f, N, V, first, more)
  BY <1>1, <1>2, LoopExists
<1>5. \A n \in 1..N : n - 1 \in 0..N /\ f[n - 1] \in V
  BY <1>1, <1>4 DEF Loops
<1>6. \A n \in 1..N : f[n] = Round(p, beads, n, f[n - 1])
  BY <1>3, <1>4, <1>5 DEF Loops
<1>7. Sorting(f)
  <2> DEFINE E(n) == IF n = 0 THEN first ELSE Round(p, beads, n, f[n - 1])
  <2>1. \A n \in 0..N : f[n] = E(n)
    <3>1. \A n \in 0..N : n = 0 \/ n \in 1..N
      BY <1>1
    <3> QED BY <1>4, <1>6, <3>1 DEF Loops
  <2> HIDE DEF E
  <2>2. f = [n \in 0..N |-> E(n)]
    BY <1>4, <2>1 DEF Loops
  <2> QED BY <2>2 DEF E, N, first
<1> DEFINE found == CHOOSE g : Sorting(g)
<1>8. Sorting(found)
  <2> HIDE DEF Sorting
  <2> QED BY <1>7
<1>9. topologicalSort(p, beads) = found[Len(beads)]
  BY DEF topologicalSort
<1> HIDE DEF found
<1>10. found[0] = first /\ \A n \in 1..N : found[n] = Round(p, beads, n, found[n - 1])
  <2> DEFINE E(n) == IF n = 0 THEN first ELSE Round(p, beads, n, found[n - 1])
  <2>1. found = [n \in 0..N |-> E(n)]
    BY <1>8 DEF N, first
  <2> HIDE DEF E
  <2>2. \A n \in 0..N : found[n] = E(n)
    BY <2>1
  <2> QED BY <1>1, <2>2 DEF E
<1> QED BY <1>9, <1>10 DEF SortsBy, N, first

(* What has been taken out of the queue after n rounds.                    *)
LEMMA TakenAre ==
  ASSUME NEW D, NEW s \in Seq(D), NEW n \in 0..Len(s)
  PROVE  \A x : x \in ToSet(SubSeq(s, 1, n)) <=> Before(x, s, n + 1)
<1>1. /\ DOMAIN SubSeq(s, 1, n) = 1..n
      /\ \A i \in 1..n : SubSeq(s, 1, n)[i] = s[i] /\ i \in 1..Len(s) /\ i < n + 1
      /\ \A i \in 1..Len(s) : i < n + 1 => i \in 1..n
  OBVIOUS
<1> QED BY <1>1 DEF ToSet, Before

LEMMA SortStart ==
  ASSUME NEW p, NEW beads \in Seq(DOMAIN p), IsInjective(beads),
         \A x \in DOMAIN p : Contains(beads, x)
  PROVE  SortInv(p, 0, InOrder(beads, {b \in DOMAIN p : p[b] \cap DOMAIN p = {}}))
<1> DEFINE S == {b \in DOMAIN p : p[b] \cap DOMAIN p = {}}
           f == InOrder(beads, S)
<1>1. f \in Seq(DOMAIN p) /\ IsInjective(f) /\ \A x : Contains(f, x) <=> x \in S /\ Contains(beads, x)
  BY InOrderIs
<1> HIDE DEF f
<1>2. \A x : ~Before(x, f, 1)
  <2>1. \A i \in 1..Len(f) : ~ (i < 1)
    BY <1>1
  <2> QED BY <2>1 DEF Before
<1>3. \A x \in DOMAIN p : Contains(f, x) <=> \A y \in p[x] \cap DOMAIN p : Before(y, f, 0 + 1)
  <2>1. 0 + 1 = 1
    OBVIOUS
  <2> QED BY <1>1, <1>2, <2>1
<1>4. \A i \in 1..Len(f) : f[i] \in S
  BY <1>1 DEF Contains
<1> QED BY <1>1, <1>3, <1>4 DEF SortInv, f

LEMMA SortRound ==
  ASSUME NEW p, NEW beads \in Seq(DOMAIN p), IsInjective(beads),
         \A x \in DOMAIN p : Contains(beads, x),
         NEW n \in Nat, NEW f, SortInv(p, n, f)
  PROVE  SortInv(p, n + 1, Round(p, beads, n + 1, f))
<1> DEFINE D == DOMAIN p
           m == n + 1
           id == f[m]
           S == {b \in D : Freed(p, id, SubSeq(f, 1, m), b)}
           t == InOrder(beads, S)
           u == f \o t
<1>1. /\ f \in Seq(D) /\ IsInjective(f) /\ Len(f) \in Nat /\ m \in Nat /\ m = n + 1
      /\ \A x \in D : Contains(f, x) <=> \A y \in p[x] \cap D : Before(y, f, m)
      /\ \A i \in 1..Len(f) : \A y \in p[f[i]] \cap D : Before(y, f, i)
  BY DEF SortInv
<1>2. CASE Len(f) < m
  <2>1. Round(p, beads, m, f) = f
    BY <1>2 DEF Round
  <2>2. \A y : Before(y, f, m) <=> Before(y, f, m + 1)
    BY <1>1, <1>2 DEF Before
  <2> QED BY <1>1, <2>1, <2>2 DEF SortInv
<1>3. CASE ~ (Len(f) < m)
  <2>1. Round(p, beads, m, f) = u
    BY <1>3 DEF Round
  <2>2. t \in Seq(D) /\ IsInjective(t) /\ \A x : Contains(t, x) <=> x \in S /\ Contains(beads, x)
    BY InOrderIs
  <2>3. m \in 0..Len(f) /\ m \in 1..Len(f) /\ n \in 0..Len(f) /\ id \in D
    BY <1>1, <1>3
  <2>4. \A b \in D : b \in S <=> id \in p[b] /\ \A y \in p[b] \cap D : Before(y, f, m + 1)
    <3>1. \A y : y \in ToSet(SubSeq(f, 1, m)) <=> Before(y, f, m + 1)
      BY <1>1, <2>3, TakenAre
    <3> QED BY <3>1 DEF Freed
  <2> HIDE DEF S, t, id, u
  <2>5. \A y : Before(y, f, m + 1) <=> Before(y, f, m) \/ y = id
    <3>1. \A i \in 1..Len(f) : i < m + 1 <=> i < m \/ i = m
      BY <1>1
    <3> QED BY <2>3, <3>1 DEF Before, id
  <2>6. ~Before(id, f, m)
    BY <1>1, <2>3 DEF Before, id, IsInjective
  <2>7. \A x : ~ (Contains(f, x) /\ Contains(t, x))
    <3> SUFFICES ASSUME NEW x, Contains(f, x), Contains(t, x) PROVE FALSE
      OBVIOUS
    <3>1. x \in D /\ id \in p[x]
      BY <2>2, <2>4 DEF S
    <3> QED BY <1>1, <2>3, <2>6, <3>1
  <2>8. /\ u \in Seq(D) /\ IsInjective(u)
        /\ \A x : Contains(u, x) <=> Contains(f, x) \/ Contains(t, x)
        /\ \A x, k : Before(x, f, k) => Before(x, u, k)
        /\ \A x : \A k \in 0..Len(f) : Before(x, u, k + 1) <=> Before(x, f, k + 1)
        /\ \A i \in 1..Len(u) : \/ i \in 1..Len(f) /\ u[i] = f[i]
                                \/ i > Len(f) /\ Contains(t, u[i])
    BY <1>1, <2>2, <2>7, JoinedLists DEF u
  <2>9. ASSUME NEW x \in D
        PROVE  Contains(u, x) <=> \A y \in p[x] \cap D : Before(y, u, m + 1)
    <3>1. (\A y \in p[x] \cap D : Before(y, u, m + 1))
            <=> \A y \in p[x] \cap D : Before(y, f, m) \/ y = id
      BY <2>3, <2>5, <2>8
    <3>2. CASE id \in p[x]
      <4>1. ~Contains(f, x)
        BY <1>1, <2>3, <2>6, <3>2
      <4>2. Contains(t, x) <=> \A y \in p[x] \cap D : Before(y, f, m + 1)
        BY <2>2, <2>4, <3>2
      <4> QED BY <2>5, <2>8, <3>1, <4>1, <4>2
    <3>3. CASE id \notin p[x]
      <4>1. ~Contains(t, x)
        BY <2>2, <2>4, <3>3
      <4> QED BY <1>1, <2>8, <3>1, <3>3, <4>1
    <3> QED BY <3>2, <3>3
  <2>10. ASSUME NEW i \in 1..Len(u), NEW y \in p[u[i]] \cap D PROVE Before(y, u, i)
    <3>1. CASE i \in 1..Len(f) /\ u[i] = f[i]
      BY <1>1, <2>8, <3>1
    <3>2. CASE i > Len(f) /\ Contains(t, u[i])
      <4>1. u[i] \in D /\ u[i] \in S
        BY <2>2, <3>2 DEF S
      <4>2. Before(y, f, m + 1)
        BY <2>4, <4>1
      <4>3. Before(y, f, i)
        <5>1. \A k \in 1..Len(f) : k < i
          BY <1>1, <3>2
        <5> QED BY <4>2, <5>1 DEF Before
      <4> QED BY <2>8, <4>3
    <3> QED BY <2>8, <3>1, <3>2
  <2>11. SortInv(p, m, u)
    BY <2>8, <2>9, <2>10 DEF SortInv
  <2> QED BY <2>1, <2>11
<1> QED BY <1>2, <1>3

(* A list without repetitions has at most all beads, and that many exactly *)
(* when it has every one.                                                  *)
LEMMA DistinctList ==
  ASSUME NEW D, IsFiniteSet(D), NEW s \in Seq(D), IsInjective(s)
  PROVE  /\ Cardinality(D) \in Nat /\ Len(s) <= Cardinality(D)
         /\ Len(s) = Cardinality(D) <=> \A x \in D : Contains(s, x)
<1> DEFINE I == 1..Len(s)
<1>1. Len(s) \in Nat /\ s \in [I -> D] /\ DOMAIN s = I
  OBVIOUS
<1>2. Cardinality(I) = Len(s)
  BY <1>1, FS_Interval
<1> HIDE DEF I
<1>3. s \in Injection(I, D)
  BY <1>1 DEF Injection
<1>4. /\ Cardinality(I) <= Cardinality(D)
      /\ Cardinality(I) = Cardinality(D) <=> s \in Surjection(I, D)
  BY <1>3, FS_Injection
<1>5. s \in Surjection(I, D) <=> \A x \in D : \E i \in I : s[i] = x
  BY <1>1 DEF Surjection
<1>6. Cardinality(D) \in Nat
  BY FS_CardinalityType
<1> QED BY <1>2, <1>4, <1>5, <1>6 DEF Contains, I

LEMMA ListIs ==
  ASSUME NEW D, IsFiniteSet(D), NEW beads \in SetToSeqs(D)
  PROVE  /\ beads \in Seq(D) /\ IsInjective(beads) /\ Len(beads) = Cardinality(D)
         /\ \A x \in D : Contains(beads, x)
<1>1. Cardinality(D) \in Nat
  BY FS_CardinalityType
<1>2. /\ beads \in [1..Cardinality(D) -> D]
      /\ \A i, j \in 1..Cardinality(D) : i # j => beads[i] # beads[j]
  BY DEF SetToSeqs
<1>3. beads \in Seq(D) /\ IsInjective(beads) /\ Len(beads) = Cardinality(D)
  BY <1>1, <1>2 DEF IsInjective
<1> QED BY <1>3, DistinctList

LEMMA SortEnds ==
  ASSUME NEW p, IsFiniteSet(DOMAIN p), NEW beads \in Seq(DOMAIN p), IsInjective(beads),
         \A x \in DOMAIN p : Contains(beads, x)
  PROVE  SortInv(p, Len(beads), topologicalSort(p, beads))
<1>1. PICK found : SortsBy(found, p, beads)
  BY RoundsExist
<1> DEFINE N == Len(beads)
           R == {n \in Nat : n <= N => SortInv(p, n, found[n])}
<1>2. 0 \in R
  BY <1>1, SortStart DEF SortsBy
<1>3. ASSUME NEW n \in Nat, n \in R PROVE n + 1 \in R
  <2> SUFFICES ASSUME n + 1 <= N PROVE SortInv(p, n + 1, found[n + 1])
    OBVIOUS
  <2>1. n + 1 \in 1..N /\ (n + 1) - 1 = n /\ n <= N
    OBVIOUS
  <2>2. found[n + 1] = Round(p, beads, n + 1, found[n])
    BY <1>1, <2>1 DEF SortsBy
  <2>3. SortInv(p, n, found[n])
    BY <1>3, <2>1
  <2> QED BY <2>2, <2>3, SortRound
<1>4. N \in Nat
  OBVIOUS
<1> HIDE DEF R
<1>5. N \in R
  BY <1>2, <1>3, <1>4, Induction
<1> QED BY <1>1, <1>4, <1>5 DEF R, SortsBy

(* In a list of all beads each behind its needs, the first one of any set  *)
(* of beads needs none of them.                                            *)
LEMMA SortedIsAcyclic ==
  ASSUME NEW p, NEW s \in Seq(DOMAIN p), \A x \in DOMAIN p : Contains(s, x),
         \A i \in 1..Len(s) : \A y \in p[s[i]] \cap DOMAIN p : Before(y, s, i)
  PROVE  Acyclic(p)
<1> SUFFICES ASSUME NEW S \in SUBSET DOMAIN p, \A b \in S : p[b] \cap S # {}
             PROVE  S = {}
  BY DEF Acyclic
<1> DEFINE T == {n \in Nat : \A i \in 1..Len(s) : i <= n => s[i] \notin S}
<1>1. 0 \in T
  OBVIOUS
<1>2. ASSUME NEW n \in Nat, n \in T PROVE n + 1 \in T
  <2> SUFFICES ASSUME NEW i \in 1..Len(s), i = n + 1, s[i] \in S PROVE FALSE
    BY <1>2
  <2>1. PICK y \in p[s[i]] \cap S : TRUE
    OBVIOUS
  <2>2. PICK j \in 1..Len(s) : j < i /\ s[j] = y
    BY <2>1 DEF Before
  <2>3. j <= n
    BY <2>2
  <2> QED BY <1>2, <2>1, <2>2, <2>3
<1> HIDE DEF T
<1>3. Len(s) \in Nat /\ Len(s) \in T
  BY <1>1, <1>2, Induction
<1>4. \A i \in 1..Len(s) : s[i] \notin S
  BY <1>3 DEF T
<1> QED BY <1>4 DEF Contains

(* topologicalSort sorts every list of beads that has no cycle, and of any *)
(* other list it leaves out a bead, so that the code throws                *)
(* (coordinator.ts:31-77), whatever the order of the list.                 *)
THEOREM SortIsRight ==
  ASSUME NEW p, IsFiniteSet(DOMAIN p), NEW beads \in Lists(p)
  PROVE  /\ Acyclic(p) => Sorts(p, topologicalSort(p, beads))
         /\ ~Acyclic(p) => Len(topologicalSort(p, beads)) < Len(beads)
<1> DEFINE D == DOMAIN p
           s == topologicalSort(p, beads)
           N == Len(beads)
<1>1. /\ beads \in Seq(D) /\ IsInjective(beads) /\ N = Cardinality(D)
      /\ \A x \in D : Contains(beads, x)
  BY ListIs DEF Lists
<1>2. SortInv(p, N, s)
  BY <1>1, SortEnds
<1> HIDE DEF s
<1>3. /\ s \in Seq(D) /\ IsInjective(s) /\ Len(s) \in Nat /\ DOMAIN s = 1..Len(s)
      /\ \A i \in 1..Len(s) : \A y \in p[s[i]] \cap D : Before(y, s, i)
  BY <1>2 DEF SortInv
<1>4. /\ N \in Nat /\ Len(s) <= N
      /\ Len(s) = N <=> \A x \in D : Contains(s, x)
  BY <1>1, <1>3, DistinctList
<1>5. ASSUME Acyclic(p) PROVE \A x \in D : Contains(s, x)
  <2> DEFINE S == {x \in D : ~Contains(s, x)}
  <2> SUFFICES ASSUME S # {} PROVE FALSE
    OBVIOUS
  <2>1. PICK b \in S : p[b] \cap S = {}
    BY <1>5 DEF Acyclic
  <2>2. \A y \in p[b] \cap D : Contains(s, y)
    BY <2>1
  <2>3. \A y : Contains(s, y) => Before(y, s, N + 1)
    BY <1>3, <1>4 DEF Contains, Before
  <2> QED BY <1>2, <2>1, <2>2, <2>3 DEF SortInv
<1>6. ASSUME Acyclic(p) PROVE Sorts(p, s)
  <2>1. ToSet(s) = D
    <3>1. \A x \in D : \E i \in DOMAIN s : s[i] = x
      BY <1>3, <1>5, <1>6 DEF Contains
    <3>2. \A i \in DOMAIN s : s[i] \in D
      BY <1>3
    <3> QED BY <3>1, <3>2 DEF ToSet
  <2>2. ASSUME NEW i \in DOMAIN s, NEW y \in p[s[i]] \cap D
        PROVE  y \in ToSet(SubSeq(s, 1, i - 1))
    <3>1. i - 1 \in 0..Len(s) /\ (i - 1) + 1 = i
      BY <1>3
    <3>2. Before(y, s, (i - 1) + 1)
      BY <1>3, <3>1
    <3> QED BY <1>3, <3>1, <3>2, TakenAre
  <2> QED BY <1>1, <1>4, <1>5, <1>6, <2>1, <2>2 DEF Sorts
<1>7. ASSUME ~Acyclic(p) PROVE Len(s) < N
  <2>1. ~ \A x \in D : Contains(s, x)
    BY <1>3, <1>7, SortedIsAcyclic
  <2> QED BY <1>3, <1>4, <2>1
<1> QED BY <1>6, <1>7 DEF s

(* Of the positions in a sorted list, i is dispatched before j: the higher *)
(* score first, then as sorted.                                            *)
Above(s, info, i, j) ==
  \/ priorityScore(info[s[i]]) > priorityScore(info[s[j]])
  \/ priorityScore(info[s[i]]) = priorityScore(info[s[j]]) /\ i < j

Place(s, info, i) == 1 + Cardinality({j \in DOMAIN s : Above(s, info, j, i)})

(* Every position has a place of its own, and every place is taken.        *)
LEMMA PlacesAreOwn ==
  ASSUME NEW D, NEW s \in Seq(D), NEW info, \A x \in D : priorityScore(info[x]) \in Int
  PROVE  /\ \A i \in DOMAIN s : Place(s, info, i) \in DOMAIN s
         /\ \A i, j \in DOMAIN s : Place(s, info, i) = Place(s, info, j) => i = j
         /\ \A n \in DOMAIN s : \E i \in DOMAIN s : n = Place(s, info, i)
<1> DEFINE I == DOMAIN s
           Ahead(i) == {j \in I : Above(s, info, j, i)}
           score(i) == priorityScore(info[s[i]])
<1>1. Len(s) \in Nat /\ I = 1..Len(s) /\ \A i \in I : s[i] \in D
  OBVIOUS
<1>2. IsFiniteSet(I) /\ Cardinality(I) = Len(s)
  BY <1>1, FS_Interval
<1>3. \A i \in I : score(i) \in Int /\ i \in Int
  BY <1>1
<1>4. \A i, j : Above(s, info, i, j) <=> score(i) > score(j) \/ (score(i) = score(j) /\ i < j)
  BY DEF Above
<1> HIDE DEF I, score
<1>5. \A i \in I : /\ Ahead(i) \subseteq I /\ i \notin Ahead(i)
                   /\ IsFiniteSet(Ahead(i)) /\ Cardinality(Ahead(i)) \in Nat
                   /\ Cardinality(Ahead(i)) <= Len(s)
  <2> TAKE i \in I
  <2>1. Ahead(i) \subseteq I /\ i \notin Ahead(i)
    BY <1>3, <1>4
  <2> HIDE DEF Ahead
  <2>2. IsFiniteSet(Ahead(i)) /\ Cardinality(Ahead(i)) <= Len(s)
    BY <1>2, <2>1, FS_Subset
  <2> QED BY <2>1, <2>2, FS_CardinalityType
<1>6. ASSUME NEW i \in I, NEW j \in I, Above(s, info, i, j)
      PROVE  Cardinality(Ahead(i)) < Cardinality(Ahead(j))
  <2>1. Ahead(i) \subseteq Ahead(j)
    BY <1>3, <1>4, <1>6
  <2>2. i \in Ahead(j)
    BY <1>6
  <2> HIDE DEF Ahead
  <2>3. Ahead(i) # Ahead(j)
    BY <1>5, <2>2
  <2>4. /\ Cardinality(Ahead(i)) <= Cardinality(Ahead(j))
        /\ Cardinality(Ahead(i)) = Cardinality(Ahead(j)) => Ahead(i) = Ahead(j)
    BY <1>5, <2>1, FS_Subset
  <2> QED BY <1>5, <2>3, <2>4
<1>7. \A i, j \in I : i # j => Above(s, info, i, j) \/ Above(s, info, j, i)
  BY <1>3, <1>4
<1>8. \A i \in I : Place(s, info, i) = 1 + Cardinality(Ahead(i))
  BY DEF Place, I
<1> HIDE DEF Ahead
<1>9. \A i, j \in I : Place(s, info, i) = Place(s, info, j) => i = j
  BY <1>5, <1>6, <1>7, <1>8
<1>10. \A i \in I : Place(s, info, i) \in I
  <2> TAKE i \in I
  <2>1. Ahead(i) # I
    BY <1>5
  <2>2. Cardinality(Ahead(i)) # Cardinality(I)
    BY <1>2, <1>5, <2>1, FS_Subset
  <2> QED BY <1>1, <1>2, <1>5, <1>8, <2>2
<1> DEFINE place == [i \in I |-> Place(s, info, i)]
<1>11. place \in Injection(I, I)
  BY <1>9, <1>10 DEF Injection, IsInjective
<1>12. place \in Surjection(I, I)
  BY <1>2, <1>11, FS_Injection
<1>13. \A n \in I : \E i \in I : place[i] = n
  BY <1>12 DEF Surjection
<1>14. \A n \in I : \E i \in I : n = Place(s, info, i)
  BY <1>13
<1> QED BY <1>9, <1>10, <1>14 DEF I

(* The queue of a dispatch has the beads of the sorted list.               *)
LEMMA QueueIs ==
  ASSUME NEW D, NEW s \in Seq(D), NEW info, \A x \in D : priorityScore(info[x]) \in Int
  PROVE  /\ ByPriority(s, info) \in Seq(D)
         /\ \A x : Contains(s, x) => Contains(ByPriority(s, info), x)
<1> DEFINE q == ByPriority(s, info)
           At(n) == CHOOSE i \in DOMAIN s : n = Place(s, info, i)
<1>1. DOMAIN s = 1..Len(s) /\ Len(s) \in Nat /\ \A i \in DOMAIN s : s[i] \in D
  OBVIOUS
<1>2. q = [n \in DOMAIN s |-> s[At(n)]]
  BY DEF ByPriority, Place, Above
<1>3. \A n \in DOMAIN s : At(n) \in DOMAIN s /\ n = Place(s, info, At(n))
  BY PlacesAreOwn
<1> HIDE DEF At, q
<1>4. q \in [1..Len(s) -> D]
  BY <1>1, <1>2, <1>3
<1>5. q \in Seq(D) /\ Len(q) = Len(s)
  BY <1>1, <1>4
<1>6. ASSUME NEW i \in DOMAIN s PROVE q[Place(s, info, i)] = s[i] /\ Place(s, info, i) \in 1..Len(q)
  <2> DEFINE n == Place(s, info, i)
  <2>1. n \in DOMAIN s
    BY PlacesAreOwn
  <2>2. At(n) = i
    BY <1>3, <2>1, PlacesAreOwn
  <2> HIDE DEF n
  <2>3. q[n] = s[i] /\ n \in 1..Len(q)
    BY <1>1, <1>2, <1>5, <2>1, <2>2
  <2> QED BY <2>3 DEF n
<1> QED BY <1>1, <1>5, <1>6 DEF Contains, q

(* One call of dispatchWithPriority, turn by turn.                         *)
Turns(turns, p, beads, info, works, done) ==
  LET queue == ByPriority(topologicalSort(p, beads), info)
  IN  /\ dispatchWithPriority(p, beads, info, works, done) = turns[Len(queue)]
      /\ turns[0] = [sent |-> <<>>, done |-> done]
      /\ \A i \in 1..Len(queue) : turns[i] = Turn(p, works, queue[i], turns[i - 1])

LEMMA TurnsExist ==
  ASSUME NEW p, NEW beads, NEW info, NEW works, NEW done,
         ByPriority(topologicalSort(p, beads), info) \in Seq(DOMAIN p)
  PROVE  \E turns : Turns(turns, p, beads, info, works, done)
<1> DEFINE q == ByPriority(topologicalSort(p, beads), info)
           N == Len(q)
           V == [sent : Seq(DOMAIN p), done : SUBSET (done \cup works)]
           first == [sent |-> <<>>, done |-> done]
           Chained(f) == f = [i \in 0..N |->
             IF i = 0 THEN [sent |-> <<>>, done |-> done]
             ELSE Turn(p, works, q[i], f[i - 1])]
           more == [x \in (1..N) \X V |-> Turn(p, works, q[x[1]], x[2])]
<1>1. q \in Seq(DOMAIN p)
  OBVIOUS
<1> DEFINE turns == CHOOSE g : Chained(g)
<1>2. dispatchWithPriority(p, beads, info, works, done) = turns[N]
  BY DEF dispatchWithPriority
<1> HIDE DEF q
<1>3. N \in Nat /\ first \in V /\ \A i \in 1..N : q[i] \in DOMAIN p
  BY <1>1
<1>4. \A i \in 1..N, v \in V : Turn(p, works, q[i], v) \in V
  BY <1>3 DEF Turn
<1>5. more \in [(1..N) \X V -> V]
  <2> HIDE DEF V, N
  <2> QED BY <1>4
<1>6. \A i \in 1..N, v \in V : more[<<i, v>>] = Turn(p, works, q[i], v)
  <2> HIDE DEF V, N
  <2> QED OBVIOUS
<1> HIDE DEF V, more
<1>7. PICK f : Loops(f, N, V, first, more)
  <2> HIDE DEF N, first
  <2> QED BY <1>3, <1>5, LoopExists
<1>8. \A i \in 1..N : i - 1 \in 0..N /\ f[i - 1] \in V
  <2> HIDE DEF N, first
  <2> QED BY <1>3, <1>7 DEF Loops
<1>9. \A i \in 1..N : f[i] = Turn(p, works, q[i], f[i - 1])
  <2> HIDE DEF N, first
  <2> QED BY <1>6, <1>7, <1>8 DEF Loops
<1>10. Chained(f)
  <2> DEFINE E(i) == IF i = 0 THEN first ELSE Turn(p, works, q[i], f[i - 1])
  <2>1. \A i \in 0..N : i = 0 \/ i \in 1..N
    BY <1>3
  <2> HIDE DEF N, first
  <2>2. \A i \in 0..N : f[i] = E(i)
    BY <1>7, <1>9, <2>1 DEF Loops
  <2> HIDE DEF E
  <2>3. f = [i \in 0..N |-> E(i)]
    BY <1>7, <2>2 DEF Loops
  <2> QED BY <2>3 DEF E, first
<1>11. Chained(turns)
  <2> HIDE DEF Chained
  <2> QED BY <1>10
<1> HIDE DEF turns
<1>12. turns[0] = first /\ \A i \in 1..N : turns[i] = Turn(p, works, q[i], turns[i - 1])
  <2> DEFINE E(i) == IF i = 0 THEN first ELSE Turn(p, works, q[i], turns[i - 1])
  <2>0. \A i \in 0..N : i = 0 <=> i \notin 1..N
    BY <1>3
  <2>4. 0 \in 0..N /\ \A i \in 1..N : i \in 0..N
    BY <1>3
  <2>1. turns = [i \in 0..N |-> E(i)]
    BY <1>11
  <2> HIDE DEF E, N, first
  <2>2. \A i \in 0..N : turns[i] = E(i)
    BY <2>1
  <2> QED BY <2>0, <2>2, <2>4 DEF E
<1> QED BY <1>2, <1>12 DEF Turns, q

(* After i turns: what has been sent needed only what was completed before *)
(* it, and what of the first i of the queue can be completed is.           *)
CallInv(p, q, works, done, i, s) ==
  /\ s.sent \in Seq(DOMAIN p)
  /\ s.done = done \cup (works \cap ToSet(s.sent))
  /\ \A k \in DOMAIN s.sent :
       p[s.sent[k]] \subseteq done \cup (works \cap ToSet(SubSeq(s.sent, 1, k - 1)))
  /\ \A j \in 1..Len(q) : j <= i /\ q[j] \in works /\ p[q[j]] \subseteq done => q[j] \in s.done

LEMMA SentNext ==
  ASSUME NEW D, NEW s \in Seq(D), NEW b \in D
  PROVE  /\ Append(s, b) \in Seq(D) /\ ToSet(Append(s, b)) = ToSet(s) \cup {b}
         /\ DOMAIN Append(s, b) = DOMAIN s \cup {Len(s) + 1} /\ Len(s) \in Nat
         /\ \A k \in DOMAIN s : /\ Append(s, b)[k] = s[k] /\ k # Len(s) + 1
                                /\ SubSeq(Append(s, b), 1, k - 1) = SubSeq(s, 1, k - 1)
         /\ Append(s, b)[Len(s) + 1] = b
         /\ SubSeq(Append(s, b), 1, (Len(s) + 1) - 1) = s
<1> DEFINE t == Append(s, b)
<1>1. /\ t \in Seq(D) /\ DOMAIN t = 1 .. Len(s) + 1 /\ DOMAIN s = 1..Len(s) /\ Len(s) \in Nat
      /\ Len(t) = Len(s) + 1
      /\ \A k \in 1..Len(s) : t[k] = s[k] /\ s[k] \in D
      /\ t[Len(s) + 1] = b
  OBVIOUS
<1> HIDE DEF t
<1>2. DOMAIN t = DOMAIN s \cup {Len(s) + 1}
  BY <1>1
<1>3. ToSet(t) = ToSet(s) \cup {b}
  BY <1>1, <1>2 DEF ToSet
<1>4. ASSUME NEW k \in 0..Len(s) PROVE SubSeq(t, 1, k) = SubSeq(s, 1, k)
  <2>1. /\ SubSeq(t, 1, k) \in Seq(D) /\ SubSeq(s, 1, k) \in Seq(D)
        /\ Len(SubSeq(t, 1, k)) = k /\ Len(SubSeq(s, 1, k)) = k
        /\ \A i \in 1..k : SubSeq(t, 1, k)[i] = t[i] /\ SubSeq(s, 1, k)[i] = s[i]
    BY <1>1
  <2> QED BY <1>1, <2>1
<1>5. \A k \in DOMAIN s : k - 1 \in 0..Len(s) /\ k # Len(s) + 1
  BY <1>1
<1>6. SubSeq(s, 1, Len(s)) = s /\ (Len(s) + 1) - 1 = Len(s) /\ Len(s) \in 0..Len(s)
  BY <1>1
<1> QED BY <1>1, <1>2, <1>3, <1>4, <1>5, <1>6 DEF t

LEMMA TurnKeeps ==
  ASSUME NEW p, NEW q \in Seq(DOMAIN p), NEW works, NEW done, NEW i \in Nat, i + 1 <= Len(q),
         NEW s, CallInv(p, q, works, done, i, s)
  PROVE  CallInv(p, q, works, done, i + 1, Turn(p, works, q[i + 1], s))
<1> DEFINE D == DOMAIN p
           b == q[i + 1]
           t == Append(s.sent, b)
           r == Turn(p, works, b, s)
<1>1. b \in D /\ \A j \in 1..Len(q) : j <= i + 1 => j <= i \/ j = i + 1
  OBVIOUS
<1> HIDE DEF b
<1>2. /\ s.sent \in Seq(D) /\ s.done = done \cup (works \cap ToSet(s.sent))
      /\ \A k \in DOMAIN s.sent :
           p[s.sent[k]] \subseteq done \cup (works \cap ToSet(SubSeq(s.sent, 1, k - 1)))
      /\ \A j \in 1..Len(q) : j <= i /\ q[j] \in works /\ p[q[j]] \subseteq done => q[j] \in s.done
  BY DEF CallInv
<1>3. CASE p[b] \subseteq s.done
  <2>1. r.sent = t /\ r.done = s.done \cup ({b} \cap works)
    BY <1>3 DEF Turn
  <2>2. /\ t \in Seq(D) /\ ToSet(t) = ToSet(s.sent) \cup {b}
        /\ DOMAIN t = DOMAIN s.sent \cup {Len(s.sent) + 1} /\ Len(s.sent) \in Nat
        /\ \A k \in DOMAIN s.sent : /\ t[k] = s.sent[k] /\ k # Len(s.sent) + 1
                                    /\ SubSeq(t, 1, k - 1) = SubSeq(s.sent, 1, k - 1)
        /\ t[Len(s.sent) + 1] = b
        /\ SubSeq(t, 1, (Len(s.sent) + 1) - 1) = s.sent
    BY <1>1, <1>2, SentNext
  <2> HIDE DEF t, r
  <2>3. r.done = done \cup (works \cap ToSet(t))
    BY <1>2, <2>1, <2>2
  <2>4. \A k \in DOMAIN t : p[t[k]] \subseteq done \cup (works \cap ToSet(SubSeq(t, 1, k - 1)))
    <3> TAKE k \in DOMAIN t
    <3>1. CASE k \in DOMAIN s.sent
      BY <1>2, <2>2, <3>1
    <3>2. CASE k = Len(s.sent) + 1
      BY <1>2, <1>3, <2>2, <3>2
    <3> QED BY <2>2, <3>1, <3>2
  <2>5. \A j \in 1..Len(q) : j <= i + 1 /\ q[j] \in works /\ p[q[j]] \subseteq done => q[j] \in r.done
    BY <1>1, <1>2, <2>1 DEF b
  <2> QED BY <2>1, <2>2, <2>3, <2>4, <2>5 DEF CallInv, r, b
<1>4. CASE ~ (p[b] \subseteq s.done)
  <2>1. r = s
    BY <1>4 DEF Turn
  <2>2. ~ (p[b] \subseteq done)
    BY <1>2, <1>4
  <2> HIDE DEF r
  <2>3. \A j \in 1..Len(q) : j <= i + 1 /\ q[j] \in works /\ p[q[j]] \subseteq done => q[j] \in r.done
    BY <1>1, <1>2, <2>1, <2>2 DEF b
  <2> QED BY <1>2, <2>1, <2>3 DEF CallInv, r, b
<1> QED BY <1>3, <1>4

(* What one call of dispatchWithPriority does with a list without cycles.  *)
CallIs(p, works, done, s) ==
  /\ s.sent \in Seq(DOMAIN p)
  /\ s.done = done \cup (works \cap ToSet(s.sent))
  /\ \A k \in DOMAIN s.sent :
       p[s.sent[k]] \subseteq done \cup (works \cap ToSet(SubSeq(s.sent, 1, k - 1)))
  /\ \A b \in DOMAIN p \cap works : p[b] \subseteq done => b \in s.done

LEMMA CallIsRight ==
  ASSUME NEW p, IsFiniteSet(DOMAIN p), Acyclic(p), NEW beads \in Lists(p), NEW info,
         \A x \in DOMAIN p : priorityScore(info[x]) \in Int, NEW works, NEW done
  PROVE  CallIs(p, works, done, dispatchWithPriority(p, beads, info, works, done))
<1> DEFINE D == DOMAIN p
           sorted == topologicalSort(p, beads)
           q == ByPriority(sorted, info)
<1>1. sorted \in Seq(D)
  <2>1. beads \in Seq(D) /\ IsInjective(beads) /\ \A x \in D : Contains(beads, x)
    BY ListIs DEF Lists
  <2> QED BY <2>1, SortEnds DEF SortInv
<1>2. \A x \in D : Contains(sorted, x)
  <2>1. ToSet(sorted) = D
    BY SortIsRight DEF Sorts
  <2>2. DOMAIN sorted = 1..Len(sorted)
    BY <1>1
  <2> QED BY <2>1, <2>2 DEF ToSet, Contains
<1>3. q \in Seq(D) /\ \A x \in D : Contains(q, x)
  <2> HIDE DEF sorted
  <2> QED BY <1>1, <1>2, QueueIs
<1>4. PICK turns : Turns(turns, p, beads, info, works, done)
  BY <1>3, TurnsExist
<1> HIDE DEF q
<1>5. /\ dispatchWithPriority(p, beads, info, works, done) = turns[Len(q)]
      /\ turns[0] = [sent |-> <<>>, done |-> done]
      /\ \A i \in 1..Len(q) : turns[i] = Turn(p, works, q[i], turns[i - 1])
  BY <1>4 DEF Turns, q
<1> DEFINE R == {i \in Nat : i <= Len(q) => CallInv(p, q, works, done, i, turns[i])}
<1>6. 0 \in R
  <2>1. <<>> \in Seq(D) /\ DOMAIN <<>> = {} /\ ToSet(<<>>) = {}
    BY DEF ToSet
  <2>2. \A j \in 1..Len(q) : ~ (j <= 0)
    BY <1>3
  <2>3. CallInv(p, q, works, done, 0, turns[0])
    BY <1>5, <2>1, <2>2 DEF CallInv
  <2> QED BY <2>3
<1>7. ASSUME NEW i \in Nat, i \in R PROVE i + 1 \in R
  <2> SUFFICES ASSUME i + 1 <= Len(q) PROVE CallInv(p, q, works, done, i + 1, turns[i + 1])
    OBVIOUS
  <2>1. Len(q) \in Nat
    BY <1>3
  <2>2. i + 1 \in 1..Len(q) /\ (i + 1) - 1 = i /\ i <= Len(q)
    BY <2>1
  <2>3. CallInv(p, q, works, done, i, turns[i])
    BY <1>7, <2>2
  <2>4. turns[i + 1] = Turn(p, works, q[i + 1], turns[i])
    BY <1>5, <2>2
  <2> QED BY <1>3, <2>3, <2>4, TurnKeeps
<1> HIDE DEF R
<1>8. Len(q) \in Nat
  BY <1>3
<1>9. Len(q) \in R
  BY <1>6, <1>7, <1>8, Induction
<1>10. CallInv(p, q, works, done, Len(q), turns[Len(q)])
  BY <1>8, <1>9 DEF R
<1> DEFINE s == turns[Len(q)]
<1>11. ASSUME NEW b \in D \cap works, p[b] \subseteq done PROVE b \in s.done
  <2>1. PICK j \in 1..Len(q) : q[j] = b
    BY <1>3 DEF Contains
  <2>2. j <= Len(q)
    BY <1>8
  <2> QED BY <1>10, <1>11, <2>1, <2>2 DEF CallInv
<1> QED BY <1>5, <1>10, <1>11 DEF CallInv, CallIs

(* What can be completed is. *)
Settled(p, works, c) == \A b \in DOMAIN p \cap works : p[b] \subseteq c => b \in c

(* A call that finds nothing more to complete completes nothing.           *)
LEMMA SettledStays ==
  ASSUME NEW p, NEW works, NEW c, Settled(p, works, c), NEW s, CallIs(p, works, c, s)
  PROVE  s.done = c
<1> DEFINE out == s.sent
           R == {n \in Nat : \A k \in 1..Len(out) : k <= n /\ out[k] \in works => out[k] \in c}
<1>1. /\ out \in Seq(DOMAIN p) /\ s.done = c \cup (works \cap ToSet(out))
      /\ \A k \in DOMAIN out : p[out[k]] \subseteq c \cup (works \cap ToSet(SubSeq(out, 1, k - 1)))
  BY DEF CallIs
<1> HIDE DEF out
<1>2. DOMAIN out = 1..Len(out) /\ Len(out) \in Nat /\ \A k \in 1..Len(out) : out[k] \in DOMAIN p
  BY <1>1
<1>3. 0 \in R
  BY <1>2
<1>4. ASSUME NEW n \in Nat, n \in R PROVE n + 1 \in R
  <2> SUFFICES ASSUME NEW k \in 1..Len(out), k = n + 1, out[k] \in works PROVE out[k] \in c
    BY <1>2, <1>4
  <2>1. n \in 0..Len(out) /\ k - 1 = n
    BY <1>2
  <2>2. \A x : x \in ToSet(SubSeq(out, 1, n)) <=> Before(x, out, n + 1)
    BY <1>1, <2>1, TakenAre
  <2>3. works \cap ToSet(SubSeq(out, 1, n)) \subseteq c
    <3> SUFFICES ASSUME NEW j \in 1..Len(out), j < n + 1, out[j] \in works PROVE out[j] \in c
      BY <2>2 DEF Before
    <3>1. j <= n
      BY <1>2
    <3> QED BY <1>4, <3>1
  <2>4. p[out[k]] \subseteq c
    BY <1>1, <1>2, <2>1, <2>3
  <2> QED BY <1>2, <2>4 DEF Settled
<1> HIDE DEF R
<1>5. Len(out) \in R
  BY <1>2, <1>3, <1>4, Induction
<1>6. \A k \in 1..Len(out) : out[k] \in works => out[k] \in c
  BY <1>2, <1>5 DEF R
<1> QED BY <1>1, <1>2, <1>6 DEF ToSet

(* n calls complete a bead each until there is none to complete.           *)
CallsInv(p, works, n, c) ==
  /\ c \in SUBSET DOMAIN p
  /\ Settled(p, works, c) \/ n <= Cardinality(c)

LEMMA CallMore ==
  ASSUME NEW p, IsFiniteSet(DOMAIN p), NEW works, NEW n \in Nat, NEW c, CallsInv(p, works, n, c),
         NEW s, CallIs(p, works, c, s)
  PROVE  CallsInv(p, works, n + 1, s.done)
<1>1. c \subseteq DOMAIN p /\ s.done = c \cup (works \cap ToSet(s.sent)) /\ s.sent \in Seq(DOMAIN p)
  BY DEF CallsInv, CallIs
<1>2. s.done \subseteq DOMAIN p
  BY <1>1 DEF ToSet
<1>3. CASE Settled(p, works, c)
  BY <1>1, <1>3, SettledStays DEF CallsInv
<1>4. CASE ~Settled(p, works, c)
  <2>1. PICK b \in DOMAIN p \cap works : p[b] \subseteq c /\ b \notin c
    BY <1>4 DEF Settled
  <2>2. b \in s.done
    BY <2>1 DEF CallIs
  <2>3. n <= Cardinality(c)
    BY <1>4 DEF CallsInv
  <2>4. IsFiniteSet(c) /\ IsFiniteSet(s.done)
    BY <1>1, <1>2, FS_Subset
  <2>5. Cardinality(c) \in Nat /\ Cardinality(s.done) \in Nat
    BY <2>4, FS_CardinalityType
  <2>6. /\ Cardinality(c) <= Cardinality(s.done)
        /\ Cardinality(c) = Cardinality(s.done) => c = s.done
    <3>1. c \in SUBSET s.done
      BY <1>1
    <3> QED BY <2>4, <3>1, FS_Subset
  <2>7. n + 1 <= Cardinality(s.done)
    BY <2>1, <2>2, <2>3, <2>5, <2>6
  <2> QED BY <1>2, <2>7 DEF CallsInv
<1> QED BY <1>3, <1>4

LEMMA ListExists ==
  ASSUME NEW p, IsFiniteSet(DOMAIN p)
  PROVE  SetToSeq(DOMAIN p) \in Lists(p)
<1> DEFINE D == DOMAIN p
           n == Cardinality(D)
           Orders(f) == f \in [1..n -> D] /\ IsInjective(f)
<1>1. n \in Nat /\ ExistsBijection(1..n, D)
  BY FS_CardinalityType
<1>2. PICK f : f \in Bijection(1..n, D)
  BY <1>1 DEF ExistsBijection
<1>3. f \in [1..n -> D] /\ IsInjective(f)
  BY <1>2 DEF Bijection, Injection
<1> DEFINE s == CHOOSE g \in [1..n -> D] : IsInjective(g)
<1>4. s \in [1..n -> D] /\ IsInjective(s)
  BY <1>3
<1>5. SetToSeq(D) = s
  BY DEF SetToSeq
<1> HIDE DEF s
<1>6. s \in SetToSeqs(D)
  BY <1>1, <1>4 DEF SetToSeqs, IsInjective
<1> QED BY <1>5, <1>6 DEF Lists

(* Calls of dispatchWithPriority for a list without cycles, whatever the   *)
(* priorities and whoever fails (coordinator.ts:106): a bead goes out only *)
(* when all it needs has been completed, and as many calls as there are    *)
(* beads complete whatever can be completed.                               *)
THEOREM DispatchIsRight ==
  ASSUME NEW p, IsFiniteSet(DOMAIN p), Acyclic(p), NEW info,
         \A x \in DOMAIN p : priorityScore(info[x]) \in Int, NEW works \in SUBSET DOMAIN p
  PROVE  DispatchedRightly(p, info, works)
<1> DEFINE beads == SetToSeq(DOMAIN p)
           N == Len(beads)
           oneCall(done) == dispatchWithPriority(p, beads, info, works, done)
           V == SUBSET DOMAIN p
           Chained(f) == f = [n \in 0 .. Len(beads) |-> IF n = 0 THEN {} ELSE oneCall(f[n - 1]).done]
           chain == CHOOSE f : Chained(f)
           out(n) == oneCall(chain[n]).sent
           more == [x \in (1..N) \X V |-> oneCall(x[2]).done]
<1>1. beads \in Lists(p) /\ N = Cardinality(DOMAIN p) /\ N \in Nat
  <2>1. beads \in Lists(p)
    BY ListExists
  <2>2. N = Cardinality(DOMAIN p)
    BY <2>1, ListIs DEF Lists
  <2> QED BY <2>1, <2>2, FS_CardinalityType
<1>2. DispatchedRightly(p, info, works) <=>
        /\ \A n \in 0 .. N - 1 : \A i \in DOMAIN out(n) :
             p[out(n)[i]] \subseteq chain[n] \cup (works \cap ToSet(SubSeq(out(n), 1, i - 1)))
        /\ \A b \in works : p[b] \subseteq chain[N] => b \in chain[N]
  BY DEF DispatchedRightly
<1> HIDE DEF beads
<1>3. \A done : CallIs(p, works, done, oneCall(done))
  BY <1>1, CallIsRight
<1> HIDE DEF oneCall
<1>4. \A done \in V : oneCall(done).done \in V
  <2> TAKE done \in V
  <2>1. oneCall(done).sent \in Seq(DOMAIN p) /\ oneCall(done).done = done \cup (works \cap ToSet(oneCall(done).sent))
    BY <1>3 DEF CallIs
  <2> QED BY <2>1
<1>5. more \in [(1..N) \X V -> V] /\ {} \in V
  <2> HIDE DEF N
  <2> QED BY <1>4
<1>6. \A n \in 1..N, v \in V : more[<<n, v>>] = oneCall(v).done
  OBVIOUS
<1> HIDE DEF more, V, N, chain
<1>7. PICK f : Loops(f, N, V, {}, more)
  BY <1>1, <1>5, LoopExists
<1>8. \A n \in 1..N : n - 1 \in 0..N /\ f[n - 1] \in V
  BY <1>1, <1>7 DEF Loops
<1>9. \A n \in 1..N : f[n] = oneCall(f[n - 1]).done
  BY <1>6, <1>7, <1>8 DEF Loops
<1>10. Chained(f)
  <2> DEFINE E(n) == IF n = 0 THEN {} ELSE oneCall(f[n - 1]).done
  <2>1. \A n \in 0..N : n = 0 \/ n \in 1..N
    BY <1>1
  <2>2. \A n \in 0..N : f[n] = E(n)
    BY <1>7, <1>9, <2>1 DEF Loops
  <2> HIDE DEF E
  <2>3. f = [n \in 0..N |-> E(n)]
    BY <1>7, <2>2 DEF Loops
  <2> QED BY <2>3 DEF E, N
<1>11. Chained(chain)
  <2> HIDE DEF Chained
  <2> QED BY <1>10 DEF chain
<1>12. chain[0] = {} /\ \A n \in 1..N : chain[n] = oneCall(chain[n - 1]).done
  <2> DEFINE E(n) == IF n = 0 THEN {} ELSE oneCall(chain[n - 1]).done
  <2>1. chain = [n \in 0..N |-> E(n)]
    BY <1>11 DEF N
  <2>2. \A n \in 0..N : n = 0 <=> n \notin 1..N
    BY <1>1
  <2>3. 0 \in 0..N /\ \A n \in 1..N : n \in 0..N
    BY <1>1
  <2> HIDE DEF E
  <2>4. \A n \in 0..N : chain[n] = E(n)
    BY <2>1
  <2> QED BY <2>2, <2>3, <2>4 DEF E
<1> DEFINE R == {n \in Nat : n <= N => CallsInv(p, works, n, chain[n])}
<1>13. 0 \in R
  <2>1. CallsInv(p, works, 0, {})
    BY FS_EmptySet DEF CallsInv
  <2> QED BY <1>12, <2>1
<1>14. ASSUME NEW n \in Nat, n \in R PROVE n + 1 \in R
  <2> SUFFICES ASSUME n + 1 <= N PROVE CallsInv(p, works, n + 1, chain[n + 1])
    OBVIOUS
  <2>1. n + 1 \in 1..N /\ (n + 1) - 1 = n /\ n <= N
    BY <1>1
  <2>2. CallsInv(p, works, n, chain[n]) /\ chain[n + 1] = oneCall(chain[n]).done
    BY <1>12, <1>14, <2>1
  <2> QED BY <1>3, <2>2, CallMore
<1> HIDE DEF R
<1>15. N \in R
  BY <1>1, <1>13, <1>14, Induction
<1>16. CallsInv(p, works, N, chain[N])
  BY <1>1, <1>15 DEF R
<1>17. Settled(p, works, chain[N])
  <2>1. CASE N <= Cardinality(chain[N])
    <3>1. chain[N] \in SUBSET DOMAIN p
      BY <1>16 DEF CallsInv
    <3>2. /\ Cardinality(chain[N]) <= Cardinality(DOMAIN p)
          /\ Cardinality(DOMAIN p) = Cardinality(chain[N]) => DOMAIN p = chain[N]
      BY <3>1, FS_Subset
    <3>3. Cardinality(chain[N]) \in Nat
      BY <3>1, FS_Subset, FS_CardinalityType
    <3>4. chain[N] = DOMAIN p
      BY <1>1, <2>1, <3>2, <3>3
    <3> QED BY <3>4 DEF Settled
  <2> QED BY <1>16, <2>1 DEF CallsInv
<1>18. \A n \in 0 .. N - 1 : \A i \in DOMAIN out(n) :
         p[out(n)[i]] \subseteq chain[n] \cup (works \cap ToSet(SubSeq(out(n), 1, i - 1)))
  BY <1>3 DEF CallIs
<1>19. \A b \in works : p[b] \subseteq chain[N] => b \in chain[N]
  BY <1>17 DEF Settled
<1> QED BY <1>2, <1>18, <1>19

-----------------------------------------------------------------------------
(***************************************************************************)
(* The plans.  What orchestrate writes passed the guard, and older beads   *)
(* need nothing of a plan whose ids were drawn after them, so beads of a   *)
(* plan close no cycle in the ledger, however few of them it gets.  A plan *)
(* that comes from decompose has no needs within itself, which is why no   *)
(* plan is ever refused.                                                   *)
(***************************************************************************)

(* The plan under review has only needs that were drawn before it, the one *)
(* that is written no cycle; the ledger has what was written of it.        *)
InHand ==
  /\ stage \in {"idle", "decomposing"} => plan = noPlan
  /\ stage = "reviewing" =>
       /\ DOMAIN plan \cap Known = {}
       /\ \A b \in DOMAIN plan : plan[b] \cap DOMAIN plan = {}
  /\ stage = "writing" =>
       /\ Acyclic(plan)
       /\ \A b \in DOMAIN plan \cap Known : needs[b] = plan[b]
  /\ \A b \in DOMAIN plan : plan[b] \subseteq drawn \cup {noSuchBead}

(* Needs are drawn before the beads of a later plan are. *)
Drawn ==
  /\ drawn \subseteq Bead
  /\ \A b \in Known : needs[b] \subseteq drawn \cup {noSuchBead}
  /\ \A b \in Known \ DOMAIN plan : needs[b] \cap DOMAIN plan = {}

PlanInv == PlanTypeOK /\ InHand /\ Drawn /\ LedgerIsAcyclic /\ ReviewNeverBreaksPlan

(* A part of a plan without cycles has none; nor has a plan whose needs    *)
(* are all outside.                                                        *)
LEMMA NoNeedsNoCycle ==
  ASSUME NEW p, \A b \in DOMAIN p : p[b] \cap DOMAIN p = {}
  PROVE  Acyclic(p)
BY DEF Acyclic

LEMMA NoPlanIsEmpty == DOMAIN noPlan = {}
BY DEF noPlan

LEMMA PlanIsFinite ==
  ASSUME NEW p, DOMAIN p \subseteq Bead
  PROVE  IsFiniteSet(DOMAIN p)
BY IdAssumption, FS_Subset

(* Writing a record of a known bead leaves what is known, and one of a new *)
(* bead adds it.                                                           *)
LEMMA WrittenIsKnown ==
  ASSUME PlanTypeOK, NEW b \in Bead, NEW s \in Status, NEW o \in Outcome,
         ledger' = Written(ledger, b, s, o)
  PROVE  ledger' \in [Bead -> Seq(Record)] /\ Known' = Known \cup {b}
<1>1. [status |-> s, outcome |-> o] \in Record
  BY DEF Record
<1>2. /\ ledger' \in [Bead -> Seq(Record)]
      /\ ledger'[b] = Append(ledger[b], [status |-> s, outcome |-> o])
      /\ \A a \in Bead \ {b} : ledger'[a] = ledger[a]
  BY <1>1 DEF PlanTypeOK, Written
<1>3. ledger'[b] # <<>>
  BY <1>1, <1>2 DEF PlanTypeOK
<1> QED BY <1>2, <1>3 DEF Known

(* A step that writes no bead and has no plan in hand afterwards.          *)
LEMMA PlanGone ==
  ASSUME PlanInv, UNCHANGED <<ledger, needs, dispatched>>, stage' \in {"idle", "decomposing"},
         plan' = noPlan, todo' = {}, planned' \in {planned, planned \cup DOMAIN plan},
         planned' \subseteq Known,
         refusal' \in {"none", "capacity", "inbox", "lock", refusal}, adopted' \in BOOLEAN,
         drawn' = drawn, plans' \in 0..MaxPlans
  PROVE  PlanInv'
<1>1. Known' = Known
  BY DEF Known
<1>2. PlanTypeOK'
  BY <1>1, NoPlanIsEmpty DEF PlanInv, PlanTypeOK, ReviewNeverBreaksPlan
<1>3. InHand' /\ Drawn'
  BY <1>1, NoPlanIsEmpty DEF PlanInv, InHand, Drawn
<1>4. LedgerIsAcyclic'
  BY <1>1 DEF PlanInv, LedgerIsAcyclic
<1> QED BY <1>2, <1>3, <1>4 DEF PlanInv, ReviewNeverBreaksPlan

(* The guard lets a fresh plan without cycles through.                     *)
LEMMA GuardPasses ==
  ASSUME PlanInv, NEW p, DOMAIN p \subseteq Bead, Guard(p), Acyclic(p),
         UNCHANGED <<ledger, needs, planned, dispatched, adopted, plans>>,
         DOMAIN p \cap Known = {},
         DOMAIN p \subseteq drawn', drawn \subseteq drawn', drawn' \subseteq Bead,
         \A b \in DOMAIN p : p[b] \subseteq drawn' \cup {noSuchBead},
         \A b \in Known : needs[b] \cap DOMAIN p = {}
  PROVE  PlanInv'
<1>1. ~detectCycles(p)
  BY PlanIsFinite, CyclesAreFound
<1>2. stage' = "writing" /\ plan' = p /\ todo' = DOMAIN p /\ refusal' = refusal
  BY <1>1 DEF Guard
<1>3. Known' = Known
  BY DEF Known
<1>4. PlanTypeOK'
  BY <1>2, <1>3 DEF PlanInv, PlanTypeOK
<1>5. InHand'
  BY <1>2, <1>3 DEF PlanInv, InHand, Acyclic
<1>6. Drawn'
  BY <1>2, <1>3 DEF PlanInv, Drawn
<1>7. LedgerIsAcyclic'
  BY <1>3 DEF PlanInv, LedgerIsAcyclic
<1> QED BY <1>2, <1>4, <1>5, <1>6, <1>7 DEF PlanInv, ReviewNeverBreaksPlan

(* Ids that were never drawn are nobody's needs.                           *)
LEMMA FreshIsUnneeded ==
  ASSUME PlanInv, NEW S \in SUBSET Bead, S \cap drawn = {}
  PROVE  /\ S \cap Known = {}
         /\ \A b \in Known : needs[b] \cap S = {}
         /\ \A n \in Known \cup {noSuchBead} : n \notin S
BY IdAssumption DEF PlanInv, PlanTypeOK, Drawn

LEMMA DecomposedStep ==
  ASSUME PlanInv, NEW S \in SUBSET Bead, Decomposed(S)
  PROVE  PlanInv'
<1> USE DEF Decomposed
<1>1. PICK p \in [S -> SUBSET (Known \cup {noSuchBead})] :
        \/ /\ Cardinality(S) > 1
           /\ stage' = "reviewing" /\ plan' = p
           /\ UNCHANGED <<todo, refusal>>
        \/ Cardinality(S) <= 1 /\ Guard(p)
  OBVIOUS
<1>2. /\ S \cap Known = {} /\ \A b \in Known : needs[b] \cap S = {}
      /\ \A n \in Known \cup {noSuchBead} : n \notin S
      /\ S \cap drawn = {} /\ drawn' = drawn \cup S
  BY FreshIsUnneeded
<1>3. /\ DOMAIN p = S /\ \A b \in S : p[b] \subseteq Known \cup {noSuchBead}
      /\ \A b \in S : p[b] \cap S = {}
  BY <1>2
<1>4. drawn' \subseteq Bead /\ drawn \subseteq drawn' /\ Known \subseteq drawn
  BY <1>2 DEF PlanInv, PlanTypeOK, Drawn
<1>5. UNCHANGED <<ledger, needs, planned, dispatched, adopted, plans>>
  OBVIOUS
<1>6. CASE Guard(p)
  <2>1. Acyclic(p)
    BY <1>3, NoNeedsNoCycle
  <2>2. \A b \in DOMAIN p : p[b] \subseteq drawn' \cup {noSuchBead}
    BY <1>3, <1>4
  <2> QED BY <1>2, <1>3, <1>4, <1>5, <1>6, <2>1, <2>2, GuardPasses
<1>7. CASE stage' = "reviewing" /\ plan' = p /\ UNCHANGED <<todo, refusal>>
  <2>1. Known' = Known
    BY <1>5 DEF Known
  <2>2. todo = {}
    BY NoPlanIsEmpty DEF PlanInv, PlanTypeOK, InHand
  <2>3. PlanTypeOK'
    BY <1>2, <1>3, <1>4, <1>5, <1>7, <2>1, <2>2 DEF PlanInv, PlanTypeOK
  <2>4. InHand' /\ Drawn'
    BY <1>2, <1>3, <1>4, <1>5, <1>7, <2>1 DEF PlanInv, InHand, Drawn
  <2>5. LedgerIsAcyclic'
    BY <1>5, <2>1 DEF PlanInv, LedgerIsAcyclic
  <2> QED BY <1>7, <2>3, <2>4, <2>5 DEF PlanInv, ReviewNeverBreaksPlan
<1> QED BY <1>1, <1>6, <1>7

LEMMA FailsStep ==
  ASSUME PlanInv, NEW b \in Bead, DecomposeFails(b)
  PROVE  PlanInv'
<1> DEFINE p == [x \in {b} |-> {}]
<1>1. /\ b \notin drawn /\ drawn' = drawn \cup {b} /\ Guard(p)
      /\ UNCHANGED <<ledger, needs, planned, dispatched, adopted, plans>>
  BY DEF DecomposeFails
<1>2. DOMAIN p = {b} /\ \A x \in DOMAIN p : p[x] = {}
  OBVIOUS
<1> HIDE DEF p
<1>3. {b} \cap Known = {} /\ \A a \in Known : needs[a] \cap {b} = {}
  <2>1. {b} \in SUBSET Bead /\ {b} \cap drawn = {}
    BY <1>1
  <2> QED BY <2>1, FreshIsUnneeded
<1>4. drawn' \subseteq Bead /\ drawn \subseteq drawn'
  BY <1>1 DEF PlanInv, Drawn
<1>5. Acyclic(p)
  BY <1>2, NoNeedsNoCycle
<1> QED BY <1>1, <1>2, <1>3, <1>4, <1>5, GuardPasses

LEMMA ReviewStep ==
  ASSUME PlanInv, NEW add \in [DOMAIN plan -> SUBSET DOMAIN plan], covePass(add)
  PROVE  PlanInv'
<1> DEFINE updated == [b \in DOMAIN plan |-> plan[b] \cup add[b]]
           p == IF detectCycles(updated) THEN plan ELSE updated
<1>1. /\ stage = "reviewing" /\ Guard(p)
      /\ UNCHANGED <<ledger, needs, planned, dispatched, adopted, drawn, plans>>
  BY DEF covePass
<1>2. /\ DOMAIN updated = DOMAIN plan
      /\ \A b \in DOMAIN plan : updated[b] = plan[b] \cup add[b] /\ add[b] \subseteq DOMAIN plan
  OBVIOUS
<1>3. DOMAIN plan \subseteq Bead /\ DOMAIN plan \subseteq drawn /\ drawn \subseteq Bead
  BY DEF PlanInv, PlanTypeOK, Drawn
<1> HIDE DEF updated
<1>4. DOMAIN p = DOMAIN plan /\ \A b \in DOMAIN p : p[b] \subseteq drawn \cup {noSuchBead}
  BY <1>2, <1>3 DEF PlanInv, InHand
<1>5. Acyclic(p)
  <2>1. Acyclic(plan)
    BY <1>1, NoNeedsNoCycle DEF PlanInv, InHand
  <2>2. ~detectCycles(updated) => Acyclic(updated)
    BY <1>2, <1>3, PlanIsFinite, CyclesAreFound
  <2> QED BY <2>1, <2>2
<1>6. DOMAIN plan \cap Known = {} /\ \A b \in Known : needs[b] \cap DOMAIN plan = {}
  BY <1>1 DEF PlanInv, InHand, Drawn
<1> HIDE DEF p
<1> QED BY <1>1, <1>3, <1>4, <1>5, <1>6, GuardPasses

(* A bead of a plan without cycles joins a ledger without cycles.          *)
LEMMA WriteStep ==
  ASSUME PlanInv, NEW b \in Bead, WriteBead(b)
  PROVE  PlanInv'
<1>1. /\ stage = "writing" /\ b \in todo /\ b \in DOMAIN plan /\ b \notin Known
      /\ ledger' = Written(ledger, b, "pending", "none")
      /\ needs' = [needs EXCEPT ![b] = plan[b]] /\ todo' = todo \ {b}
      /\ UNCHANGED <<stage, plan, planned, dispatched, refusal, adopted, drawn, plans>>
  BY DEF WriteBead, PlanInv, PlanTypeOK
<1>2. ledger' \in [Bead -> Seq(Record)] /\ Known' = Known \cup {b}
  BY <1>1, WrittenIsKnown DEF PlanInv, Status, Outcome
<1>3. plan[b] \subseteq drawn \cup {noSuchBead} /\ drawn \subseteq Bead /\ DOMAIN plan \subseteq drawn
  BY <1>1 DEF PlanInv, PlanTypeOK, InHand, Drawn
<1>4. /\ needs'[b] = plan[b] /\ \A a \in Bead \ {b} : needs'[a] = needs[a]
      /\ needs' \in [Bead -> SUBSET (Bead \cup {noSuchBead})]
  BY <1>1, <1>3 DEF PlanInv, PlanTypeOK
<1>5. PlanTypeOK'
  BY <1>1, <1>2, <1>3, <1>4 DEF PlanInv, PlanTypeOK
<1>6. InHand'
  BY <1>1, <1>2, <1>4 DEF PlanInv, InHand, Acyclic
<1>7. Drawn'
  BY <1>1, <1>2, <1>3, <1>4 DEF PlanInv, Drawn
<1>8. LedgerIsAcyclic'
  <2> SUFFICES ASSUME NEW S \in SUBSET Known', S # {}
               PROVE  \E a \in S : needs'[a] \cap S = {}
    BY DEF LedgerIsAcyclic, Acyclic
  <2>1. CASE S \subseteq DOMAIN plan
    <3>1. PICK a \in S : plan[a] \cap S = {}
      BY <1>1, <2>1 DEF PlanInv, InHand, Acyclic
    <3>2. a \in Known' /\ Known' \subseteq Bead
      BY <2>1 DEF Known
    <3>3. needs'[a] = plan[a]
      BY <1>1, <1>2, <1>4, <2>1, <3>2 DEF PlanInv, InHand
    <3> QED BY <3>1, <3>3
  <2>2. CASE ~(S \subseteq DOMAIN plan)
    <3> DEFINE T == S \ DOMAIN plan
    <3>1. T # {} /\ T \in SUBSET Known
      BY <1>1, <1>2, <2>2
    <3>2. PICK a \in T : needs[a] \cap T = {}
      BY <3>1 DEF PlanInv, LedgerIsAcyclic, Acyclic
    <3>3. needs[a] \cap DOMAIN plan = {}
      BY <3>1, <3>2 DEF PlanInv, Drawn
    <3>4. needs'[a] = needs[a]
      BY <1>1, <1>4, <3>1, <3>2 DEF Known
    <3> QED BY <3>2, <3>3, <3>4
  <2> QED BY <2>1, <2>2
<1> QED BY <1>1, <1>5, <1>6, <1>7, <1>8 DEF PlanInv, ReviewNeverBreaksPlan

(* What workers report is about beads the ledger knows.                    *)
LEMMA ProgressStep ==
  ASSUME PlanInv, NEW b \in Bead, Progress(b)
  PROVE  PlanInv'
<1>1. b \in Known
  BY DEF Progress, PlanInv, PlanTypeOK
<1>2. PICK s \in Status, o \in Outcome : ledger' = Written(ledger, b, s, o)
  BY DEF Progress, Status, Outcome
<1>3. ledger' \in [Bead -> Seq(Record)] /\ Known' = Known
  BY <1>1, <1>2, WrittenIsKnown DEF PlanInv
<1>4. UNCHANGED <<needs, stage, plan, todo, planned, dispatched, refusal, adopted, drawn, plans>>
  BY DEF Progress
<1>5. PlanTypeOK'
  BY <1>3, <1>4 DEF PlanInv, PlanTypeOK
<1>6. InHand' /\ Drawn'
  BY <1>3, <1>4 DEF PlanInv, InHand, Drawn, Acyclic
<1>7. LedgerIsAcyclic'
  BY <1>3, <1>4 DEF PlanInv, LedgerIsAcyclic
<1> QED BY <1>4, <1>5, <1>6, <1>7 DEF PlanInv, ReviewNeverBreaksPlan

LEMMA PlanStep == PlanInv /\ [PlanNext]_planVars => PlanInv'
<1> SUFFICES ASSUME PlanInv, [PlanNext]_planVars PROVE PlanInv'
  OBVIOUS
<1>1. CASE UNCHANGED planVars
  <2>1. Known' = Known
    BY <1>1 DEF Known, planVars
  <2> QED BY <1>1, <2>1 DEF planVars, PlanInv, PlanTypeOK, InHand, Drawn, LedgerIsAcyclic,
                            ReviewNeverBreaksPlan, Acyclic
<1>2. /\ planned \subseteq Known /\ adopted \in BOOLEAN /\ plans \in 0..MaxPlans
      /\ plan = noPlan \/ stage \in {"reviewing", "writing"}
      /\ todo \subseteq DOMAIN plan
      /\ stage \in {"idle", "decomposing", "reviewing", "writing"}
  BY DEF PlanInv, PlanTypeOK, InHand
<1>3. plans < MaxPlans => plans + 1 \in 0..MaxPlans
  BY <1>2, LimitAssumption
<1>4. ASSUME NEW limit \in {Limit, Expanded}, orchestrate(limit) \/ Refuse(limit)
      PROVE  PlanInv'
  BY <1>2, <1>3, <1>4, PlanGone, NoPlanIsEmpty DEF orchestrate, Refuse, Throw
<1>5. ASSUME WriteTimeout \/ startup
      PROVE  PlanInv'
  <2>1. adopted' \in BOOLEAN
    BY <1>2, <1>5 DEF WriteTimeout, startup
  <2> QED BY <1>2, <1>5, <2>1, PlanGone DEF WriteTimeout, Throw, startup
<1>6. CASE ReturnPlan
  <2>1. DOMAIN plan \subseteq Known
    BY <1>6 DEF ReturnPlan, PlanInv, PlanTypeOK
  <2> QED BY <1>2, <1>6, <2>1, PlanGone DEF ReturnPlan
<1>7. ASSUME NEW b \in Bead, DispatchBead(b)
      PROVE  PlanInv'
  <2>1. Known' = Known
    BY <1>7 DEF Known, DispatchBead
  <2> QED BY <1>7, <2>1 DEF DispatchBead, PlanInv, PlanTypeOK, InHand, Drawn, LedgerIsAcyclic,
                            ReviewNeverBreaksPlan, Acyclic
<1> QED BY <1>1, <1>4, <1>5, <1>6, <1>7, DecomposedStep, FailsStep, ReviewStep, WriteStep,
           ProgressStep DEF PlanNext

LEMMA PlanStart == PlanInit => PlanInv
<1> SUFFICES ASSUME PlanInit PROVE PlanInv
  OBVIOUS
<1>1. Known = {}
  BY DEF PlanInit, Known
<1>2. PlanTypeOK
  <2>1. ledger \in [Bead -> Seq(Record)] /\ needs \in [Bead -> SUBSET (Bead \cup {noSuchBead})]
    BY DEF PlanInit
  <2>2. plans \in 0..MaxPlans /\ DOMAIN plan = {}
    BY NoPlanIsEmpty, LimitAssumption DEF PlanInit
  <2> QED BY <1>1, <2>1, <2>2 DEF PlanInit, PlanTypeOK
<1>3. InHand /\ Drawn /\ LedgerIsAcyclic
  BY <1>1, NoPlanIsEmpty DEF PlanInit, InHand, Drawn, LedgerIsAcyclic, Acyclic
<1> QED BY <1>2, <1>3 DEF PlanInv, PlanInit, ReviewNeverBreaksPlan

(* HARDENING.md 2.3: the needs of the beads in the ledger are never on a   *)
(* cycle, whatever the models answer and however little of a plan is       *)
(* written before orchestrate throws or the Mayor is replaced.             *)
THEOREM NoCycleIsWritten == PlanSpec => []LedgerIsAcyclic
<1>1. PlanInv => LedgerIsAcyclic
  BY DEF PlanInv
<1> QED BY <1>1, PlanStart, PlanStep, PTL DEF PlanSpec

(* No plan is refused for a cycle: the corrections that close one are      *)
(* dropped, and the plan that remains has none.                            *)
THEOREM NoPlanIsRefused == PlanSpec => []ReviewNeverBreaksPlan
<1>1. PlanInv => ReviewNeverBreaksPlan
  BY DEF PlanInv
<1> QED BY <1>1, PlanStart, PlanStep, PTL DEF PlanSpec

(* RESILIENCE.md, Mayor Session Recovery: whenever the latest record of a  *)
(* bead is open, a replacement Mayor that starts then adopts.              *)
THEOREM OrphansAreAdopted == PlanSpec => UnfinishedAreAdopted
<1>1. ASSUME PlanInv, startup, Unfinished # {} PROVE adopted'
  <2>1. PICK b \in Bead : LatestIs(ledger[b], IsOpen)
    BY <1>1 DEF Unfinished
  <2>2. ledger[b] \in Seq(Record) /\ ledger[b] # <<>> /\ IsOpen(ledger[b][Len(ledger[b])])
    BY <1>1, <2>1 DEF PlanInv, PlanTypeOK, LatestIs, Latest
  <2>3. Len(ledger[b]) \in DOMAIN ledger[b]
    BY <2>2
  <2>4. Some(ledger[b], IsOpen)
    BY <2>2, <2>3 DEF Some
  <2> QED BY <1>1, <2>4 DEF startup
<1>2. PlanInv /\ [PlanNext]_planVars => [startup /\ Unfinished # {} => adopted']_planVars
  BY <1>1
<1> QED BY <1>2, PlanStart, PlanStep, PTL DEF PlanSpec, UnfinishedAreAdopted

(* Whatever the corrections of a plan under review, the search for cycles  *)
(* and the coordinator's sort agree on whether it has one, and the sort    *)
(* puts every bead behind its needs (tools.ts:189, coordinator.ts:31).     *)
THEOREM SearchesAlwaysAgree == PlanSpec => []SearchesAgree
<1>1. ASSUME PlanInv PROVE SearchesAgree
  <2> SUFFICES ASSUME NEW add \in [DOMAIN plan -> SUBSET DOMAIN plan]
               PROVE  SearchedRightly([b \in DOMAIN plan |-> plan[b] \cup add[b]])
    BY DEF SearchesAgree
  <2> DEFINE p == [b \in DOMAIN plan |-> plan[b] \cup add[b]]
  <2>1. IsFiniteSet(DOMAIN p)
    <3>1. DOMAIN p \subseteq Bead
      BY <1>1 DEF PlanInv, PlanTypeOK
    <3> HIDE DEF p
    <3> QED BY <3>1, PlanIsFinite
  <2> HIDE DEF p
  <2>2. detectCycles(p) <=> ~Acyclic(p)
    BY <2>1, CyclesAreFound
  <2>3. \A beads \in Lists(p) :
          IF Acyclic(p) THEN Sorts(p, topologicalSort(p, beads))
          ELSE Len(topologicalSort(p, beads)) < Len(beads)
    BY <2>1, SortIsRight
  <2>4. SearchedRightly(p)
    BY <2>2, <2>3 DEF SearchedRightly
  <2> QED BY <2>4 DEF p
<1> QED BY <1>1, PlanStart, PlanStep, PTL DEF PlanSpec

(* "Dispatch beads in priority order, respecting dependencies"             *)
(* (coordinator.ts:106): of every plan the guard lets through.             *)
THEOREM DispatchAlwaysFollows == PlanSpec => []DispatchFollowsNeeds
<1>1. ASSUME PlanInv PROVE DispatchFollowsNeeds
  <2> SUFFICES ASSUME stage = "writing", NEW info \in Infos(plan), NEW works \in SUBSET DOMAIN plan
               PROVE  DispatchedRightly(plan, info, works)
    BY DEF DispatchFollowsNeeds
  <2>1. IsFiniteSet(DOMAIN plan) /\ Acyclic(plan)
    BY <1>1, PlanIsFinite DEF PlanInv, PlanTypeOK, InHand
  <2>2. ASSUME NEW x \in DOMAIN plan PROVE priorityScore(info[x]) \in Int
    <3>1. \/ info[x] \in [critical : BOOLEAN, weight : {1}]
          \/ info[x] \in [critical : {FALSE}, weight : {2}]
      BY DEF Infos
    <3>2. info[x].weight \in {1, 2}
      BY <3>1
    <3> QED BY <3>2 DEF priorityScore
  <2> QED BY <2>1, <2>2, DispatchIsRight
<1> QED BY <1>1, PlanStart, PlanStep, PTL DEF PlanSpec
=============================================================================
