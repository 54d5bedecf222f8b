----------------------------- MODULE GroqProvider -----------------------------
(***************************************************************************)
(* GroqProvider.executeInference with runWithRetry (src/groq/provider.ts)  *)
(* and the CircuitBreaker every request passes                             *)
(* (src/resilience/circuit-breaker.ts).  Calls share one provider, as the  *)
(* judges of a council do; they interleave at the answers of the API, the  *)
(* backoff timers, the pruning Deacon and the local Ollama server.  Each   *)
(* of these is a choice.                                                   *)
(***************************************************************************)
EXTENDS Naturals, FiniteSets

CONSTANTS Call,
          Eligible,          \* calls of roles that may fall back to Ollama
          FailureThreshold,  \* failureThreshold
          MaxRetries         \* DEFAULT_MAX_RETRIES

ASSUME ProviderAssumption ==
  FailureThreshold \in Nat \ {0} /\ MaxRetries \in Nat \ {0} /\ Eligible \subseteq Call

VARIABLES
  state, consecutiveFailures,
  cooled,    \* recoveryTimeoutMs have passed since lastFailureAt
  outage,    \* groqOutageStartAt: none, recent, or longer ago than the threshold
  health,    \* the last PROVIDER_* heartbeat
  deprecated,\* MODEL_DEPRECATED was emitted
  call       \* what each call does

breaker == <<state, consecutiveFailures, cooled>>
providerVars == <<breaker, outage, health, deprecated, call>>

fresh == [pc |-> "idle", model |-> "primary", attempt |-> 0, pruned |-> FALSE,
          lastError |-> "none"]

ProviderInit ==
  /\ state = "CLOSED" /\ consecutiveFailures = 0 /\ cooled = FALSE
  /\ outage = "none" /\ health = "none" /\ deprecated = FALSE
  /\ call = [c \in Call |-> fresh]

-----------------------------------------------------------------------------
(* CircuitBreaker. *)

Admits(st) == st # "OPEN" \/ cooled

onSuccess ==
  /\ state' = "CLOSED" /\ consecutiveFailures' = 0
  /\ UNCHANGED cooled

(* A failure more; above the threshold the count is only logged. *)
OneMore == IF consecutiveFailures < FailureThreshold
           THEN consecutiveFailures + 1 ELSE consecutiveFailures

(* Mutant of onFailure: the failure after the threshold opens the circuit. *)
onFailureLate ==
  /\ consecutiveFailures' = OneMore
  /\ cooled' = FALSE
  /\ state' = IF state = "HALF_OPEN" \/ consecutiveFailures >= FailureThreshold
              THEN "OPEN" ELSE state

onFailure ==
  /\ consecutiveFailures' = OneMore
  /\ cooled' = FALSE
  /\ state' = IF state = "HALF_OPEN" \/ consecutiveFailures' >= FailureThreshold
              THEN "OPEN" ELSE state

(* recoveryTimeoutMs pass after a failure. *)
Cool ==
  /\ state = "OPEN" /\ ~cooled /\ cooled' = TRUE
  /\ UNCHANGED <<state, consecutiveFailures, outage, health, deprecated, call>>

-----------------------------------------------------------------------------
(* runWithRetry. *)

Becomes(c, r) == call' = [call EXCEPT ![c] = r]

(* One attempt of the call described by r: it is sent, or the refusal of   *)
(* the breaker is retried like any other error.                            *)
Sent(r) == [r EXCEPT !.pc = "requesting"]
Refused(r) == [r EXCEPT !.pc = "backoff", !.lastError = "CIRCUIT_OPEN"]

Attempt(c, r) ==
  /\ Becomes(c, IF Admits(state) THEN Sent(r) ELSE Refused(r))
  /\ state' = IF Admits(state) /\ state = "OPEN" THEN "HALF_OPEN" ELSE state
  /\ UNCHANGED <<consecutiveFailures, cooled>>

(* The call throws and PROVIDER_EXHAUSTED tells of it. *)
Exhausted(c) ==
  /\ Becomes(c, [call[c] EXCEPT !.pc = "failed"])
  /\ outage' = IF outage = "none" THEN "recent" ELSE outage
  /\ health' = "EXHAUSTED"

(* Mutant of Succeeds: the outage timer is left running. *)
SucceedsInOutage(c) ==
  /\ Becomes(c, [call[c] EXCEPT !.pc = "done"])
  /\ health' = IF call[c].lastError # "none" THEN "RECOVERED" ELSE health
  /\ UNCHANGED outage

Succeeds(c) ==
  /\ Becomes(c, [call[c] EXCEPT !.pc = "done"])
  /\ health' = IF call[c].lastError # "none" THEN "RECOVERED" ELSE health
  /\ outage' = "none"

AnswerOk(c) ==
  /\ call[c].pc = "requesting"
  /\ onSuccess
  /\ Succeeds(c)
  /\ UNCHANGED deprecated

(* An answer without the JSON asked for; the breaker sees a success. *)
AnswerMalformed(c) ==
  /\ call[c].pc = "requesting"
  /\ onSuccess
  /\ IF call[c].attempt + 1 < MaxRetries
     THEN /\ Becomes(c, Sent([call[c] EXCEPT !.attempt = @ + 1,
                                             !.lastError = "malformed"]))
          /\ UNCHANGED <<outage, health>>
     ELSE Exhausted(c)
  /\ UNCHANGED deprecated

(* 429 and any other error: wait, then try again. *)
AnswerError(c, error) ==
  /\ call[c].pc = "requesting"
  /\ onFailure
  /\ Becomes(c, [call[c] EXCEPT !.pc = "backoff", !.lastError = error])
  /\ UNCHANGED <<outage, health, deprecated>>

(* Mutant of Wake: the retries start again. *)
WakeAnew(c) ==
  /\ call[c].pc = "backoff"
  /\ Attempt(c, [call[c] EXCEPT !.attempt = (@ + 1) % MaxRetries])
  /\ UNCHANGED <<outage, health, deprecated>>

(* The backoff ends, after the last attempt too. *)
Wake(c) ==
  /\ call[c].pc = "backoff"
  /\ IF call[c].attempt + 1 < MaxRetries
     THEN /\ Attempt(c, [call[c] EXCEPT !.attempt = @ + 1])
          /\ UNCHANGED <<outage, health>>
     ELSE Exhausted(c) /\ UNCHANGED breaker
  /\ UNCHANGED deprecated

-----------------------------------------------------------------------------
(* executeInference. *)

(* Roles that may go to Ollama do once the outage is older than a minute. *)
ToOllama(c) == c \in Eligible /\ outage = "long"

Enter(c, r) ==
  IF ToOllama(c)
  THEN Becomes(c, [r EXCEPT !.pc = "ollama"]) /\ UNCHANGED breaker
  ELSE Attempt(c, r)

executeInference(c) ==
  /\ call[c].pc = "idle"
  /\ Enter(c, fresh)
  /\ UNCHANGED <<outage, health, deprecated>>

(* model_not_found: the primary model is swapped for the fallback. *)
AnswerNotFound(c) ==
  /\ call[c].pc = "requesting"
  /\ onFailure
  /\ IF call[c].model = "primary"
     THEN LET r == [call[c] EXCEPT !.model = "fallback", !.attempt = 0, !.lastError = "none"]
          IN  /\ deprecated' = TRUE
              /\ Becomes(c, IF state' = "OPEN" THEN Refused(r) ELSE Sent(r))
              /\ UNCHANGED <<outage, health>>
     ELSE Exhausted(c) /\ UNCHANGED deprecated

(* context_length_exceeded: one prune, of a call to the primary model. *)
AnswerContext(c) ==
  /\ call[c].pc = "requesting"
  /\ onFailure
  /\ IF call[c].model = "primary" /\ ~call[c].pruned
     THEN Becomes(c, [call[c] EXCEPT !.pc = "pruning"]) /\ UNCHANGED <<outage, health>>
     ELSE Exhausted(c)
  /\ UNCHANGED deprecated

Pruned(c) ==
  /\ call[c].pc = "pruning"
  /\ Enter(c, [call[c] EXCEPT !.pruned = TRUE, !.attempt = 0, !.lastError = "none"])
  /\ UNCHANGED <<outage, health, deprecated>>

(* The error the pruning was for is thrown. *)
PruneFails(c) ==
  /\ call[c].pc = "pruning"
  /\ Becomes(c, [call[c] EXCEPT !.pc = "failed"])
  /\ UNCHANGED <<breaker, outage, health, deprecated>>

OllamaAnswers(c) ==
  /\ call[c].pc = "ollama"
  /\ Becomes(c, [call[c] EXCEPT !.pc = "done"])
  /\ outage' = "none" /\ health' = "RECOVERED"
  /\ UNCHANGED <<breaker, deprecated>>

OllamaFails(c) ==
  /\ call[c].pc = "ollama"
  /\ Becomes(c, [call[c] EXCEPT !.pc = "failed"])
  /\ UNCHANGED <<breaker, outage, health, deprecated>>

(* OLLAMA_ACTIVATION_THRESHOLD_MS pass. *)
OutageAges ==
  /\ outage = "recent" /\ outage' = "long"
  /\ UNCHANGED <<breaker, health, deprecated, call>>

Answer(c) ==
  \/ AnswerOk(c) \/ AnswerMalformed(c)
  \/ \E error \in {"rate_limit", "error"} : AnswerError(c, error)
  \/ AnswerNotFound(c) \/ AnswerContext(c)

Step(c) ==
  \/ Answer(c) \/ Wake(c) \/ Pruned(c) \/ PruneFails(c)
  \/ OllamaAnswers(c) \/ OllamaFails(c)

ProviderNext ==
  \/ Cool \/ OutageAges
  \/ \E c \in Call : executeInference(c) \/ Step(c)

ProviderSpec == ProviderInit /\ [][ProviderNext]_providerVars

(* The API client answers or gives up, and timers fire. *)
ProviderFairness == \A c \in Call : WF_providerVars(Step(c))
FairProviderSpec == ProviderSpec /\ ProviderFairness

-----------------------------------------------------------------------------

ProviderTypeOK ==
  /\ state \in {"CLOSED", "OPEN", "HALF_OPEN"}
  /\ consecutiveFailures \in 0..FailureThreshold /\ cooled \in BOOLEAN
  /\ outage \in {"none", "recent", "long"}
  /\ health \in {"none", "EXHAUSTED", "RECOVERED"}
  /\ deprecated \in BOOLEAN
  /\ call \in [Call -> [pc : {"idle", "requesting", "backoff", "pruning", "ollama", "done", "failed"},
                        model : {"primary", "fallback"}, attempt : 0 .. MaxRetries - 1,
                        pruned : BOOLEAN,
                        lastError : {"none", "malformed", "rate_limit", "error", "CIRCUIT_OPEN"}]]

(* The circuit is closed exactly while fewer failures than the threshold   *)
(* were seen in a row, whichever calls they and the successes in between   *)
(* belong to.                                                              *)
OpenIffFailing == state # "CLOSED" <=> consecutiveFailures >= FailureThreshold

(* While the outage timer runs the last heartbeat was PROVIDER_EXHAUSTED:  *)
(* nobody is told of a recovery that Ollama routing does not believe in.   *)
OutageIsAnnounced == outage # "none" => health = "EXHAUSTED"

(* Every call returns or throws.                                           *)
CallsSettle ==
  \A c \in Call : call[c].pc = "requesting" ~> call[c].pc \in {"done", "failed"}
=============================================================================
