---------------------------- MODULE LlmExecutor -----------------------------
(***************************************************************************)
(* LlmExecutor::execute_with_context: one task per call, sharing a rate    *)
(* limiter and a semaphore.  Each attempt takes a token, then a permit,    *)
(* and holds the permit until the next attempt begins, the backoff sleep   *)
(* included.  A failed attempt is retried on the same model, then on the   *)
(* next model of the fallback chain; the two have one bound together.      *)
(*                                                                         *)
(* The provider answers or fails in any way.  Time is not modelled: a      *)
(* sleep and a refill of the rate limiter just happen.                     *)
(***************************************************************************)
EXTENDS Subsequences

CONSTANTS
    Caller,            \* calls
    FirstModel,        \* the model each is configured with
    Chains,            \* what fallback.models may be, a list in order
    OnRateLimit, OnTimeout,  \* fallback behaviours
    FallbackOn,        \* fallback.enabled
    Permits,           \* max_concurrent_requests
    SemaphoreOn,       \* semaphore_enabled
    Burst,             \* tokens the rate limiter may hold
    MaxAttempts,       \* retry.max_attempts
    RetryOnRateLimit,  \* retry.retry_on_rate_limit
    MaxTotal           \* MAX_TOTAL_ATTEMPTS

Behaviours == {"retry", "fallback", "retry_then_fallback", "fail"}
ModelsOf(t) == {FirstModel[t]} \cup UNION {{c[i] : i \in DOMAIN c} : c \in Chains}

ASSUME LlmAssumption ==
    /\ IsFiniteSet(Caller)
    /\ \A c \in Chains : c \in Seq({c[i] : i \in DOMAIN c})
    /\ OnRateLimit \in Behaviours /\ OnTimeout \in Behaviours
    /\ FallbackOn \in BOOLEAN /\ RetryOnRateLimit \in BOOLEAN
    /\ SemaphoreOn \in BOOLEAN
    /\ Permits \in Nat /\ (SemaphoreOn => Permits > 0)
    /\ Burst \in Nat \ {0}
    /\ MaxAttempts \in Nat /\ MaxTotal \in Nat \ {0}

VARIABLES
    chain,   \* fallback.models of this process
    call,    \* the calls
    free,    \* permits of the semaphore that are not taken
    queue,   \* calls waiting for a permit, in the order they came (tokio)
    tokens   \* tokens of the rate limiter

llmVars == <<chain, call, free, queue, tokens>>

\* "timeout" is an error message of the provider or, where a request timeout
\* is configured, the executor's own; "busy" an Api error with 502, 503 or
\* overloaded in it; "fatal" any other error.
Errors == {"rate_limit", "timeout", "busy", "fatal"}
NewCall == [ph |-> "new", model |-> "", attempts |-> 0, total |-> 0, err |-> ""]
Waiting == {"token", "queue"}
Holding == {"request", "sleep"}

LlmTypeOK ==
    /\ \A t \in Caller :
         /\ call[t].ph \in {"new", "answered", "err", "dropped"}
                             \cup Waiting \cup Holding
         /\ call[t].ph # "new" => call[t].model \in ModelsOf(t)
         /\ call[t].attempts \in 0..(MaxTotal + 1)
         /\ call[t].total \in 0..(MaxTotal + 1)
         /\ call[t].err \in Errors \cup {"", "exhausted"}
    /\ chain \in Chains /\ free \in 0..Permits /\ tokens \in 0..Burst
    /\ queue \in Seq(Caller)

LlmInit ==
    /\ chain \in Chains /\ call = [t \in Caller |-> NewCall]
    /\ free = Permits /\ queue = <<>> /\ tokens = Burst

(***************************************************************************)
(* FallbackChain.                                                          *)
(***************************************************************************)
BehaviourFor(e) ==
    CASE e = "rate_limit" -> OnRateLimit
      [] e = "timeout"    -> OnTimeout
      [] OTHER            -> "fail"

ShouldFallback(e) ==
    FallbackOn /\ BehaviourFor(e) \in {"fallback", "retry_then_fallback"}

Places(m) == {i \in DOMAIN chain : chain[i] = m}
FirstPlace(m) == CHOOSE i \in Places(m) : \A j \in Places(m) : i <= j

\* next_model: the successor of m's first place, the head of the chain if m
\* is not in it, or none.
NextModels(m) ==
    IF Places(m) = {}
    THEN IF chain = <<>> THEN {} ELSE {chain[1]}
    ELSE IF FirstPlace(m) < Len(chain) THEN {chain[FirstPlace(m) + 1]} ELSE {}

(***************************************************************************)
(* The loop.                                                               *)
(***************************************************************************)
Retryable(e) == e \in {"rate_limit", "timeout", "busy"}

\* Mutant: the attempts are compared with <=.
ShouldRetryOnceMore(e, attempts) ==
    /\ attempts <= MaxAttempts
    /\ IF e = "rate_limit" THEN RetryOnRateLimit ELSE Retryable(e)

ShouldRetry(e, attempts) ==
    /\ attempts < MaxAttempts
    /\ IF e = "rate_limit" THEN RetryOnRateLimit ELSE Retryable(e)

\* The head of the loop: both counters go up, and the total is bounded.
Again(c) ==
    LET d == [c EXCEPT !.attempts = @ + 1, !.total = @ + 1]
    IN  IF d.total > MaxTotal THEN [d EXCEPT !.ph = "err", !.err = "exhausted"]
        ELSE [d EXCEPT !.ph = "token"]

\* Mutant: a call that goes on to another attempt keeps its permit.
ReleaseAtEnd(t) ==
    free' = IF SemaphoreOn /\ call'[t].ph \in {"answered", "err"}
            THEN free + 1 ELSE free

\* _permit goes out of scope.
Release(t) == free' = IF SemaphoreOn THEN free + 1 ELSE free

Begin(t) ==
    /\ call[t].ph = "new"
    /\ call' = [call EXCEPT ![t] = Again([@ EXCEPT !.model = FirstModel[t]])]
    /\ UNCHANGED <<chain, free, queue, tokens>>

TakeToken(t) ==
    /\ call[t].ph = "token" /\ tokens > 0 /\ tokens' = tokens - 1
    /\ call' = [call EXCEPT ![t].ph = IF SemaphoreOn THEN "queue" ELSE "request"]
    /\ queue' = IF SemaphoreOn THEN Append(queue, t) ELSE queue
    /\ UNCHANGED free

Refill ==
    /\ tokens < Burst /\ tokens' = tokens + 1
    /\ UNCHANGED <<chain, call, free, queue>>

TakePermit(t) ==
    /\ queue # <<>> /\ t = Head(queue) /\ free > 0
    /\ free' = free - 1 /\ queue' = Tail(queue)
    /\ call' = [call EXCEPT ![t].ph = "request"]
    /\ UNCHANGED tokens

\* The provider answers, maybe with empty content.
Answered(t) ==
    /\ call[t].ph = "request"
    /\ call' = [call EXCEPT ![t].ph = "answered"]
    /\ Release(t) /\ UNCHANGED <<chain, queue, tokens>>

\* The request fails: sleep before a retry, go on with another model, or
\* give up.
Failed(t) ==
    LET c == call[t] IN
    /\ c.ph = "request"
    /\ \E e \in Errors :
         \/ /\ ShouldRetry(e, c.attempts)
            /\ call' = [call EXCEPT ![t].ph = "sleep"]
            /\ UNCHANGED free
         \/ /\ ~ShouldRetry(e, c.attempts) /\ ShouldFallback(e)
            /\ \E m \in NextModels(c.model) :
                  call' = [call EXCEPT ![t] =
                             Again([c EXCEPT !.model = m, !.attempts = 0])]
            /\ Release(t)
         \/ /\ ~ShouldRetry(e, c.attempts)
            /\ ~ShouldFallback(e) \/ NextModels(c.model) = {}
            /\ call' = [call EXCEPT ![t].ph = "err", ![t].err = e]
            /\ Release(t)
    /\ UNCHANGED <<queue, tokens>>

\* The backoff is over.
Wake(t) ==
    /\ call[t].ph = "sleep"
    /\ call' = [call EXCEPT ![t] = Again(@)]
    /\ Release(t) /\ UNCHANGED <<queue, tokens>>

\* The futures of the calls are dropped, as a timeout of a compile does.
Drop(ts) ==
    /\ call' = [t \in Caller |-> IF t \in ts /\ call[t].ph \in Waiting \cup Holding
                                THEN [call[t] EXCEPT !.ph = "dropped"] ELSE call[t]]
    /\ free' = IF SemaphoreOn
               THEN free + Cardinality({t \in ts : call[t].ph \in Holding}) ELSE free
    /\ queue' = At(queue, {i \in DOMAIN queue : queue[i] \notin ts})
    /\ UNCHANGED <<chain, tokens>>

\* What the executor does of its own; Answered goes on in its caller.
Attempt(t) ==
    /\ TakeToken(t) \/ TakePermit(t) \/ Failed(t) \/ Wake(t)
    /\ UNCHANGED chain

(***************************************************************************)
(* Properties.                                                             *)
(***************************************************************************)
\* Every permit is free or held by one call that makes a request or sleeps
\* before its next one: none is lost or doubled on any way out of an attempt
\* (executor.rs, _permit; throttle.rs, acquire).
PermitsConserved ==
    SemaphoreOn =>
        free + Cardinality({t \in Caller : call[t].ph \in Holding}) = Permits

\* A model is asked at most max_attempts times in a row (once, if that is 0),
\* and a call makes at most MAX_TOTAL_ATTEMPTS requests over all models, also
\* when the chain names a model twice and would go round for ever
\* (executor.rs, execute_with_context).
AttemptsBounded ==
    \A t \in Caller : call[t].ph \in Waiting \cup Holding =>
        /\ call[t].total \in 1..MaxTotal
        /\ call[t].attempts \in 1..(IF MaxAttempts = 0 THEN 1 ELSE MaxAttempts)

\* A call gives up on an error that falls back only when it is at the last
\* model; it has then asked every model of the chain, unless the bound on
\* all attempts ended it first (fallback.rs, next_model).
ErrorMeansChainDone ==
    \A t \in Caller : call[t].ph = "err" /\ ShouldFallback(call[t].err) =>
        /\ chain # <<>> => call[t].model = chain[Len(chain)]
        /\ call[t].total >=
             Cardinality(IF FirstModel[t] \in {chain[i] : i \in DOMAIN chain}
                         THEN FirstPlace(FirstModel[t])..Len(chain)
                         ELSE 0..Len(chain))

\* The discipline of a call, in all of its parts: permits, attempts, chain.
CallsFollowPolicy == PermitsConserved /\ AttemptsBounded /\ ErrorMeansChainDone
=============================================================================
