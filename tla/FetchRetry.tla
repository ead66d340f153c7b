----------------------------- MODULE FetchRetry -----------------------------
(***************************************************************************)
(* pipeline/ingest.py: one call of fetch_with_retry(), the loop of up to   *)
(* max_retries requests with capped exponential back-off that Ingestion's  *)
(* Fetch and Raise stand for.  What the server does is chosen freely at    *)
(* every request.                                                          *)
(***************************************************************************)
EXTENDS Integers, Sequences

CONSTANTS
    Configs       \* RetryConfigs: [maxRetries, baseDelay, maxDelay, factor]

ASSUME ConfigAssumption ==
    \A c \in Configs :
        /\ c.maxRetries \in Nat
        /\ c.baseDelay \in Nat /\ c.maxDelay \in Nat /\ c.factor \in Nat \ {0}
        /\ c.baseDelay <= c.maxDelay

VARIABLES
    config,       \* retry_config
    attempt,      \* the loop variable; maxRetries + 1 once the loop is over
    delay,        \* seconds the next sleep takes
    sleeps,       \* history: the sleeps taken, in order
    failures,     \* history: what was retried, in order
    outcome       \* "pending", or how the call ended

vars == <<config, attempt, delay, sleeps, failures, outcome>>

\* A 200 answer's text: nothing, a JSON array, one JSON object, NDJSON, or else.
Bodies == {"empty", "array", "object", "lines", "garbage"}
\* HTTPStatusError with a status in retry_status_codes, and the three caught
\* exceptions: ConnectError, ReadTimeout, ConnectTimeout.
Transient == {"retry_status", "no_answer"}
\* Other statuses, and transport errors the except clauses do not name.
Fatal == {"other_status", "other_transport"}

\* return [], return data / [data] / records, or json.loads() raising.
Parsed(body) ==
    CASE body = "empty" -> "no rows"
      [] body = "garbage" -> "JSONDecodeError"
      [] OTHER -> "rows"

Raised(kind) == IF kind = "other_status" THEN "HTTPStatusError" ELSE "TransportError"

\* Faulty: no cap; the delay never grows.
UncappedDelay(d) == d * config.factor
ConstantDelay(d) == d
NextDelay(d) == IF d * config.factor > config.maxDelay THEN config.maxDelay ELSE d * config.factor

\* range(1, max_retries + 1).  Faulty: one more; one fewer.
OneMoreLeft == attempt <= config.maxRetries + 1
OneFewerLeft == attempt < config.maxRetries
AttemptsLeft == attempt <= config.maxRetries

\* Past the loop.  Faulty: the attempt after the last one is waited for.
ExhaustedLate == attempt > config.maxRetries + 1
Exhausted == ~AttemptsLeft

Init ==
    /\ config \in Configs
    /\ attempt = 1
    /\ delay = config.baseDelay
    /\ sleeps = << >>
    /\ failures = << >>
    /\ outcome = "pending"

Answer(body) ==
    /\ outcome = "pending" /\ AttemptsLeft
    /\ outcome' = Parsed(body)
    /\ UNCHANGED <<config, attempt, delay, sleeps, failures>>

\* time.sleep(delay), also after the last attempt.
Retry(kind) ==
    /\ outcome = "pending" /\ AttemptsLeft
    /\ sleeps' = Append(sleeps, delay)
    /\ failures' = Append(failures, kind)
    /\ delay' = NextDelay(delay)
    /\ attempt' = attempt + 1
    /\ UNCHANGED <<config, outcome>>

Abort(kind) ==
    /\ outcome = "pending" /\ AttemptsLeft
    /\ outcome' = Raised(kind)
    /\ UNCHANGED <<config, attempt, delay, sleeps, failures>>

GiveUp ==
    /\ outcome = "pending" /\ Exhausted
    /\ outcome' = "RuntimeError"
    /\ UNCHANGED <<config, attempt, delay, sleeps, failures>>

Next ==
    \/ \E body \in Bodies : Answer(body)
    \/ \E kind \in Transient : Retry(kind)
    \/ \E kind \in Fatal : Abort(kind)
    \/ GiveUp

Spec == Init /\ [][Next]_vars

\* Every request ends: httpx gives up after REQUEST_TIMEOUT_SECONDS.
FairSpec == Spec /\ WF_vars(Next)

-----------------------------------------------------------------------------
(* Properties *)

TypeOK ==
    /\ config \in Configs
    /\ attempt \in 1..(config.maxRetries + 1)
    /\ delay \in Nat
    /\ sleeps \in Seq(Nat)
    /\ failures \in Seq(Transient)
    /\ outcome \in {"pending", "rows", "no rows", "JSONDecodeError", "HTTPStatusError",
                    "TransportError", "RuntimeError"}

\* The sleeps are the documented schedule: base, base*factor, base*factor^2...
\* cut off at max_delay_seconds (ingest.py:114-115, 126-127), the same for
\* status codes and time-outs in any mixture.
Powers(b) == LET p[n \in Nat] == IF n = 0 THEN 1 ELSE b * p[n - 1] IN p
Uncapped(k) == config.baseDelay * Powers(config.factor)[k - 1]
Scheduled(k) == IF Uncapped(k) > config.maxDelay THEN config.maxDelay ELSE Uncapped(k)
BackoffSchedule == \A k \in DOMAIN sleeps : sleeps[k] = Scheduled(k)

\* The call gives up exactly when max_retries requests have failed in a way
\* worth retrying: it reports nothing else as exhaustion, and ends otherwise
\* only with an attempt to spare (ingest.py:80, 129).
GivesUpOnlyWhenExhausted ==
    /\ outcome = "RuntimeError" => Len(failures) = config.maxRetries
    /\ outcome \notin {"pending", "RuntimeError"} => Len(failures) < config.maxRetries

\* The call ends.
Ends == <>(outcome # "pending")
=============================================================================
