-------------------------- MODULE FetchRetryProofs --------------------------
(***************************************************************************)
(* Safety of FetchRetry for every retry configuration.                     *)
(***************************************************************************)
EXTENDS FetchRetry, RecursionLemmas

\* One failure has been recorded, and one sleep taken, per attempt made; a call
\* that has given up has made them all, and one that ended otherwise has not.
Counted ==
    /\ Len(failures) = attempt - 1
    /\ Len(sleeps) = attempt - 1
    /\ outcome = "RuntimeError" => attempt = config.maxRetries + 1
    /\ outcome \notin {"pending", "RuntimeError"} => attempt <= config.maxRetries

\* The delays start at the base, never fall and never exceed the cap.
Steps ==
    /\ config.baseDelay <= delay /\ delay <= config.maxDelay
    /\ \A k \in DOMAIN sleeps : config.baseDelay <= sleeps[k] /\ sleeps[k] <= delay
    /\ \A j, k \in DOMAIN sleeps : j <= k => sleeps[j] <= sleeps[k]

RetryInv == TypeOK /\ Counted /\ Steps

\* Doubling (or tripling, ...) and capping a delay keeps it between where it
\* was and the cap.
LEMMA NextDelayGrows ==
    ASSUME config \in Configs, NEW d \in Nat, d <= config.maxDelay
    PROVE  NextDelay(d) \in Nat /\ d <= NextDelay(d) /\ NextDelay(d) <= config.maxDelay
  <1>1. config.factor \in Nat /\ config.factor >= 1 /\ config.maxDelay \in Nat
    BY ConfigAssumption
  <1>2. d * config.factor \in Nat /\ d <= d * config.factor
    <2>1. ASSUME NEW f \in Nat, f >= 1 PROVE d * f \in Nat /\ d <= d * f
      <3>1. PICK e \in Nat : f = e + 1
        <4>1. f - 1 \in Nat /\ f = (f - 1) + 1
          BY <2>1
        <4> QED
          BY <4>1
      <3>2. d * f = d * e + d /\ d * e \in Nat
        BY <3>1
      <3> QED
        BY <3>2
    <2> QED
      BY <1>1, <2>1
  <1> QED
    BY <1>1, <1>2 DEF NextDelay

LEMMA InitRetry == Init => RetryInv
  <1> SUFFICES ASSUME Init PROVE RetryInv
    OBVIOUS
  <1>1. /\ config \in Configs /\ config.maxRetries \in Nat
        /\ config.baseDelay \in Nat /\ config.maxDelay \in Nat
        /\ config.baseDelay <= config.maxDelay
    BY ConfigAssumption DEF Init
  <1> QED
    BY <1>1 DEF Init, RetryInv, TypeOK, Counted, Steps

LEMMA RetryKeeps ==
    ASSUME RetryInv, NEW kind \in Transient, Retry(kind)
    PROVE  RetryInv'
  <1>1. /\ config \in Configs /\ config' = config /\ outcome' = outcome
        /\ config.maxRetries \in Nat /\ config.baseDelay \in Nat /\ config.maxDelay \in Nat
        /\ delay \in Nat /\ sleeps \in Seq(Nat) /\ failures \in Seq(Transient)
        /\ attempt \in Nat /\ attempt <= config.maxRetries
        /\ attempt >= 1 /\ outcome = "pending"
    BY ConfigAssumption DEF Retry, RetryInv, TypeOK, AttemptsLeft
  <1>2. /\ sleeps' = Append(sleeps, delay) /\ failures' = Append(failures, kind)
        /\ delay' = NextDelay(delay) /\ attempt' = attempt + 1
    BY DEF Retry
  <1>3. delay' \in Nat /\ delay <= delay' /\ delay' <= config.maxDelay
    BY <1>1, <1>2, NextDelayGrows DEF RetryInv, Steps
  <1>4. /\ sleeps' \in Seq(Nat) /\ failures' \in Seq(Transient)
        /\ Len(sleeps') = Len(sleeps) + 1 /\ Len(failures') = Len(failures) + 1
        /\ sleeps'[Len(sleeps) + 1] = delay
        /\ \A k \in 1..Len(sleeps) : sleeps'[k] = sleeps[k]
        /\ DOMAIN sleeps = 1..Len(sleeps) /\ DOMAIN sleeps' = 1..(Len(sleeps) + 1)
    BY <1>1, <1>2
  <1>5. TypeOK' /\ Counted'
    BY <1>1, <1>2, <1>3, <1>4 DEF RetryInv, TypeOK, Counted
  <1>6. Steps'
    <2>1. \A k \in DOMAIN sleeps' : k \in DOMAIN sleeps \/ k = Len(sleeps) + 1
      BY <1>1, <1>4
    <2>2. ASSUME NEW k \in DOMAIN sleeps'
          PROVE  config.baseDelay <= sleeps'[k] /\ sleeps'[k] <= delay
      <3>1. CASE k = Len(sleeps) + 1
        BY <3>1, <1>1, <1>4 DEF RetryInv, Steps
      <3>2. CASE k \in DOMAIN sleeps
        <4>1. sleeps'[k] = sleeps[k]
          BY <3>2, <1>4
        <4> QED
          BY <3>2, <4>1 DEF RetryInv, Steps
      <3> QED
        BY <3>1, <3>2, <2>1
    <2>3. \A k \in DOMAIN sleeps' : sleeps'[k] \in Nat
      BY <1>4
    <2>4. \A k \in DOMAIN sleeps' : config.baseDelay <= sleeps'[k] /\ sleeps'[k] <= delay'
      BY <1>1, <1>3, <2>2, <2>3
    <2>5. ASSUME NEW j \in DOMAIN sleeps', NEW k \in DOMAIN sleeps', j <= k
          PROVE  sleeps'[j] <= sleeps'[k]
      <3>1. CASE k = Len(sleeps) + 1
        BY <3>1, <1>4, <2>2
      <3>2. CASE k \in DOMAIN sleeps
        <4>1. j \in DOMAIN sleeps
          BY <3>2, <2>1, <2>5, <1>1, <1>4
        <4> QED
          BY <3>2, <4>1, <2>5, <1>4 DEF RetryInv, Steps
      <3> QED
        BY <3>1, <3>2, <2>1
    <2> QED
      BY <1>1, <1>3, <2>4, <2>5 DEF RetryInv, Steps
  <1> QED
    BY <1>5, <1>6 DEF RetryInv

\* The steps that end the call change its outcome only.
LEMMA EndKeeps ==
    ASSUME RetryInv,
           \/ \E body \in Bodies : Answer(body)
           \/ \E kind \in Fatal : Abort(kind)
           \/ GiveUp
    PROVE  RetryInv'
  <1>1. UNCHANGED <<config, attempt, delay, sleeps, failures>>
    BY DEF Answer, Abort, GiveUp
  <1>2. \/ outcome' \in {"rows", "no rows", "JSONDecodeError", "HTTPStatusError", "TransportError"}
        \/ outcome' = "RuntimeError" /\ ~(attempt <= config.maxRetries)
    BY DEF Answer, Parsed, Abort, Raised, GiveUp, Exhausted, AttemptsLeft
  <1>3. attempt \in 1..(config.maxRetries + 1) /\ config.maxRetries \in Nat
    BY ConfigAssumption DEF RetryInv, TypeOK
  <1>4. TypeOK'
    BY <1>1, <1>2 DEF RetryInv, TypeOK
  <1>5. Counted'
    <2>1. outcome' = "RuntimeError" => attempt = config.maxRetries + 1
      BY <1>2, <1>3
    <2>2. outcome' \notin {"pending", "RuntimeError"} => attempt <= config.maxRetries
      BY DEF Answer, Abort, GiveUp, AttemptsLeft
    <2> QED
      BY <1>1, <2>1, <2>2 DEF RetryInv, Counted
  <1>6. Steps'
    BY <1>1 DEF RetryInv, Steps
  <1> QED
    BY <1>4, <1>5, <1>6 DEF RetryInv

LEMMA SpecRetry == Spec => []RetryInv
  <1>1. RetryInv /\ [Next]_vars => RetryInv'
    <2> SUFFICES ASSUME RetryInv, [Next]_vars PROVE RetryInv'
      OBVIOUS
    <2>1. CASE UNCHANGED vars
      BY <2>1 DEF vars, RetryInv, TypeOK, Counted, Steps
    <2> QED
      BY <2>1, RetryKeeps, EndKeeps DEF Next
  <1> QED
    BY <1>1, InitRetry, PTL DEF Spec

\* The loop variable never leaves range(1, max_retries + 1) by more than one.
THEOREM TypeCorrect == Spec => []TypeOK
  <1>1. RetryInv => TypeOK
    BY DEF RetryInv
  <1> QED
    BY <1>1, SpecRetry, PTL

\* RuntimeError is raised after max_retries failures worth a retry and then only
\* (ingest.py:80, 129), whatever the configuration and the mixture of failures.
THEOREM OnlyWhenExhausted == Spec => []GivesUpOnlyWhenExhausted
  <1>1. RetryInv => GivesUpOnlyWhenExhausted
    <2> SUFFICES ASSUME RetryInv PROVE GivesUpOnlyWhenExhausted
      OBVIOUS
    <2>1. config.maxRetries \in Nat
      BY ConfigAssumption DEF RetryInv, TypeOK
    <2>2. attempt \in 1..(config.maxRetries + 1)
      BY DEF RetryInv, TypeOK
    <2> QED
      BY <2>1, <2>2 DEF RetryInv, Counted, GivesUpOnlyWhenExhausted
  <1> QED
    BY <1>1, SpecRetry, PTL

\* No sleep is shorter than the base delay, shorter than an earlier one, or
\* longer than max_delay_seconds (ingest.py:115).
THEOREM SleepsGrowUpToCap ==
    Spec => [](/\ \A k \in DOMAIN sleeps : sleeps[k] \in config.baseDelay..config.maxDelay
               /\ \A j, k \in DOMAIN sleeps : j <= k => sleeps[j] <= sleeps[k])
  <1> DEFINE Within == \A k \in DOMAIN sleeps : sleeps[k] \in config.baseDelay..config.maxDelay
             Grow == \A j, k \in DOMAIN sleeps : j <= k => sleeps[j] <= sleeps[k]
  <1>1. RetryInv => Within
    <2> SUFFICES ASSUME RetryInv, NEW k \in DOMAIN sleeps
                 PROVE  sleeps[k] \in config.baseDelay..config.maxDelay
      OBVIOUS
    <2>1. config.baseDelay \in Nat /\ config.maxDelay \in Nat /\ delay \in Nat
      BY ConfigAssumption DEF RetryInv, TypeOK
    <2>2. sleeps[k] \in Nat
      <3>1. sleeps \in Seq(Nat)
        BY DEF RetryInv, TypeOK
      <3> QED
        BY <3>1
    <2>3. config.baseDelay <= sleeps[k] /\ sleeps[k] <= delay /\ delay <= config.maxDelay
      BY DEF RetryInv, Steps
    <2> QED
      BY <2>1, <2>2, <2>3
  <1>2. RetryInv => Grow
    BY DEF RetryInv, Steps
  <1>3. RetryInv => Within /\ Grow
    BY <1>1, <1>2
  <1> QED
    BY <1>3, SpecRetry, PTL

-----------------------------------------------------------------------------
(* The schedule *)

\* Powers(b) are the powers of b.
LEMMA PowersDef ==
    ASSUME NEW b \in Nat
    PROVE  /\ Powers(b) \in [Nat -> Nat] /\ Powers(b)[0] = 1
           /\ \A n \in Nat : Powers(b)[n + 1] = b * Powers(b)[n]
<1> DEFINE Eq(p) == p = [n \in Nat |-> IF n = 0 THEN 1 ELSE b * p[n - 1]]
           V == Nat
           one == 1
           times == [v \in Nat |-> b * v]
<1>1. \E p : Eq(p)
  <2>1. one \in V /\ times \in [V -> V]
    OBVIOUS
  <2> HIDE DEF V, one, times
  <2>2. PICK g \in [Nat -> V] : g[0] = one /\ \A n \in Nat : g[n + 1] = times[g[n]]
    BY <2>1, Iteration
  <2> USE DEF V, one, times
  <2>3. ASSUME NEW n \in Nat PROVE g[n] = IF n = 0 THEN 1 ELSE b * g[n - 1]
    <3>1. CASE n = 0
      BY <2>2, <3>1
    <3>2. CASE n # 0
      <4>1. n - 1 \in Nat /\ n - 1 + 1 = n
        BY <3>2
      <4>2. g[n - 1 + 1] = times[g[n - 1]]
        BY <2>2, <4>1
      <4> QED
        BY <2>2, <3>2, <4>1, <4>2
    <3> QED
      BY <3>1, <3>2
  <2>4. Eq(g)
    BY <2>2, <2>3
  <2> QED
    BY <2>4
<1>2. Powers(b) = CHOOSE p : Eq(p)
  BY DEF Powers
<1>3. Eq(Powers(b))
  BY <1>1, <1>2
<1> DEFINE q == Powers(b)
<1> HIDE DEF q
<1>4. q = [n \in Nat |-> IF n = 0 THEN 1 ELSE b * q[n - 1]]
  BY <1>3 DEF q
<1>5. q[0] = 1 /\ \A n \in Nat : q[n + 1] = b * q[n]
  BY <1>4
<1>6. \A n \in Nat : q[n] \in Nat
  <2> DEFINE T == {n \in Nat : q[n] \in Nat}
  <2>1. 0 \in T
    BY <1>5
  <2>2. \A n \in T : n + 1 \in T
    BY <1>5
  <2>3. T \in SUBSET Nat
    OBVIOUS
  <2> HIDE DEF T
  <2>4. T = Nat
    BY <2>1, <2>2, <2>3, NatSetInduction
  <2> QED
    BY <2>4 DEF T
<1>7. q \in [Nat -> Nat]
  BY <1>4, <1>6
<1> QED
  BY <1>5, <1>7 DEF q

\* The delay in hand is the schedule's next one.
ScheduleInv == RetryInv /\ BackoffSchedule /\ delay = Scheduled(attempt)

\* Multiplying the scheduled delay and capping it is the next scheduled delay.
LEMMA NextIsScheduled ==
    ASSUME config \in Configs, NEW k \in Nat \ {0}
    PROVE  NextDelay(Scheduled(k)) = Scheduled(k + 1)
<1> DEFINE f == config.factor
           m == config.maxDelay
           u == Uncapped(k)
<1>1. f \in Nat /\ f >= 1 /\ m \in Nat /\ config.baseDelay \in Nat
  BY ConfigAssumption
<1>2. k - 1 \in Nat /\ k - 1 + 1 = k /\ k + 1 - 1 = k
  OBVIOUS
<1>3. Powers(f)[k - 1] \in Nat /\ Powers(f)[k] = f * Powers(f)[k - 1]
  BY <1>1, <1>2, PowersDef
<1>4. u \in Nat /\ Uncapped(k + 1) = u * f
  <2>1. u = config.baseDelay * Powers(f)[k - 1]
    BY DEF Uncapped
  <2>2. Uncapped(k + 1) = config.baseDelay * Powers(f)[k]
    BY <1>2 DEF Uncapped
  <2> QED
    BY <1>1, <1>3, <2>1, <2>2
<1> HIDE DEF f, m, u
<1>5. \A d \in Nat : d * f \in Nat /\ d <= d * f
  <2> SUFFICES ASSUME NEW d \in Nat PROVE d * f \in Nat /\ d <= d * f
    OBVIOUS
  <2>1. f - 1 \in Nat /\ d * f = d + d * (f - 1)
    BY <1>1
  <2>2. d * (f - 1) \in Nat
    BY <2>1
  <2> QED
    BY <2>1, <2>2
<1>6. /\ Scheduled(k) = IF u > m THEN m ELSE u
      /\ Scheduled(k + 1) = IF u * f > m THEN m ELSE u * f
  BY <1>4 DEF Scheduled, u, m
<1>7. CASE u > m
  <2>1. Scheduled(k) = m /\ Scheduled(k + 1) = m
    BY <1>1, <1>4, <1>5, <1>6, <1>7
  <2>2. NextDelay(m) = m
    <3>1. NextDelay(m) = IF m * f > m THEN m ELSE m * f
      BY DEF NextDelay, f, m
    <3> QED
      BY <1>1, <1>5, <3>1
  <2> QED
    BY <2>1, <2>2
<1>8. CASE ~(u > m)
  <2>1. Scheduled(k) = u
    BY <1>6, <1>8
  <2>2. NextDelay(u) = IF u * f > m THEN m ELSE u * f
    BY DEF NextDelay, f, m
  <2> QED
    BY <1>6, <2>1, <2>2
<1> QED
  BY <1>7, <1>8

\* The sleeps taken are base, base*factor, base*factor^2, ... cut off at
\* max_delay_seconds (ingest.py:114-115, 126-127), whatever the configuration
\* and whichever failures they follow.
THEOREM SleepsAreSchedule == Spec => []BackoffSchedule
<1>1. Init => ScheduleInv
  <2> SUFFICES ASSUME Init PROVE ScheduleInv
    OBVIOUS
  <2>1. /\ config.factor \in Nat /\ config.baseDelay \in Nat /\ config.maxDelay \in Nat
        /\ config.baseDelay <= config.maxDelay
    BY ConfigAssumption DEF Init
  <2>2. Uncapped(1) = config.baseDelay
    <3>1. Powers(config.factor)[0] = 1
      BY <2>1, PowersDef
    <3> QED
      BY <2>1, <3>1 DEF Uncapped
  <2>3. delay = Scheduled(attempt)
    BY <2>1, <2>2 DEF Init, Scheduled
  <2>4. BackoffSchedule
    BY DEF Init, BackoffSchedule
  <2> QED
    BY <2>3, <2>4, InitRetry DEF ScheduleInv
<1>2. ASSUME ScheduleInv, NEW kind \in Transient, Retry(kind) PROVE ScheduleInv'
  <2>1. RetryInv'
    BY <1>2, RetryKeeps DEF ScheduleInv
  <2>2. /\ config \in Configs /\ config' = config /\ sleeps \in Seq(Nat)
        /\ attempt \in Nat \ {0} /\ attempt = Len(sleeps) + 1
        /\ sleeps' = Append(sleeps, delay)
        /\ delay' = NextDelay(delay) /\ attempt' = attempt + 1
    <3>1. config.maxRetries \in Nat
      BY <1>2, ConfigAssumption DEF ScheduleInv, RetryInv, TypeOK
    <3> QED
      BY <1>2, <3>1 DEF ScheduleInv, RetryInv, TypeOK, Counted, Retry
  <2>3. delay' = Scheduled(attempt + 1)
    BY <1>2, <2>2, NextIsScheduled DEF ScheduleInv
  <2>4. \A k \in DOMAIN sleeps' : sleeps'[k] = Scheduled(k)
    <3> SUFFICES ASSUME NEW k \in DOMAIN sleeps' PROVE sleeps'[k] = Scheduled(k)
      OBVIOUS
    <3>1. CASE k = Len(sleeps) + 1
      BY <1>2, <2>2, <3>1 DEF ScheduleInv
    <3>2. CASE k # Len(sleeps) + 1
      <4>1. k \in DOMAIN sleeps /\ sleeps'[k] = sleeps[k]
        BY <2>2, <3>2
      <4> QED
        BY <1>2, <4>1 DEF ScheduleInv, BackoffSchedule
    <3> QED
      BY <3>1, <3>2
  <2>5. BackoffSchedule' /\ delay' = Scheduled(attempt)'
    BY <2>2, <2>3, <2>4 DEF BackoffSchedule, Scheduled, Uncapped
  <2> QED
    BY <2>1, <2>5 DEF ScheduleInv
<1>3. ASSUME ScheduleInv, UNCHANGED <<config, attempt, delay, sleeps, failures>>, RetryInv'
      PROVE  ScheduleInv'
  BY <1>3 DEF ScheduleInv, BackoffSchedule, Scheduled, Uncapped
<1>4. ScheduleInv /\ [Next]_vars => ScheduleInv'
  <2> SUFFICES ASSUME ScheduleInv, [Next]_vars PROVE ScheduleInv'
    OBVIOUS
  <2>1. CASE UNCHANGED vars
    BY <1>3, <2>1 DEF vars, ScheduleInv, RetryInv, TypeOK, Counted, Steps
  <2>2. CASE \E kind \in Transient : Retry(kind)
    BY <1>2, <2>2
  <2>3. CASE \/ \E body \in Bodies : Answer(body)
             \/ \E kind \in Fatal : Abort(kind)
             \/ GiveUp
    <3>1. RetryInv'
      BY <2>3, EndKeeps DEF ScheduleInv
    <3>2. UNCHANGED <<config, attempt, delay, sleeps, failures>>
      BY <2>3 DEF Answer, Abort, GiveUp
    <3> QED
      BY <1>3, <3>1, <3>2
  <2> QED
    BY <2>1, <2>2, <2>3 DEF Next
<1>5. ScheduleInv => BackoffSchedule
  BY DEF ScheduleInv
<1> QED
  BY <1>1, <1>4, <1>5, PTL DEF Spec

-----------------------------------------------------------------------------
(* Calls end *)

\* The requests a call can still make, and giving up.
StepsLeft == IF outcome = "pending" THEN config.maxRetries + 2 - attempt ELSE 0

StepsLeftBounded ==
    /\ StepsLeft \in 0..(config.maxRetries + 1)
    /\ StepsLeft = 0 <=> outcome # "pending"

\* Every step of a call leaves fewer to take, so it makes at most max_retries
\* requests, and then returns or raises, whatever the server answers
\* (ingest.py:80, 129).
THEOREM CallsGetShorter ==
    Spec => []StepsLeftBounded /\ [][StepsLeft' < StepsLeft]_vars
<1>1. RetryInv => StepsLeftBounded
  <2> SUFFICES ASSUME RetryInv PROVE StepsLeftBounded
    OBVIOUS
  <2>1. config.maxRetries \in Nat /\ attempt \in 1..(config.maxRetries + 1)
    BY ConfigAssumption DEF RetryInv, TypeOK
  <2> QED
    BY <2>1 DEF StepsLeftBounded, StepsLeft
<1>2. ASSUME RetryInv, Next PROVE StepsLeft' < StepsLeft
  <2>1. config.maxRetries \in Nat /\ attempt \in 1..(config.maxRetries + 1)
    BY <1>2, ConfigAssumption DEF RetryInv, TypeOK
  <2>2. outcome = "pending" /\ config' = config
    BY <1>2 DEF Next, Answer, Retry, Abort, GiveUp
  <2>3. StepsLeft = config.maxRetries + 2 - attempt
    BY <2>2 DEF StepsLeft
  <2>4. CASE \E kind \in Transient : Retry(kind)
    <3>1. StepsLeft' = config.maxRetries + 2 - (attempt + 1)
      BY <2>2, <2>4 DEF Retry, StepsLeft
    <3> QED
      BY <2>1, <2>3, <3>1
  <2>5. CASE \/ \E body \in Bodies : Answer(body)
             \/ \E kind \in Fatal : Abort(kind)
             \/ GiveUp
    <3>1. StepsLeft' = 0
      BY <2>5 DEF Answer, Parsed, Abort, Raised, GiveUp, StepsLeft
    <3> QED
      BY <2>1, <2>3, <3>1
  <2> QED
    BY <1>2, <2>4, <2>5 DEF Next
<1>3. RetryInv /\ [Next]_vars => [StepsLeft' < StepsLeft]_vars
  BY <1>2
<1> QED
  BY <1>1, <1>3, SpecRetry, PTL DEF Spec
=============================================================================
