-------------------------- MODULE DeploymentProofs --------------------------
(***************************************************************************)
(* Safety of Deployment for any number of workers, loads, runs, crashes    *)
(* and restarts.  What is served is current because of the lock: a cached  *)
(* or half-built answer of a serving worker exists only beside its         *)
(* connection, and no connection exists beside a writer.                   *)
(***************************************************************************)
EXTENDS Deployment, TLAPS

\* A reader excludes the writer, and there is no file without a first run.
Locked ==
    /\ \A w \in Workers : conn[w] => file /\ pipeline = "idle"
    /\ ~file => pipeline = "idle"

\* The tables are there once a run has got past its DDL.
Complete ==
    /\ pipeline = "loading" => tables = Tables
    /\ pipeline = "idle" /\ file => tables = Tables \/ crashes > 0

\* What a serving worker remembers is current, and it is connected.
MemoryCurrent ==
    \A w \in Workers :
        /\ \A q \in Queries :
            up[w] = "up" /\ cache[w][q] # {} => conn[w] /\ cache[w][q] = Current(q)
        /\ half[w] # {} => half[w] = Current("metrics")
        /\ up[w] = "down" => \A q \in Queries : cache[w][q] = {}

DepInv == TypeOK /\ Locked /\ Complete /\ MemoryCurrent /\ AnswersAreCurrent

\* A response is read from the tables its query names, and from all of them.
LEMMA CurrentTyped ==
    ASSUME TypeOK, NEW q \in Queries
    PROVE  Current(q) \in Readings
  BY DEF TypeOK, Current, TablesOf, Readings, Queries, Tables

\* The second statement of /metrics reads what the first one has read.
LEMMA MetricsWhole == Current("metrics") \cup Current("generation") = Current("metrics")
  BY DEF Current, TablesOf, Tables

LEMMA InitDep == Init => DepInv
  <1> SUFFICES ASSUME Init PROVE DepInv
    OBVIOUS
  <1>1. TypeOK
    <2>1. version \in [Tables -> 0..MaxVersion]
      BY BoundAssumption DEF Init, Tables
    <2>2. file \in BOOLEAN /\ tables \subseteq Tables
      BY DEF Init, Ddl, Tables
    <2>3. /\ pipeline = "idle" /\ exit = "none"
          /\ runs \in 0..MaxRuns /\ crashes \in 0..MaxCrashes /\ stops \in 0..MaxStops
      BY BoundAssumption DEF Init
    <2>4. /\ up \in [Workers -> {"down", "up", "closing"}]
          /\ conn \in [Workers -> BOOLEAN]
          /\ cache \in [Workers -> [Queries -> Readings]]
          /\ half \in [Workers -> Readings]
          /\ \A w \in Workers : ~conn[w] /\ half[w] = {}
      BY DEF Init, Readings
    <2>5. answer \in Answers
      BY DEF Init, Answers
    <2> QED
      BY <2>1, <2>2, <2>3, <2>4, <2>5 DEF TypeOK
  <1>2. Locked /\ Complete /\ MemoryCurrent /\ AnswersAreCurrent
    BY DEF Init, Locked, Complete, MemoryCurrent, AnswersAreCurrent, NoAnswer, Ddl, Tables
  <1> QED
    BY <1>1, <1>2 DEF DepInv

-----------------------------------------------------------------------------
(* Steps of a worker *)

\* A step that leaves the database alone leaves what it holds.
LEMMA SameDatabase ==
    ASSUME UNCHANGED database
    PROVE  \A q \in Queries : Current(q)' = Current(q)
  BY DEF database, Current

\* Connecting needs a file and no writer; a connection is never lost by it.
LEMMA Connecting ==
    ASSUME DepInv, UNCHANGED database, NEW w \in Workers, GetDb(w)
    PROVE  /\ conn' \in [Workers -> BOOLEAN]
           /\ \A v \in Workers : conn[v] => conn'[v]
           /\ \A v \in Workers : v # w => conn'[v] = conn[v]
           /\ conn'[w] = Obtains(w)
           /\ Locked' /\ Complete'
  BY DEF DepInv, TypeOK, Locked, Complete, GetDb, Keeps, Obtains, database

LEMMA StartWorkerDep ==
    ASSUME DepInv, NEW w \in Workers, StartWorker(w)
    PROVE  DepInv'
  <1>1. UNCHANGED database /\ GetDb(w) /\ UNCHANGED <<cache, half, stops>>
    BY DEF StartWorker
  <1>2. TypeOK'
    BY <1>1, Connecting DEF StartWorker, DepInv, TypeOK, database, Answers
  <1>3. MemoryCurrent'
    BY <1>1, Connecting, SameDatabase DEF StartWorker, DepInv, TypeOK, MemoryCurrent, Queries
  <1>4. AnswersAreCurrent'
    BY DEF StartWorker, AnswersAreCurrent, NoAnswer
  <1> QED
    BY <1>1, <1>2, <1>3, <1>4, Connecting DEF DepInv

LEMMA RefuseDep ==
    ASSUME DepInv, NEW w \in Workers, NEW q \in Queries, Refuse(w, q)
    PROVE  DepInv'
  <1>1. /\ UNCHANGED database /\ UNCHANGED api
        /\ answer' = [status |-> 400, worker |-> w, query |-> q, body |-> {}]
    BY DEF Refuse, Answered
  <1>2. TypeOK'
    BY <1>1 DEF DepInv, TypeOK, Answers, Readings, database, api
  <1>3. Locked' /\ Complete' /\ MemoryCurrent'
    BY <1>1, SameDatabase
    DEF DepInv, Locked, Complete, MemoryCurrent, database, api, Queries
  <1>4. AnswersAreCurrent'
    BY <1>1 DEF AnswersAreCurrent
  <1> QED
    BY <1>2, <1>3, <1>4 DEF DepInv

LEMMA HitDep ==
    ASSUME DepInv, NEW w \in Workers, NEW q \in Queries, Hit(w, q)
    PROVE  DepInv'
  <1>1. UNCHANGED database /\ UNCHANGED api
    BY DEF Hit
  <1>2. cache[w][q] = Current(q) /\ cache[w][q] \in Readings
    BY DEF Hit, Serving, Prefix, DepInv, MemoryCurrent, TypeOK
  <1>3. TypeOK'
    BY <1>1, <1>2 DEF Hit, Prefix, Answered, DepInv, TypeOK, Answers, database, api
  <1>4. Locked' /\ Complete' /\ MemoryCurrent'
    BY <1>1, SameDatabase
    DEF DepInv, Locked, Complete, MemoryCurrent, database, api, Queries
  <1>5. AnswersAreCurrent'
    BY <1>1, <1>2, SameDatabase DEF Hit, Prefix, Answered, AnswersAreCurrent
  <1> QED
    BY <1>3, <1>4, <1>5 DEF DepInv

LEMMA MissDep ==
    ASSUME DepInv, NEW w \in Workers, NEW q \in Queries, Miss(w, q)
    PROVE  DepInv'
  <1> DEFINE body == IF Status(w, q) = 200 THEN Current(q) ELSE {}
  <1>1. UNCHANGED database /\ GetDb(w) /\ UNCHANGED <<up, half, stops>>
    BY DEF Miss
  <1>2. body \in Readings
    BY CurrentTyped DEF DepInv, Readings
  <1>3. cache' = [cache EXCEPT ![w][q] = body]
    BY DEF Miss, Store, Prefix
  <1>4. answer' = [status |-> Status(w, q), worker |-> w, query |-> q, body |-> body]
    BY DEF Miss, Answered
  <1>5. Status(w, q) \in {200, 500, 503} /\ (Status(w, q) = 200 => conn'[w])
    BY <1>1, Connecting DEF Status
  <1> HIDE DEF body
  <1>6. TypeOK'
    <2>1. cache' \in [Workers -> [Queries -> Readings]]
      BY <1>2, <1>3 DEF DepInv, TypeOK
    <2>2. answer' \in Answers
      BY <1>2, <1>4, <1>5 DEF Answers
    <2> QED
      BY <1>1, <2>1, <2>2, Connecting DEF Miss, Serving, DepInv, TypeOK, database
  <1>7. MemoryCurrent'
    <2>1. \A v \in Workers, p \in Queries :
             up'[v] = "up" /\ cache'[v][p] # {} => conn'[v] /\ cache'[v][p] = Current(p)'
      <3> SUFFICES ASSUME NEW v \in Workers, NEW p \in Queries, up'[v] = "up", cache'[v][p] # {}
                   PROVE  conn'[v] /\ cache'[v][p] = Current(p)'
        OBVIOUS
      <3>1. CASE v = w /\ p = q
        <4>1. cache'[v][p] = body
          BY <1>3, <3>1 DEF DepInv, TypeOK
        <4> QED
          BY <4>1, <3>1, <1>1, <1>5, SameDatabase DEF body
      <3>2. CASE ~(v = w /\ p = q)
        <4>1. cache'[v][p] = cache[v][p]
          BY <1>3, <3>2 DEF DepInv, TypeOK
        <4> QED
          BY <4>1, <1>1, Connecting, SameDatabase DEF DepInv, MemoryCurrent
      <3> QED
        BY <3>1, <3>2
    <2>2. \A v \in Workers : half'[v] # {} => half'[v] = Current("metrics")'
      BY <1>1, SameDatabase DEF DepInv, MemoryCurrent, Queries
    <2>3. \A v \in Workers : up'[v] = "down" => \A p \in Queries : cache'[v][p] = {}
      BY <1>1, <1>3 DEF Miss, Serving, DepInv, TypeOK, MemoryCurrent
    <2> QED
      BY <2>1, <2>2, <2>3 DEF MemoryCurrent
  <1>8. AnswersAreCurrent'
    BY <1>1, <1>4, SameDatabase DEF AnswersAreCurrent, body
  <1> QED
    BY <1>1, <1>6, <1>7, <1>8, Connecting DEF DepInv
LEMMA MetricsErrorsDep ==
    ASSUME DepInv, NEW w \in Workers, MetricsErrors(w)
    PROVE  DepInv'
  <1>1. UNCHANGED database /\ GetDb(w) /\ UNCHANGED <<up, cache, stops>>
    BY DEF MetricsErrors
  <1>2. "metrics" \in Queries /\ Current("metrics") \in Readings
    BY CurrentTyped DEF DepInv, Queries
  <1>3. Status(w, "metrics") \in {200, 500, 503} /\ (Status(w, "metrics") = 200 => conn'[w])
    BY <1>1, Connecting DEF Status
  <1>4. \/ /\ Status(w, "metrics") = 200
           /\ half' = [half EXCEPT ![w] = Current("metrics")]
           /\ answer' = NoAnswer
        \/ /\ half' = half
           /\ Status(w, "metrics") # 200
           /\ answer' = [status |-> Status(w, "metrics"), worker |-> w,
                         query |-> "metrics", body |-> {}]
    BY DEF MetricsErrors, Answered
  <1>5. half' \in [Workers -> Readings] /\ \A v \in Workers : half'[v] # {} => conn'[v]
    <2>1. half \in [Workers -> Readings] /\ \A v \in Workers : half[v] # {} => conn[v]
      BY DEF DepInv, TypeOK
    <2>2. half' \in [Workers -> Readings]
      BY <1>2, <1>4, <2>1
    <2>3. \A v \in Workers : conn[v] => conn'[v]
      BY <1>1, Connecting
    <2>4. \A v \in Workers : v # w => half'[v] = half[v]
      BY <1>4, <2>1
    <2>5. half'[w] = half[w] \/ conn'[w]
      BY <1>3, <1>4
    <2> QED
      BY <2>1, <2>2, <2>3, <2>4, <2>5
  <1>6. TypeOK'
    <2>1. answer' \in Answers
      BY <1>2, <1>3, <1>4 DEF Answers, Readings
    <2> QED
      BY <1>1, <1>5, <2>1, Connecting DEF MetricsErrors, Serving, DepInv, TypeOK, database
  <1>7. MemoryCurrent'
    <2>1. \A v \in Workers : half'[v] # {} => half'[v] = Current("metrics")'
      BY <1>1, <1>2, <1>4, SameDatabase DEF DepInv, TypeOK, MemoryCurrent
    <2> QED
      BY <1>1, <2>1, Connecting, SameDatabase DEF DepInv, MemoryCurrent
  <1>8. AnswersAreCurrent'
    BY <1>4 DEF AnswersAreCurrent, NoAnswer
  <1> QED
    BY <1>1, <1>6, <1>7, <1>8, Connecting DEF DepInv

LEMMA MetricsReliabilityDep ==
    ASSUME DepInv, NEW w \in Workers, MetricsReliability(w)
    PROVE  DepInv'
  <1>1. UNCHANGED database /\ UNCHANGED <<up, conn, stops>>
    BY DEF MetricsReliability
  <1>2. half[w] \cup Current("generation") = Current("metrics")
    BY MetricsWhole DEF MetricsReliability, DepInv, MemoryCurrent
  <1>3. "metrics" \in Queries /\ Current("metrics") \in Readings
    BY CurrentTyped DEF DepInv, Queries
  <1>4. /\ cache' = [cache EXCEPT ![w]["metrics"] = Current("metrics")]
        /\ half' = [half EXCEPT ![w] = {}]
        /\ answer' = [status |-> 200, worker |-> w,
                      query |-> "metrics", body |-> Current("metrics")]
    BY <1>2 DEF MetricsReliability, Answered, Store, Prefix
  <1>5. conn[w] /\ up[w] = "up"
    BY DEF MetricsReliability, DepInv, TypeOK
  <1>6. TypeOK'
    <2>1. cache' \in [Workers -> [Queries -> Readings]] /\ half' \in [Workers -> Readings]
      BY <1>3, <1>4 DEF DepInv, TypeOK, Readings
    <2>2. answer' \in Answers
      BY <1>3, <1>4 DEF Answers
    <2> QED
      BY <1>1, <1>4, <2>1, <2>2 DEF DepInv, TypeOK, database
  <1>7. MemoryCurrent'
    <2>1. \A v \in Workers, p \in Queries :
             cache'[v][p] = IF v = w /\ p = "metrics" THEN Current("metrics") ELSE cache[v][p]
      BY <1>4 DEF DepInv, TypeOK
    <2>2. \A v \in Workers : half'[v] = IF v = w THEN {} ELSE half[v]
      BY <1>4 DEF DepInv, TypeOK
    <2> QED
      BY <1>1, <1>3, <1>5, <2>1, <2>2, SameDatabase DEF DepInv, MemoryCurrent
  <1>8. Locked' /\ Complete'
    BY <1>1 DEF DepInv, Locked, Complete, database
  <1>9. AnswersAreCurrent'
    BY <1>1, <1>3, <1>4, SameDatabase DEF AnswersAreCurrent
  <1> QED
    BY <1>6, <1>7, <1>8, <1>9 DEF DepInv

LEMMA HealthDep ==
    ASSUME DepInv, NEW w \in Workers, Health(w)
    PROVE  DepInv'
  <1>1. UNCHANGED database /\ GetDb(w) /\ UNCHANGED <<up, cache, half, stops>>
    BY DEF Health
  <1>2. TypeOK'
    BY <1>1, Connecting DEF Health, Serving, DepInv, TypeOK, database, Answers
  <1>3. MemoryCurrent'
    BY <1>1, Connecting, SameDatabase DEF DepInv, MemoryCurrent, Queries
  <1>4. AnswersAreCurrent'
    BY DEF Health, AnswersAreCurrent, NoAnswer
  <1> QED
    BY <1>1, <1>2, <1>3, <1>4, Connecting DEF DepInv

\* Forgetting, and stopping in any way: memory is only dropped, and a worker
\* that keeps memory without its connection is not up.
LEMMA DroppingDep ==
    ASSUME DepInv, NEW w \in Workers, NEW q \in Queries,
           Forget(w, q) \/ CloseDb(w) \/ ClearCache(w) \/ KillWorker(w)
    PROVE  DepInv'
  <1>1. UNCHANGED database /\ answer' = NoAnswer
    BY DEF Forget, CloseDb, ClearCache, KillWorker
  <1>2. /\ conn' \in [Workers -> BOOLEAN] /\ up' \in [Workers -> {"down", "up", "closing"}]
        /\ \A v \in Workers : conn'[v] => conn[v] /\ up'[v] = "up"
        /\ \A v \in Workers : up'[v] = "up" /\ conn[v] => conn'[v]
        /\ \A v \in Workers : up'[v] = "up" => up[v] = "up"
    BY DEF Forget, CloseDb, ClearCache, KillWorker, Serving, DepInv, TypeOK
  <1>3. /\ cache' \in [Workers -> [Queries -> Readings]]
        /\ \A v \in Workers, p \in Queries : cache'[v][p] \in {cache[v][p], {}}
    <2> DEFINE nothing == [p \in Queries |-> {}]
    <2>1. cache \in [Workers -> [Queries -> Readings]] /\ {} \in Readings
      BY DEF DepInv, TypeOK, Readings
    <2>2. \/ cache' = [cache EXCEPT ![w][q] = {}]
          \/ cache' = [cache EXCEPT ![w] = nothing]
          \/ cache' = cache
      BY DEF Forget, CloseDb, ClearCache, KillWorker
    <2>3. nothing \in [Queries -> Readings] /\ \A p \in Queries : nothing[p] = {}
      BY <2>1
    <2> HIDE DEF nothing
    <2>4. CASE cache' = [cache EXCEPT ![w][q] = {}]
      BY <2>1, <2>4
    <2>5. CASE cache' = [cache EXCEPT ![w] = nothing]
      BY <2>1, <2>3, <2>5
    <2>6. CASE cache' = cache
      BY <2>1, <2>6
    <2> QED
      BY <2>2, <2>4, <2>5, <2>6
  <1>4. /\ half' \in [Workers -> Readings]
        /\ \A v \in Workers : half'[v] = half[v] \/ half'[v] = {}
        /\ \A v \in Workers : half'[v] # {} => conn'[v]
    BY DEF Forget, CloseDb, ClearCache, KillWorker, Serving, DepInv, TypeOK, Readings
  <1>5. \A v \in Workers : up'[v] = "down" => \A p \in Queries : cache'[v][p] = {}
    BY DEF Forget, CloseDb, ClearCache, KillWorker, DepInv, TypeOK, MemoryCurrent
  <1>6. stops' \in 0..MaxStops
    BY BoundAssumption DEF Forget, CloseDb, ClearCache, KillWorker, DepInv, TypeOK
  <1>7. TypeOK'
    BY <1>1, <1>2, <1>3, <1>4, <1>6 DEF DepInv, TypeOK, database, Answers
  <1>8. Locked' /\ Complete'
    BY <1>1, <1>2 DEF DepInv, Locked, Complete, database
  <1>9. MemoryCurrent'
    BY <1>1, <1>2, <1>3, <1>4, <1>5, SameDatabase DEF DepInv, MemoryCurrent, Queries
  <1>10. AnswersAreCurrent'
    BY <1>1 DEF AnswersAreCurrent, NoAnswer
  <1> QED
    BY <1>7, <1>8, <1>9, <1>10 DEF DepInv

-----------------------------------------------------------------------------
(* Steps of the pipeline *)

\* A step that changes the database finds no connection, so no serving worker
\* remembers anything.
LEMMA WritingDep ==
    ASSUME DepInv, UNCHANGED api, answer' = NoAnswer,
           \A w \in Workers : ~conn[w], TypeOK', Locked', Complete'
    PROVE  DepInv'
  <1>1. MemoryCurrent'
    <2>1. \A w \in Workers : half[w] = {}
      BY DEF DepInv, TypeOK
    <2>2. \A w \in Workers, q \in Queries : up[w] = "up" => cache[w][q] = {}
      BY DEF DepInv, MemoryCurrent
    <2> QED
      BY <2>1, <2>2 DEF DepInv, MemoryCurrent, api
  <1>2. AnswersAreCurrent'
    BY DEF AnswersAreCurrent, NoAnswer
  <1> QED
    BY <1>1, <1>2 DEF DepInv

LEMMA OpenForWritingDep ==
    ASSUME DepInv, OpenForWriting
    PROVE  DepInv'
  <1>1. TypeOK'
    <2>1. runs' \in 0..MaxRuns
      BY BoundAssumption DEF OpenForWriting, DepInv, TypeOK
    <2>2. /\ file' \in BOOLEAN
          /\ pipeline' \in {"idle", "creating", "loading"}
          /\ exit' \in {"none", "running", "refused", "done", "crashed"}
      BY DEF OpenForWriting, DepInv, TypeOK
    <2>3. answer' \in Answers
      BY DEF OpenForWriting, Answers
    <2>4. UNCHANGED <<tables, version, crashes, api>>
      BY DEF OpenForWriting
    <2> QED
      BY <2>1, <2>2, <2>3, <2>4 DEF DepInv, TypeOK, api
  <1>2. CASE \E w \in Workers : conn[w]
    <2>1. UNCHANGED <<file, tables, version, pipeline, crashes, api>> /\ answer' = NoAnswer
      BY <1>2 DEF OpenForWriting
    <2>2. \A q \in Queries : Current(q)' = Current(q)
      BY <2>1 DEF Current
    <2>3. Locked' /\ Complete' /\ MemoryCurrent'
      BY <2>1, <2>2 DEF DepInv, Locked, Complete, MemoryCurrent, api, Queries
    <2>4. AnswersAreCurrent'
      BY <2>1 DEF AnswersAreCurrent, NoAnswer
    <2> QED
      BY <1>1, <2>3, <2>4 DEF DepInv
  <1>3. CASE ~\E w \in Workers : conn[w]
    <2>1. Locked' /\ Complete'
      BY <1>3 DEF OpenForWriting, DepInv, Locked, Complete, api
    <2> QED
      BY <1>1, <1>3, <2>1, WritingDep DEF OpenForWriting
  <1> QED
    BY <1>2, <1>3

LEMMA PipelineDep ==
    ASSUME DepInv, PipelineStep \/ PipelineCrash
    PROVE  DepInv'
  <1>1. pipeline # "idle" /\ UNCHANGED api /\ answer' = NoAnswer /\ file' = file /\ runs' = runs
    BY DEF PipelineStep, PipelineCrash, CreateTable, Commit, BeginLoading, CloseForWriting
  <1>2. \A w \in Workers : ~conn[w]
    BY <1>1 DEF DepInv, Locked
  <1> DEFINE Written ==
          /\ tables' \subseteq Tables
          /\ version' \in [Tables -> 0..MaxVersion]
          /\ pipeline' \in {"idle", "creating", "loading"}
          /\ exit' \in {"none", "running", "refused", "done", "crashed"}
          /\ crashes' \in 0..MaxCrashes
          /\ Complete'
  <1>3. Written
    <2>1. /\ tables \subseteq Tables /\ version \in [Tables -> 0..MaxVersion]
          /\ pipeline \in {"idle", "creating", "loading"}
          /\ exit \in {"none", "running", "refused", "done", "crashed"}
          /\ crashes \in 0..MaxCrashes
          /\ pipeline = "loading" => tables = Tables
      BY DEF DepInv, TypeOK, Complete
    <2>2. ASSUME NEW t \in Tables, CreateTable(t) PROVE Written
      BY <2>1, <2>2 DEF CreateTable, Ddl, Tables, Complete
    <2>3. ASSUME NEW t \in Tables, Commit(t) PROVE Written
      <3>1. version' \in [Tables -> 0..MaxVersion]
        BY <2>1, <2>3, BoundAssumption DEF Commit
      <3> QED
        BY <2>1, <2>3, <3>1 DEF Commit, Complete
    <2>4. CASE BeginLoading
      BY <2>1, <2>4 DEF BeginLoading, Ddl, Tables, Complete
    <2>5. CASE CloseForWriting
      BY <2>1, <2>5 DEF CloseForWriting, Complete
    <2>6. CASE PipelineCrash
      <3>1. crashes' \in 0..MaxCrashes /\ crashes' > 0
        BY <2>1, <2>6, BoundAssumption DEF PipelineCrash
      <3> QED
        BY <2>1, <2>6, <3>1 DEF PipelineCrash, Complete
    <2> QED
      BY <2>2, <2>3, <2>4, <2>5, <2>6 DEF PipelineStep
  <1>4. TypeOK'
    BY <1>1, <1>3 DEF DepInv, TypeOK, api, Answers
  <1>5. Locked'
    BY <1>1, <1>2 DEF DepInv, Locked, api
  <1> QED
    BY <1>1, <1>2, <1>3, <1>4, <1>5, WritingDep

-----------------------------------------------------------------------------
LEMMA NextDep == DepInv /\ [Next]_vars => DepInv'
  <1> SUFFICES ASSUME DepInv, [Next]_vars PROVE DepInv'
    OBVIOUS
  <1>1. ASSUME NEW w \in Workers, WorkerStep(w) PROVE DepInv'
    <2>1. ASSUME NEW q \in Queries, Request(w, q) PROVE DepInv'
      BY <2>1, HitDep, MissDep, MetricsErrorsDep DEF Request
    <2>2. ASSUME NEW q \in Queries, Forget(w, q) PROVE DepInv'
      BY <2>2, DroppingDep
    <2>3. ASSUME NEW q \in Queries, Refuse(w, q) PROVE DepInv'
      BY <2>3, RefuseDep
    <2>4. "metrics" \in Queries
      BY DEF Queries
    <2>5. CASE CloseDb(w) \/ ClearCache(w) \/ KillWorker(w)
      BY <2>4, <2>5, DroppingDep
    <2> QED
      BY <1>1, <2>1, <2>2, <2>3, <2>5, StartWorkerDep, MetricsReliabilityDep, HealthDep
      DEF WorkerStep
  <1>2. CASE UNCHANGED vars
    <2>1. UNCHANGED database /\ UNCHANGED api /\ UNCHANGED answer
      BY <1>2 DEF vars, database, api
    <2>2. TypeOK' /\ Locked' /\ Complete'
      BY <2>1 DEF DepInv, TypeOK, Locked, Complete, database, api
    <2>3. MemoryCurrent'
      BY <2>1, SameDatabase DEF DepInv, MemoryCurrent, Queries, api
    <2>4. AnswersAreCurrent'
      BY <1>2 DEF vars, DepInv, AnswersAreCurrent, Current
    <2> QED
      BY <2>2, <2>3, <2>4 DEF DepInv
  <1> QED
    BY <1>1, <1>2, OpenForWritingDep, PipelineDep DEF Next

LEMMA SpecDep == Spec => []DepInv
  BY InitDep, NextDep, PTL DEF Spec

\* Every variable keeps its type, and only a serving worker holds a connection
\* or a request (main.py:43-74).
THEOREM TypeCorrect == Spec => []TypeOK
  <1>1. DepInv => TypeOK
    BY DEF DepInv
  <1> QED
    BY <1>1, SpecDep, PTL

\* No worker ever sends an answer that differs from the database, cached or
\* not, however many workers, runs and restarts (connection.py:45-61).
THEOREM AnswersAlwaysCurrent == Spec => []AnswersAreCurrent
  <1>1. DepInv => AnswersAreCurrent
    BY DEF DepInv
  <1> QED
    BY <1>1, SpecDep, PTL

\* A worker connected to a database without its tables is the trace of a
\* killed pipeline run (schema.py:63-68).
THEOREM IncompleteAlwaysFromCrash == Spec => []IncompleteOnlyAfterCrash
  <1>1. DepInv => IncompleteOnlyAfterCrash
    BY DEF DepInv, Locked, Complete, IncompleteOnlyAfterCrash
  <1> QED
    BY <1>1, SpecDep, PTL

\* A request that finds a database and no writer, or has a connection, is
\* answered, unless a run was killed half way through its DDL.
LEMMA ConnectedServes ==
    ASSUME DepInv, NEW w \in Workers, NEW q \in Queries, Status(w, q) # 200
    PROVE  ~file \/ pipeline # "idle" \/ crashes > 0
  <1> SUFFICES ASSUME file, pipeline = "idle"
               PROVE  crashes > 0
    OBVIOUS
  <1>1. Obtains(w)
    BY DEF Obtains
  <1>2. ~(TablesOf(q) \subseteq tables)
    BY <1>1 DEF Status
  <1>3. TablesOf(q) \subseteq Tables
    BY DEF TablesOf, Queries, Tables
  <1> QED
    BY <1>2, <1>3 DEF DepInv, Complete

ErrorsOnlyWithoutDatabase ==
    answer.status \in {500, 503} => ~file \/ pipeline # "idle" \/ crashes > 0

\* Users get a 500 or a 503 only before the first run of the pipeline, while one
\* is under way, or after one was killed: a worker that failed to connect tries
\* again at its next request, and one that is connected never loses the tables
\* (connection.py:45-61, schema.py:63-68).
THEOREM ErrorsAlwaysExplained == Spec => []ErrorsOnlyWithoutDatabase
  <1>1. Init => ErrorsOnlyWithoutDatabase
    BY DEF Init, NoAnswer, ErrorsOnlyWithoutDatabase
  <1>2. ASSUME DepInv, Next, answer'.status \in {500, 503}
        PROVE  ~file' \/ pipeline' # "idle" \/ crashes' > 0
    <2>1. answer' # NoAnswer
      BY <1>2 DEF NoAnswer
    <2>2. PICK w \in Workers : WorkerStep(w)
      BY <1>2, <2>1 DEF Next, OpenForWriting, PipelineStep, PipelineCrash, CreateTable, Commit,
                        BeginLoading, CloseForWriting
    <2>3. PICK q \in Queries : Request(w, q)
      <3>1. ~MetricsReliability(w)
        BY <1>2 DEF MetricsReliability, Answered
      <3>2. \A q \in Queries : ~Refuse(w, q)
        BY <1>2 DEF Refuse, Answered
      <3> QED
        BY <2>1, <2>2, <3>1, <3>2
           DEF WorkerStep, StartWorker, ClearCache, Forget, Health, CloseDb, KillWorker
    <2>4. Status(w, q) # 200 /\ UNCHANGED database
      <3>1. CASE Miss(w, q)
        BY <1>2, <3>1 DEF Miss, Answered
      <3>2. CASE MetricsErrors(w) /\ q = "metrics"
        BY <1>2, <2>1, <3>2 DEF MetricsErrors, Answered
      <3>3. ~Hit(w, q)
        BY <1>2 DEF Hit, Answered
      <3> QED
        BY <2>3, <3>1, <3>2, <3>3 DEF Request
    <2> QED
      BY <1>2, <2>4, ConnectedServes DEF database
  <1>3. DepInv /\ ErrorsOnlyWithoutDatabase /\ [Next]_vars => ErrorsOnlyWithoutDatabase'
    BY <1>2 DEF vars, ErrorsOnlyWithoutDatabase
  <1> QED
    BY <1>1, <1>3, SpecDep, PTL DEF Spec
=============================================================================
