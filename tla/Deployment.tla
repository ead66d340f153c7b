----------------------------- MODULE Deployment -----------------------------
(***************************************************************************)
(* The processes around one DuckDB file: the uvicorn workers of the API    *)
(* (backend/main.py, backend/db/connection.py, backend/routers), each with *)
(* a connection and a cache of its own, and the ingestion pipeline, the    *)
(* single writer.                                                          *)
(*                                                                         *)
(* A table's contents are a version, raised by every committed load; what  *)
(* a load writes is Ingestion's subject.  The handlers are async functions *)
(* with no await in them, so a worker serves one request at a time and     *)
(* nothing else of that worker runs in between; the pipeline and the other *)
(* workers do, and that is why the two statements of /metrics are two      *)
(* steps.  One representative set of parameters per endpoint is enough:    *)
(* entries are compared only under their own key (LRUCache).               *)
(*                                                                         *)
(* DuckDB is external: a read-write connection excludes every other        *)
(* process, read-only ones exclude writers, each statement commits.        *)
(***************************************************************************)
EXTENDS Integers

CONSTANTS
    Workers,      \* the API's worker processes (Dockerfile.backend: 2)
    MaxVersion,   \* bound: committed loads per table
    MaxRuns,      \* bound: attempts to start the pipeline
    MaxCrashes,   \* bound: pipeline processes killed
    MaxStops      \* bound: workers shut down or killed

ASSUME BoundAssumption ==
    /\ MaxVersion \in Nat \ {0}
    /\ MaxRuns \in Nat /\ MaxCrashes \in Nat /\ MaxStops \in Nat

VARIABLES
    file,         \* does windsight.duckdb exist
    tables,       \* its tables
    version,      \* version[t]: contents of table t, 0 when empty
    pipeline,     \* the pipeline process: "idle" when there is none
    exit,         \* how the last attempt to run it ended
    up,           \* up[w]: the worker's lifespan
    conn,         \* conn[w]: _connection is not None
    cache,        \* cache[w][q]: the cached response, {} when there is none
    half,         \* half[w]: what /metrics has read so far, {} outside of it
    answer,       \* the response just sent
    runs, crashes, stops   \* bound counters

vars == <<file, tables, version, pipeline, exit, up, conn, cache, half, answer,
          runs, crashes, stops>>
database == <<file, tables, version, pipeline, exit, runs, crashes>>
api == <<up, conn, cache, half, stops>>

Tables == {"actual", "forecast"}
Queries == {"generation", "forecast", "metrics"}

TablesOf(q) ==
    CASE q = "generation" -> {"actual"}
      [] q = "forecast" -> {"forecast"}
      [] q = "metrics" -> Tables

\* The tables of init_database().  Faulty: one of the two is forgotten.
DdlActualOnly == {"actual"}
Ddl == {"actual", "forecast"}

\* A response, as what was read of which table.
Readings == SUBSET (Tables \X Nat)
Current(q) == {<<t, version[t]>> : t \in TablesOf(q)}

NoAnswer == [status |-> 0]
Answers == {NoAnswer}
    \cup [status : {200, 400, 500, 503}, worker : Workers, query : Queries, body : Readings]
Answered(w, q, code, body) ==
    answer' = [status |-> code, worker |-> w, query |-> q, body |-> body]

Init ==
    /\ \/ file = FALSE /\ tables = {} /\ version = [t \in Tables |-> 0]
       \/ file = TRUE /\ tables = Ddl /\ version = [t \in Tables |-> 1]
    /\ pipeline = "idle" /\ exit = "none"
    /\ up = [w \in Workers |-> "down"]
    /\ conn = [w \in Workers |-> FALSE]
    /\ cache = [w \in Workers |-> [q \in Queries |-> {}]]
    /\ half = [w \in Workers |-> {}]
    /\ answer = NoAnswer
    /\ runs = 0 /\ crashes = 0 /\ stops = 0

-----------------------------------------------------------------------------
(* The API *)

\* Does get_db() return?  Faulty: it never opens a connection.
ObtainsCached(w) == conn[w]
Obtains(w) == conn[w] \/ (file /\ pipeline = "idle")

\* Is there a connection afterwards?  Faulty: one connection per call.
KeepsNone(w) == FALSE
Keeps(w) == Obtains(w)

GetDb(w) == conn' = [conn EXCEPT ![w] = Keeps(w)]

\* FileNotFoundError is 503; a locked file or a missing table is 500.
Status(w, q) ==
    CASE Obtains(w) /\ TablesOf(q) \subseteq tables -> 200
      [] ~conn[w] /\ ~file -> 503
      [] OTHER -> 500

\* The cache prefix of a router.  Faulty: one copied from another router.
PrefixCopied(q) == IF q = "metrics" THEN "forecast" ELSE q
Prefix(q) == q

Store(w, q, body) == cache' = [cache EXCEPT ![w][Prefix(q)] = body]

Serving(w) == up[w] = "up" /\ half[w] = {}

\* lifespan(), up to its yield: a failure of get_db() or of the two counts is
\* only logged, and a connection that was opened stays.
StartWorker(w) ==
    /\ up[w] = "down"
    /\ up' = [up EXCEPT ![w] = "up"]
    /\ GetDb(w)
    /\ answer' = NoAnswer
    /\ UNCHANGED <<database, cache, half, stops>>

\* start >= end, before the cache and the database are looked at.
Refuse(w, q) ==
    /\ Serving(w)
    /\ Answered(w, q, 400, {})
    /\ UNCHANGED <<database, api>>

Hit(w, q) ==
    /\ Serving(w)
    /\ cache[w][Prefix(q)] # {}
    /\ Answered(w, q, 200, cache[w][Prefix(q)])
    /\ UNCHANGED <<database, api>>

\* /generation and /forecast: one statement.
Miss(w, q) ==
    /\ Serving(w)
    /\ cache[w][Prefix(q)] = {}
    /\ GetDb(w)
    /\ LET body == IF Status(w, q) = 200 THEN Current(q) ELSE {}
       IN Answered(w, q, Status(w, q), body) /\ Store(w, q, body)
    /\ UNCHANGED <<database, up, half, stops>>

\* /metrics: get_forecast_errors() reads both tables ...
MetricsErrors(w) ==
    /\ Serving(w)
    /\ cache[w][Prefix("metrics")] = {}
    /\ GetDb(w)
    /\ IF Status(w, "metrics") = 200
       THEN half' = [half EXCEPT ![w] = Current("metrics")] /\ answer' = NoAnswer
       ELSE Answered(w, "metrics", Status(w, "metrics"), {}) /\ UNCHANGED half
    /\ UNCHANGED <<database, up, cache, stops>>

\* ... and get_reliability_metrics() reads the actuals again.
MetricsReliability(w) ==
    /\ half[w] # {}
    /\ LET body == half[w] \cup Current("generation")
       IN Answered(w, "metrics", 200, body) /\ Store(w, "metrics", body)
    /\ half' = [half EXCEPT ![w] = {}]
    /\ UNCHANGED <<database, up, conn, stops>>

\* GET /health, by a container's health check: get_db() and two counts.
Health(w) ==
    /\ Serving(w)
    /\ GetDb(w)
    /\ answer' = NoAnswer
    /\ UNCHANGED <<database, up, cache, half, stops>>

\* An entry expires or is evicted.
Forget(w, q) ==
    /\ cache[w][q] # {}
    /\ cache' = [cache EXCEPT ![w][q] = {}]
    /\ answer' = NoAnswer
    /\ UNCHANGED <<database, up, conn, half, stops>>

\* lifespan(), after its yield: close_db(), then cache.invalidate().
CloseDb(w) ==
    /\ Serving(w)
    /\ stops < MaxStops
    /\ stops' = stops + 1
    /\ up' = [up EXCEPT ![w] = "closing"]
    /\ conn' = [conn EXCEPT ![w] = FALSE]
    /\ answer' = NoAnswer
    /\ UNCHANGED <<database, cache, half>>

ClearCache(w) ==
    /\ up[w] = "closing"
    /\ up' = [up EXCEPT ![w] = "down"]
    /\ cache' = [cache EXCEPT ![w] = [q \in Queries |-> {}]]
    /\ answer' = NoAnswer
    /\ UNCHANGED <<database, conn, half, stops>>

\* The process dies with its memory; a request it was serving is lost.
KillWorker(w) ==
    /\ up[w] # "down"
    /\ stops < MaxStops
    /\ stops' = stops + 1
    /\ up' = [up EXCEPT ![w] = "down"]
    /\ conn' = [conn EXCEPT ![w] = FALSE]
    /\ cache' = [cache EXCEPT ![w] = [q \in Queries |-> {}]]
    /\ half' = [half EXCEPT ![w] = {}]
    /\ answer' = NoAnswer
    /\ UNCHANGED database

-----------------------------------------------------------------------------
(* The pipeline *)

\* init_database(): duckdb.connect() creates the file, or raises if a reader
\* has it open.
OpenForWriting ==
    /\ pipeline = "idle"
    /\ runs < MaxRuns
    /\ runs' = runs + 1
    /\ IF \E w \in Workers : conn[w]
       THEN exit' = "refused" /\ UNCHANGED <<file, pipeline>>
       ELSE exit' = "running" /\ pipeline' = "creating" /\ file' = TRUE
    /\ answer' = NoAnswer
    /\ UNCHANGED <<tables, version, crashes, api>>

\* CREATE TABLE IF NOT EXISTS, actual_generation first.
CreateTable(t) ==
    /\ pipeline = "creating"
    /\ t \in Ddl \ tables
    /\ t = "forecast" => "actual" \in tables
    /\ tables' = tables \cup {t}
    /\ answer' = NoAnswer
    /\ UNCHANGED <<file, version, pipeline, exit, runs, crashes, api>>

BeginLoading ==
    /\ pipeline = "creating" /\ Ddl \subseteq tables
    /\ pipeline' = "loading"
    /\ answer' = NoAnswer
    /\ UNCHANGED <<file, tables, version, exit, runs, crashes, api>>

\* A load of some batch commits and changes the table.
Commit(t) ==
    /\ pipeline = "loading"
    /\ t \in tables
    /\ version[t] < MaxVersion
    /\ version' = [version EXCEPT ![t] = @ + 1]
    /\ answer' = NoAnswer
    /\ UNCHANGED <<file, tables, pipeline, exit, runs, crashes, api>>

\* conn.close() at the end of run_ingestion().
CloseForWriting ==
    /\ pipeline = "loading"
    /\ pipeline' = "idle" /\ exit' = "done"
    /\ answer' = NoAnswer
    /\ UNCHANGED <<file, tables, version, runs, crashes, api>>

PipelineCrash ==
    /\ pipeline # "idle"
    /\ crashes < MaxCrashes
    /\ crashes' = crashes + 1
    /\ pipeline' = "idle" /\ exit' = "crashed"
    /\ answer' = NoAnswer
    /\ UNCHANGED <<file, tables, version, runs, api>>

-----------------------------------------------------------------------------
Request(w, q) ==
    \/ Hit(w, q)
    \/ q # "metrics" /\ Miss(w, q)
    \/ q = "metrics" /\ MetricsErrors(w)

WorkerStep(w) ==
    \/ StartWorker(w) \/ MetricsReliability(w) \/ ClearCache(w)
    \/ \E q \in Queries : Request(w, q) \/ Refuse(w, q) \/ Forget(w, q)
    \/ Health(w) \/ CloseDb(w) \/ KillWorker(w)

PipelineStep ==
    \/ \E t \in Tables : CreateTable(t) \/ Commit(t)
    \/ BeginLoading \/ CloseForWriting

Next ==
    \/ \E w \in Workers : WorkerStep(w)
    \/ OpenForWriting \/ PipelineStep \/ PipelineCrash

Spec == Init /\ [][Next]_vars

\* The container runtime restarts workers, a started request and a started
\* pipeline run go on, somebody runs the pipeline, and users keep asking for
\* ranges that are not empty.
FairSpec ==
    /\ Spec
    /\ WF_vars(OpenForWriting) /\ WF_vars(PipelineStep)
    /\ \A w \in Workers :
        /\ WF_vars(StartWorker(w)) /\ WF_vars(MetricsReliability(w)) /\ WF_vars(ClearCache(w))
        /\ \A q \in Queries : SF_vars(Request(w, q))

-----------------------------------------------------------------------------
(* Properties *)

\* Types; a worker that is not serving holds neither a connection nor a request,
\* and a request that has begun to read holds its connection.
TypeOK ==
    /\ file \in BOOLEAN
    /\ tables \subseteq Tables
    /\ version \in [Tables -> 0..MaxVersion]
    /\ pipeline \in {"idle", "creating", "loading"}
    /\ exit \in {"none", "running", "refused", "done", "crashed"}
    /\ up \in [Workers -> {"down", "up", "closing"}]
    /\ conn \in [Workers -> BOOLEAN]
    /\ cache \in [Workers -> [Queries -> Readings]]
    /\ half \in [Workers -> Readings]
    /\ answer \in Answers
    /\ runs \in 0..MaxRuns /\ crashes \in 0..MaxCrashes /\ stops \in 0..MaxStops
    /\ \A w \in Workers :
        /\ conn[w] => up[w] = "up"
        /\ half[w] # {} => conn[w]

\* Every 200 is what the database holds at the moment it is sent, from the cache
\* or not, in any worker, through pipeline runs, restarts and shutdowns; and the
\* two statements of /metrics see one state.  Nothing in the code compares a
\* cached response with the database: it rests on get_db() keeping the
\* connection, and with it DuckDB's lock, as long as the cache lives
\* (connection.py:45-61, main.py:72-73).
AnswersAreCurrent == answer.status = 200 => answer.body = Current(answer.query)

\* A worker never serves from a database without its tables unless a pipeline
\* process died between connecting and its DDL (schema.py:63-68): such a
\* connection would stay for the worker's life and lock the repairing run out.
IncompleteOnlyAfterCrash ==
    \A w \in Workers : conn[w] /\ tables # Tables => crashes > 0

\* Once the runs of the pipeline and the restarts are over, no run having been
\* killed, every worker gives every endpoint its 200 again and again, also a
\* worker started before there was a database (connection.py:50-59).
EventuallyServes ==
    [](crashes = 0) =>
        \A w \in Workers, q \in Queries :
            []<>(answer.status = 200 /\ answer.worker = w /\ answer.query = q)

\* "Read-only connections for API queries (no write contention)" (README.md:255).
NoWriteContention == exit # "refused"
=============================================================================
