# WindSight Forecast Monitor in TLA+

A verification project for the WindSight repository: a pipeline that ingests UK
wind generation and wind forecasts from BMRS into one DuckDB file, a FastAPI
backend that answers from that file through an in-memory cache, and a Next.js
dashboard. Paths below are relative to the repository root.

Each component has one module. `MC*` modules and `.cfg` files give it small
constants for TLC; `*Proofs` modules hold the theorems that TLAPS checks for
every value of the constants.

## 1. Inventory

| Component | State | Operations | Interacts with | What is hard |
|---|---|---|---|---|
| Response cache, `backend/services/cache.py` | ordered dictionary key → (value, expiry), hit and miss counts | `get`, `set`, `invalidate` | called by every router; `invalidate` by the lifespan | eviction order after long call sequences; expiry by a clock that can be stepped; `ttl or default` |
| Ingestion, `pipeline/ingest.py: run_ingestion` | DuckDB tables, Parquet archive, error list | per day: fetch, archive and load actuals, then forecasts | BMRS, DuckDB, file system | partial failures, kills, re-runs, overlapping windows, revisions of the feed |
| Fetch with retry, `pipeline/ingest.py: fetch_with_retry` | attempt, delay | request, back off, give up | BMRS | mixed failures, cap, limit |
| Horizon selection, `backend/services/forecast_processor.py` | none (SQL over two tables) | `get_horizon_forecast`, `get_forecast_errors` | tables that loads change | ranking, look-ahead, two copies of the same SQL |
| Forecast window, `pipeline/ingest.py: fetch_wind_forecast` | none | which publish times a day asks for | horizon selection | the 48 h boundary, failed days |
| Connections and schema, `backend/db/connection.py`, `pipeline/schema.py` | one global connection per process; the file and its tables | `get_db`, `close_db`, `init_database` | DuckDB's lock between processes | a kept connection, a crash before the DDL, worker started first |
| API process, `backend/main.py`, `backend/routers/*` | lifespan, cache, connection | start, three endpoints, health, shutdown | all of the above | several workers beside the pipeline, a two-statement response |
| Metrics arithmetic, `compute_error_metrics`, `compute_hourly_errors`, `get_reliability_metrics` | none | percentiles, means | routers | index arithmetic at small sizes |
| Dashboard, `frontend/src/components/Dashboard.tsx`, `lib/api.ts` | parameters, three answers, loading flag, error | change a control, end of a load, reload | API, chart | loads overlap, end out of order, fail in part |
| Chart, `frontend/src/components/TimeSeriesChart.tsx` | ECharts library, instance, resize listener | mount, import, draw, unmount | dashboard, theme, ECharts | imports that come late, leaks over many mounts, stale drawings |
| Theme, `ThemeProvider.tsx`, `ThemeToggle.tsx` | theme, `data-theme`, localStorage | first load, toggle | chart, document | storage that throws between two of its three writes |
| Other controls; schemas; containers; notebook | presentation or configuration | | | |

`PROJECT.json` lists every component with its status and every hazard with the
line it bites at.

What makes each component correct:

- **Cache** – never over capacity; the entry evicted is the least recently used
  one; an answer is the latest stored under that very key and not past its ttl.
- **Ingestion** – a finished run names every batch whose data it may have lost;
  stored rows never go back to an older version, and nothing outside a batch's
  window is touched; re-runs catch up; what is stored can be reprocessed from
  the archive.
- **Fetch** – the documented back-off, exhaustion only after `max_retries`.
- **Selection** – exactly the latest forecast published at least the horizon
  ahead, once per slot; never a later one (look-ahead); metrics agree with the
  chart.
- **Window** – after a failure, neighbouring days make good what lies in their
  windows.
- **API and pipeline together** – every answer, cached or not, is what the
  database holds; workers come to serve; an incomplete database is only ever
  the trace of a crash.
- **Metrics** – p99 and the median of the errors split the sample as their
  names say, at every size; P10 and P20 are reached by nine and eight tenths of
  it, up to one slot; the figures agree; the hourly breakdown adds up.
- **Dashboard and chart** – spinner and banner are founded in a load; panels
  show the answers for the selection; what is drawn is what is held, in the
  theme's colours; nothing leaks; the page settles down.

## 2. Modules

```
TtlStore <==refines== LRUCache          <- LRUCacheProofs
FeedReplica <=refines= Ingestion        <- IngestionProofs
                       FetchRetry       <- FetchRetryProofs
                                           (what one Fetch of Ingestion is)
HorizonSelection
  ^ EXTENDS
ForecastCoverage       <- HorizonSelectionProofs (both)
ErrorMetrics           <- ErrorMetricsProofs (numbers over the error join)
Deployment             <- DeploymentProofs (cache + connections + pipeline)
Dashboard                 (controls, loads, panels)
  ^ EXTENDS
DashboardPage          <- DashboardProofs  (with chart and theme)
RecursionLemmas           (induction, powers, sums: for the proofs)
```

**LRUCache.** `cache` is the OrderedDict, least recently used entry first; an
action per path of `get` (`MissAbsent`, `MissExpired`, `Hit`), of `set` and of
`invalidate`. `clock` is `time.time()`, and `ClockJump` steps it; `elapsed` and
the `deadline` of an entry are true time, `before` the order of last uses: these
three are history the code does not have. A deadline is reckoned from
`PromisedTtl`, what the docstring of `set` says of its argument, and an expiry
from `EffectiveTtl`, what the code makes of it. **TtlStore** is the promise to
callers: a map of values with due times. The mapping (`Stored`) turns the
sequence into that map and forgets the order. `steady` says that the clock has
kept step with true time so far, and as long as it has, an entry is also not
missed early unless the store has dropped it.

**Ingestion.** The rows of one dataset of one day are one item with a version
(0: no rows). `feed` is what BMRS answers today, `db` the tables, `archive` the
Parquet files, `df` the frame in hand. `Fetch`, `Save`, `Load` and `Finish` are
the steps of `run_ingestion`, each including the move to the next dataset or
batch; `Raise` is an exception inside the `try`, `Kill` the end of the process
at any point (`MaybeTorn`: a file being written stays torn). **FeedReplica** is
the promise about the database: it lags but never goes back, and a commit
touches one dataset and one window.

**FetchRetry.** One call of `fetch_with_retry`; the server's answer is chosen
freely at each request. Ingestion's `Fetch` stands for its return, `Raise` for
its exceptions.

**HorizonSelection.** The SQL as operators: `Eligible` and `InRange` are the
WHERE clause, `Ahead` the ORDER BY, `RowNumber` the window function,
`HorizonForecast` the query. The second query repeats that SQL, and the module
too: `ErrorCandidates`, `ErrorRowNumber` and `BestForecast` are its own copy,
`ForecastErrors` its join with the generation.
The actions load frames by INSERT OR REPLACE. Slots and publish times are
integers in one unit. **ForecastCoverage** adds everything BMRS has
published and the days ingested so far, each through its `PublishWindow`.

**Deployment.** Workers and the pipeline around the file. `Obtains`, `Keeps`
and `GetDb` are `get_db()`; `Hit`, `Miss` and the two steps of `/metrics` are
the handlers, `Refuse` their 400 for a reversed range; `CloseDb` and
`ClearCache` the shutdown, in its order; `OpenForWriting`, `CreateTable`, `BeginLoading` `init_database()`; `Commit` any
load that changes a table. LRU order and time are LRUCache's subject, here
`Forget` drops an entry at any time.

**ErrorMetrics.** A window is how many slots of each kind (hour, actual,
forecast) it holds, so that samples of hundreds of slots stay small states.
`Ascending` is the sorted sample as its order statistics, `SumOver` a sum over
the slots (a fold of the community modules), `IndexOfP99`, `TwiceMedian` and
`TenTimesPercentile` the index arithmetic, `InHour` the grouping by hour.
Quotients stay numerator and denominator, roots stay squares. `Store` and
`Replace` are the pipeline's loads into the window.

**Dashboard.** `controls` is what the inputs show, `loads` the calls of
`loadData` under way, `shown` the answer in each panel, as the parameters it
was asked with. `Change` is a new value of one control with the effect it
triggers; `EndLoad(i, got)` is all of `loadData` after `Promise.allSettled`:
any load may end, with an answer for any subset of the panels, and a refused
range with none. `newest`, `overtaken` and `alone` are history. **DashboardPage**
adds the chart and the theme: React flushes a render and its effects before it
handles anything else, so each step of the page is a step of the dashboard or
of the theme together with `Render`: `Mount`, `Unmount` or `Update` of the
chart. Only `import('echarts')` is answered in a step of its own (`Imported`,
`ImportFails`). `Toggle` writes state, storage and document in the code's
order, and storage may throw in between.

## 3. Runs

| Run | Question | Result |
|---|---|---|
| `lru_cache` | order, eviction, expiry and the TtlStore contract, clock steps forward | holds |
| `lru_cache_clock_back` | "Time-to-live in seconds" with the clock set back | violated |
| `ingestion` | losses reported, archive backs database, FeedReplica, runs end, re-runs catch up | holds |
| `horizon_selection` | the query against its definition; one answer per slot; monotone in the horizon; the metrics' copy of the query against the chart's; no hindsight | holds |
| `forecast_coverage` | which answers survive failed days, and which are missing after all days | holds |
| `forecast_coverage_high` | README's claim about high horizons | violated |
| `fetch_retry` | schedule, limit, termination | holds |
| `deployment` | answers current, incomplete database only after a crash, workers come to serve | holds |
| `deployment_contention` | "no write contention" | violated |
| `error_metrics` | p99 and median, P10 and P20, agreement of the figures, hourly breakdown | holds |
| `dashboard` | spinner, banner, panels, chart, theme, and that the page settles | holds |
| `dashboard_stale` | the legend's horizon is that of the forecast shown | violated |

The violated ones are the findings, each with the line that says otherwise:

1. Expiry uses the wall clock (`cache.py:64`, `91`): set back, it lets entries
   outlive their ttl.
2. The forecast window starts 48 h before *midnight* and selects by publish
   time, where README and docstring speak of target time: with a horizon of
   48 h, slots of 1 January can lack a forecast that BMRS did publish in time.
   `OnlyEarlyPublishesMissed` says that nothing else is ever missing once every
   day has succeeded.
3. A worker keeps its read-only connection for life, so a pipeline run beside a
   serving API fails to open the file. The same fact is what makes cached
   answers current (`AnswersAreCurrent`); changing one needs the other.
4. Loads of the dashboard overlap and nothing drops the answers of an older
   one. If it ends last, its forecast stays under the legend of the newer
   selection (`Dashboard.tsx:163`). `PanelsShowSelection` says what does hold:
   without such an overtaking the panels are right, whatever else overlapped, and
   so is the legend (`LegendUnlessOvertaken`).

Six smaller differences need no run: `ttl or default` (`cache.py:91`) takes a
ttl of 0 for none, where line 88 says that only None is (with 0 in `MCTtls`,
`ServedWithinTtl` and `ImplementsTtlStore` fail after a `set`, one `Tick` and a
`get`; no caller states 0, so the run leaves it out); the routers pass `ttl=600`
where README.md:253 says 300 s; exhausted retries raise `RuntimeError`
(`ingest.py:129`) where the docstring says `httpx.HTTPStatusError`; startup
connects but stores nothing, where `main.py:48` says "warm cache"; the banner
says that the API cannot be reached also when it answered 400 because the range
is reversed (`Dashboard.tsx:83`); and "90% of the time, generation exceeds" P10
(`forecast_processor.py:223`), and 80% P20, hold up to one slot, as the
percentile interpolates (`LevelsAreReliable`).

### Bounds

- *Cache*: capacity 2, 2×2 keys, 2 values, ttls None and 2 with default 1
  (0 is left out, see above).
  Three or more keys compete for two places, so each of hit, overwrite, expiry,
  eviction and prefix invalidation meets the others; `MaxClock` 3 lets a default
  and a longer entry expire, `MaxLookups` 2 gives a miss and a hit or two hits
  (`lru_cache_clock_back`: 2 and 3). Keys and values are only compared: the
  symmetry is sound. Long histories are covered by the proofs.
- *Ingestion*: two batches and a look-back of one day give a forecast day in
  both windows and days in one window only; two versions, two faults: enough for
  a failure in one run and a kill in the next. Feed items that may change late
  are `MCRevisable`; the others start in either of two versions.
- *Selection*: 2 slots, 3 publish times, 2 powers, frames of up to two rows;
  all 6561 pairs of tables are reached.
- *Window*: days of two units, look-back two days, so that 48 h is four; two
  slots and four publish times around the window's edges.
- *FetchRetry*: the shipped configuration, one whose cap is reached in five
  attempts, and one without attempts.
- *Deployment*: two workers as in `Dockerfile.backend`, two runs, one new
  version per table, a crash, one stop; the contention run has two versions and
  no crash, which the two-worker conflict does not need.
- *Metrics*: four kinds of slots in two hours, errors of both signs and none, a
  slot without a forecast; five loads of blocks of 1, 2 and 50, so the sample
  passes one hundred, where p99 stops being the maximum. Sizes in general are
  covered by the proofs.
- *Dashboard*: three ranges (with rows, without, refused) and two horizons, two
  changes, one reload, so up to three loads overlap; two toggles; one failed
  write to storage and one failed import. The proofs cover any number of each.

### Fairness

- `Ingestion!FairSpec`: weak fairness of a started run's steps, as each fetch
  ends (`FetchRetry!Ends`, and httpx's time-out) and loads are local; strong
  fairness of `Start(FALSE)`: somebody keeps starting runs that are not dry
  ones. The latter is an assumption on the operator: the repository has no
  scheduler.
- `FetchRetry!FairSpec`: every request ends, by `REQUEST_TIMEOUT_SECONDS`.
- `Deployment!FairSpec`: workers are restarted (`restart: unless-stopped`), a
  started pipeline and a started request go on, the pipeline is run, and users
  ask each endpoint again and again (strong, since a worker in the middle of
  `/metrics` takes no other request).
- `DashboardPage!FairSpec`: weak fairness of the end of loads, as `apiFetch`
  aborts a request after 15 s (`api.ts:27`) and `allSettled` needs no more, and
  of the answer to an import. Nothing is assumed of the user.

`CHECK_DEADLOCK FALSE` is used where the system really stops: FetchRetry, whose
call returns; the dashboard, when the bounded user has done everything; and
ErrorMetrics, when no more is loaded.

## 4. Proofs

All in TLAPS, from the named assumptions of each module (bounds are naturals,
`MaxSize` positive, None is not a value).

- **LRUCacheProofs.** `OrderInv`: types, capacity, and positions ordered by
  `before`. UseOrder alone is not inductive: `before` must stay inside pairs of
  different keys. `OnlyOldestEvicted` follows from it. `NeverServedLate` needs a
  second invariant, that the clock has gained at least the elapsed time since an
  entry was stored, and the assumptions `Jumps \subseteq Nat` and `0 \notin Ttls`;
  the run `lru_cache_clock_back` shows that the first is needed, the trace in
  section 3 the second. `CacheIsTtlStore` is the refinement, from the same two. `RefInv` adds `Punctual`: the clock is
  never behind true time and no entry expires before its deadline, so an entry
  found expired while both agree (`steady`) is really due. One lemma per
  operation shows that it maps to a step of TtlStore or a stutter.
- **IngestionProofs.** `IngestInv` adds to the types the shape of a run (`df`
  and `ds` by `pc`), that neither the database nor a frame is ahead of the feed,
  that a frame is at least as new as what it replaces, and `PassedIsLoaded`:
  a batch that is behind the current one is loaded or in `errors`. It gives
  `LossAlwaysReported`, and with it `IngestionIsReplica`, the refinement: initial
  states map to initial states, `Load` to `Commit`, `Revise` to `Publish`, all
  else stutters. `CleanRunCatchesUp` is the safety half of `CatchesUp`, and
  `RunsGetShorter` that of `RunsEnd`: `Work` counts the steps a run has left, and
  every step but a publication by BMRS lowers it. `ArchiveAlwaysBacks` adds the fact that a frame about to be
  loaded is in its file.
- **HorizonSelectionProofs.** The ranking lemmas (rank one is latest, a latest
  row exists in a finite keyed set) make the invariants facts about any keyed
  finite table, and `TypeOK` says that the tables are such. They are proved for
  each copy of the query: `BestIsLatest` says that the second also gives the
  latest eligible row of each slot, and `MetricsMatchChart` follows because the
  first does. For ForecastCoverage,
  `TableIsWindows`: the table is the union of the ingested windows. A right
  answer is given just when one of them holds it (`GivenIffIngested`), and the
  windows of all days leave no gap (`WindowsCover`); the two invariants follow.
- **DeploymentProofs.** `DepInv`: a connection excludes the writer (`Locked`),
  what a serving worker remembers is current and it is connected
  (`MemoryCurrent`), tables are complete past the DDL (`Complete`).
  `AnswersAreCurrent` alone is not inductive: a cached answer could go stale
  before it is sent. A step that changes the database finds no connection, hence
  no memory in a serving worker (`WritingDep`). `ErrorsAlwaysExplained`, the
  safety half of `EventuallyServes`, says that errors are met only without a
  database, beside a run or after a crash: by `Complete`, a worker that obtains a
  connection finds its tables.
- **RecursionLemmas.** The provers cannot instantiate an induction theorem that
  takes an operator, so both inductions are stated for sets and proved from a
  least counterexample: `NatSetInduction` from the well-foundedness of < on Nat,
  `FiniteSetInduction` from cardinalities. `Iteration` says that a function
  defined by recursion on naturals exists; the `Sum...` lemmas say what
  `SumFunctionOnSet` adds up to, whichever element its CHOOSE takes first
  (`AddsUnique`), over unions, parts and groups.
- **FetchRetryProofs.** `RetryInv`: the delay lies between base and cap, sleeps
  only grow, the failures counted are the attempts made, and these pass the limit just when
  the call ends in `RuntimeError`. It gives the types, `GivesUpOnlyWhenExhausted` (in
  both directions) and that sleeps never shrink nor leave their bounds
  (`SleepsGrowUpToCap`). `BackoffSchedule` is not inductive: it needs
  `ScheduleInv`, that the delay in hand is the schedule's next one, and
  `NextIsScheduled`, that capping after each multiplication is capping once.
  `CallsGetShorter` is the safety half of `Ends`.
- **DashboardProofs.** `DashInv` is about Dashboard alone, and every step of the
  page is one of the dashboard or a stutter (`PageIsDashboard`), so it is proved
  once. `PanelsShowSelection` is not inductive: it needs that the load started
  last is last in `loads` and is for the selected controls until it ends
  (`NewestIsLast`), and the banner that a load that started alone is the only
  one (`AloneIsOnly`). `ChartInv` has one lemma for `Render` (the chart's three
  cases) that all actions of the page use. `ChartWithoutImportIsDrawn` says without time
  what `SettlesDown` waits for; it needs `HasOrAsks`, that a chart on the page has
  ECharts or asks for it until an import fails.
- **ErrorMetricsProofs.** `TypeOK` is most of the work: the order statistics of
  any slots are a sorted sample that holds each value as often as there are slots
  with it (`SortedSample`, `Holds`), so `TypeCorrect` says that `Ascending` sorts.
  About any sorted sample, the value at the code's index has 99% at or below it
  and no more than 99% below it (`P99IsPercentile`), the median has half of it on either side
  (`MedianIsMedian`), and a percentile of level q is reached by all but q of it,
  up to one element (`LevelIsReached`). `FiguresAlwaysAgree` compares sums
  term by term, and MAE with RMSE by the inequality of Cauchy and Schwarz, by
  induction over the kinds; `HoursAlwaysAddUp` sums over a partition by hour.

Every safety property of the passing runs is a theorem. Model-checked only is
liveness (`RunsEnd`, `CatchesUp`, `Ends`, `EventuallyServes`, `SettlesDown`):
fairness and ENABLED are out of the prover's reach. Theorems named above give the
safety half of each.

## 5. Assumptions and what is not modelled

- DuckDB: one writing process or several reading ones; each statement is atomic
  and commits; NaN becomes NULL. BMRS publishes and revises but does not
  withdraw rows, and an answer holds at most one row per key.
- Python handlers are atomic: they are async functions without an await, so no
  two calls of the cache overlap. Threads would interleave the operations of
  CPython's dictionary; the class calls itself thread-safe, but nothing in the
  repository calls it from two threads.
- Cache keys do not collide (48 bits of MD5).
- One pipeline process at a time. A dry run takes no lock and may overlap a real
  run, whose archive it can then overwrite with an older frame.
- `BATCH_SIZE_DAYS` is 1, as configured; the loop ignores `batch_end`.
- Generation is in whole MW, and the rounding to two decimals and the constant
  factor of `capacity_factor` are left out. `int(n * 0.99)` is
  `(n * 99) \div 100`, which it is for the sizes a month has.
- React 18 applies the state changes of one callback in one render; a render and
  its effects are atomic; the page runs in production mode, where
  `reactStrictMode` does not run effects twice. ECharts, the DOM and
  localStorage do what they are told, or throw where the model says so.
- A range has rows or has none; that a horizon leaves the forecast empty while
  generation has rows shows the same chart with one line.

Not modelled:

- Response formatting, validation by field types, CORS, logging and the
  statistics endpoint: they change no state. `get_connection` and `drop_tables`
  of `pipeline/schema.py` have no callers.
- `models/schemas.py`, `lib/types.ts`: declarations. `MetricsPanel`,
  `DateRangeSelector`, `HorizonSlider`, `page.tsx`, `layout.tsx`: markup without
  state of their own. The notebook: an analysis nothing else uses. Dockerfiles
  and compose file: configuration, of which the number of workers and the
  restarts enter `Deployment`.
- `.deps/`: pandas, numpy, DuckDB's bindings, httpx and the rest, vendored. They
  make up over 99% of the Python lines in the tree; the repository's own code is
  some 1,700 lines, of which the modules cover nearly all that keeps or changes
  state. Third-party behaviour enters only as the code uses it.

## 6. Plan

The modules of sections 2 to 4 are complete. What could be added:

1. A second, dry, pipeline process beside a real one, for the archive.
2. Separate requests of one load, should the dashboard ever cancel or show them
   one by one.
3. The cache in its separate dictionary operations, should a handler ever run in
   a thread pool (`def` instead of `async def`).
