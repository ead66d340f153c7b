----------------------------- MODULE Ingestion -----------------------------
(***************************************************************************)
(* pipeline/ingest.py: run_ingestion(), one process working through daily  *)
(* batches, and for each batch through two datasets: fetch, archive as     *)
(* Parquet, load into DuckDB.  Runs may fail anywhere, be killed anywhere, *)
(* and be started again; meanwhile BMRS publishes and revises.             *)
(*                                                                         *)
(* The rows of one dataset that belong to one day are one versioned item:  *)
(* the settlement day of an actual, the PUBLISH day of a forecast.         *)
(* Version 0 is "no rows".  A frame (a pandas DataFrame) gives each day a  *)
(* version.  Retries and back-off inside a fetch are FetchRetry's; here a  *)
(* fetch answers once or raises once.                                      *)
(***************************************************************************)
EXTENDS Integers

CONSTANTS
    NumDays,      \* DATA_START_DATE..DATA_END_DATE: days 1..NumDays, a batch each
    LookBack,     \* days fetch_wind_forecast reaches back: timedelta(days=2)
    MaxVersion,   \* bound: revisions of a day's rows in the feed
    Revisable,    \* bound: the <<dataset, day>>s the feed publishes or revises late
    MaxFaults     \* bound: exceptions and kills, over all runs

ASSUME RangeAssumption == NumDays \in Nat \ {0} /\ LookBack \in Nat
ASSUME BoundAssumption ==
    /\ MaxVersion \in Nat
    /\ MaxFaults \in Nat
    /\ Revisable \subseteq {"actual", "forecast"} \X ((1 - LookBack)..NumDays)

VARIABLES
    feed,         \* feed[s][d]: version BMRS answers with today
    db,           \* db[s][d]: version in DuckDB
    archive,      \* archive[s][b]: the Parquet file <s>_<b>.parquet
    pc,           \* where run_ingestion stands
    batch,        \* batch_start
    ds,           \* the dataset of the batch in hand
    dry,          \* dry_run
    df,           \* actual_df or forecast_df
    errors,       \* the batches in the `errors` list
    exit,         \* how the last run ended
    faults,       \* bound counter
    feedAtStart   \* history: the feed when the last run started

vars == <<feed, db, archive, pc, batch, ds, dry, df, errors, exit, faults, feedAtStart>>
disk == <<db, archive>>
outside == <<feed, feedAtStart, dry>>

Datasets == {"actual", "forecast"}
Batches == 1..NumDays
Days == (1 - LookBack)..NumDays
Frames == [Days -> Nat]
NoRows == [d \in Days |-> 0]
Files == [state : {"absent", "torn", "whole"}, rows : Frames]
Absent == [state |-> "absent", rows |-> NoRows]
Torn == [state |-> "torn", rows |-> NoRows]

\* The days batch b asks the feed for.
\* Faulty: forecasts by publish day, as the actuals are by settlement day.
WindowSameDay(s, b) == {b}
Window(s, b) == IF s = "actual" THEN {b} ELSE (b - LookBack)..b

Response(s, b) == [d \in Days |-> IF d \in Window(s, b) THEN feed[s][d] ELSE 0]

\* INSERT OR REPLACE: the frame's rows win, the other rows stay.
\* Faulty: the table is rebuilt from the frame.
Replaced(rows, frame) == frame
Upserted(rows, frame) == [d \in Days |-> IF frame[d] > 0 THEN frame[d] ELSE rows[d]]

\* The next batch, or the summary after the last one.
\* Faulty: one batch too many; the batch is not advanced.
EndBatchLate ==
    /\ ds' = "actual"
    /\ df' = NoRows
    /\ IF batch <= NumDays
       THEN batch' = batch + 1 /\ pc' = "fetch"
       ELSE batch' = batch /\ pc' = "finish"
EndBatchStuck ==
    /\ ds' = "actual"
    /\ df' = NoRows
    /\ pc' = IF batch < NumDays THEN "fetch" ELSE "finish"
    /\ UNCHANGED batch
EndBatch ==
    /\ ds' = "actual"
    /\ df' = NoRows
    /\ IF batch < NumDays
       THEN batch' = batch + 1 /\ pc' = "fetch"
       ELSE batch' = batch /\ pc' = "finish"

\* The forecast after the actual, else the next batch.
EndDataset ==
    IF ds = "actual"
    THEN /\ ds' = "forecast"
         /\ df' = NoRows
         /\ pc' = "fetch"
         /\ UNCHANGED batch
    ELSE EndBatch

Init ==
    /\ feed \in [Datasets -> [Days -> {0, 1}]]
    /\ db = [s \in Datasets |-> NoRows]
    /\ archive = [s \in Datasets |-> [b \in Batches |-> Absent]]
    /\ pc = "idle"
    /\ batch = 1
    /\ ds = "actual"
    /\ dry = FALSE
    /\ df = NoRows
    /\ errors = {}
    /\ exit = "none"
    /\ faults = 0
    /\ feedAtStart = feed

\* Started by hand or by a scheduler: python -m pipeline.ingest [--dry-run].
Start(asDry) ==
    /\ pc = "idle"
    /\ pc' = "fetch"
    /\ batch' = 1
    /\ ds' = "actual"
    /\ dry' = asDry
    /\ df' = NoRows
    /\ errors' = {}
    /\ exit' = "running"
    /\ feedAtStart' = feed
    /\ UNCHANGED <<feed, disk, faults>>

Fetch ==
    /\ pc = "fetch"
    /\ IF Response(ds, batch) = NoRows
       THEN EndDataset
       ELSE /\ df' = Response(ds, batch)
            /\ pc' = "save"
            /\ UNCHANGED <<batch, ds>>
    /\ UNCHANGED <<outside, disk, errors, exit, faults>>

\* The archived file.  Faulty: an existing file is kept.
WrittenOnce ==
    IF archive[ds][batch].state = "whole"
    THEN archive[ds][batch]
    ELSE [state |-> "whole", rows |-> df]
Written == [state |-> "whole", rows |-> df]

Save ==
    /\ pc = "save"
    /\ archive' = [archive EXCEPT ![ds][batch] = Written]
    /\ IF dry
       THEN EndDataset
       ELSE pc' = "load" /\ UNCHANGED <<batch, ds, df>>
    /\ UNCHANGED <<outside, db, errors, exit, faults>>

Load ==
    /\ pc = "load"
    /\ db' = [db EXCEPT ![ds] = Upserted(db[ds], df)]
    /\ EndDataset
    /\ UNCHANGED <<outside, archive, errors, exit, faults>>

\* A write of the batch's file may have begun: to_parquet truncates first.
MaybeTorn ==
    \/ UNCHANGED archive
    \/ pc = "save" /\ archive' = [archive EXCEPT ![ds][batch] = Torn]

\* The handler of line 400.  Faulty: the failure is not recorded.
SkippedBatch == UNCHANGED errors /\ EndBatch
FailedBatch == errors' = errors \cup {batch} /\ EndBatch

\* Any exception inside the try of lines 385-398.
Raise ==
    /\ pc \in {"fetch", "save", "load"}
    /\ faults < MaxFaults
    /\ faults' = faults + 1
    /\ FailedBatch
    /\ MaybeTorn
    /\ UNCHANGED <<outside, db, exit>>

\* The process is killed, or init_database() raises before the try is entered.
Kill ==
    /\ pc # "idle"
    /\ faults < MaxFaults
    /\ faults' = faults + 1
    /\ pc' = "idle"
    /\ batch' = 1
    /\ ds' = "actual"
    /\ df' = NoRows
    /\ errors' = {}
    /\ exit' = "killed"
    /\ MaybeTorn
    /\ UNCHANGED <<outside, db>>

\* conn.close(), and main()'s exit status.
Finish ==
    /\ pc = "finish"
    /\ pc' = "idle"
    /\ exit' = IF errors = {} THEN "clean" ELSE "errors"
    /\ UNCHANGED <<outside, disk, batch, ds, df, errors, faults>>

\* BMRS publishes the first, or a newer, version of a day's rows.
Revise(s, d) ==
    /\ feed[s][d] < MaxVersion
    /\ feed' = [feed EXCEPT ![s][d] = @ + 1]
    /\ UNCHANGED <<disk, pc, batch, ds, dry, df, errors, exit, faults, feedAtStart>>

Step == Fetch \/ Save \/ Load \/ Finish

Next ==
    \/ \E asDry \in BOOLEAN : Start(asDry)
    \/ Step
    \/ Raise
    \/ Kill
    \/ \E p \in Revisable : Revise(p[1], p[2])

Spec == Init /\ [][Next]_vars

\* A started run keeps going (a fetch ends: FetchRetry), and somebody keeps
\* starting runs that are not dry ones.
FairSpec == Spec /\ WF_vars(Step) /\ SF_vars(Start(FALSE))

-----------------------------------------------------------------------------
(* Properties *)

TypeOK ==
    /\ feed \in [Datasets -> Frames]
    /\ db \in [Datasets -> Frames]
    /\ archive \in [Datasets -> [Batches -> Files]]
    /\ pc \in {"idle", "fetch", "save", "load", "finish"}
    /\ batch \in Batches
    /\ ds \in Datasets
    /\ dry \in BOOLEAN
    /\ df \in Frames
    /\ errors \subseteq Batches
    /\ exit \in {"none", "running", "clean", "errors", "killed"}
    /\ faults \in 0..MaxFaults
    /\ feedAtStart \in [Datasets -> Frames]

\* A run that reached its end lost a day only if EVERY batch whose window
\* covers that day is in its error list: no failure of one batch, and no order
\* of failures, silently costs another batch's data, and a clean exit means the
\* database is at least as new as the feed was when the run started
\* (ingest.py:384-405, main() 445-447).
LossIsReported ==
    exit \in {"clean", "errors"} /\ ~dry =>
        \A s \in Datasets, d \in Days :
            db[s][d] < feedAtStart[s][d] =>
                \A b \in Batches : d \in Window(s, b) => b \in errors

\* Every version in the database can be reprocessed from the archive
\* (save_parquet before load, ingest.py:389-398) or from a newer file, unless
\* a later write of the file was cut short.
ArchiveBacksDatabase ==
    \A s \in Datasets, d \in Days :
        db[s][d] > 0 =>
            \E b \in Batches :
                /\ d \in Window(s, b)
                /\ archive[s][b].state = "torn" \/ archive[s][b].rows[d] >= db[s][d]

Replica == INSTANCE FeedReplica

\* The database is a lagging copy of the feed that never goes back, whatever
\* mix of failures, kills, dry runs and re-runs ("idempotent", ingest.py:10).
ImplementsFeedReplica == Replica!Spec

\* Every run ends.
RunsEnd == pc # "idle" ~> pc = "idle"

\* Once failures and revisions stop, re-runs bring the database up to the feed
\* for every settlement day in range and every publish day from LookBack days
\* before it, and keep it there.
CatchesUp ==
    <>[](/\ \A d \in Batches : db["actual"][d] = feed["actual"][d]
         /\ \A d \in Days : db["forecast"][d] = feed["forecast"][d])
=============================================================================
