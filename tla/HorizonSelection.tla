-------------------------- MODULE HorizonSelection --------------------------
(***************************************************************************)
(* backend/services/forecast_processor.py over the two DuckDB tables: for  *)
(* every target slot, the latest forecast published at least the horizon   *)
(* before it, and its join with the actuals.  The tables change under the  *)
(* queries as the pipeline loads frames (INSERT OR REPLACE on the primary  *)
(* keys of pipeline/schema.py).                                            *)
(*                                                                         *)
(* Times are integers (half hours, say); a horizon is a number of them.    *)
(* The queries change nothing: they are operators, and the properties say  *)
(* what every query answers in every reachable pair of tables.             *)
(***************************************************************************)
EXTENDS Integers, FiniteSets

CONSTANTS
    Slots,        \* the target times (start_time)
    PublishTimes, \* the times at which BMRS publishes forecasts
    Powers,       \* generation_mw values
    Horizons,     \* the horizons a client may ask for: 0..48 hours
    MaxFrame      \* bound: rows in one loaded frame

ASSUME TimeAssumption == Slots \subseteq Int /\ PublishTimes \subseteq Int
ASSUME PowerAssumption == Powers \subseteq Int
ASSUME HorizonAssumption == Horizons \subseteq Nat
ASSUME FrameAssumption == MaxFrame \in Nat

VARIABLES
    forecasts,    \* the rows of wind_forecast
    actuals       \* the rows of actual_generation

vars == <<forecasts, actuals>>

ForecastRows == [slot : Slots, publish : PublishTimes, mw : Powers]
ActualRows == [slot : Slots, mw : Powers]

SameForecastKey(r, q) == r.slot = q.slot /\ r.publish = q.publish
SameActualKey(r, q) == r.slot = q.slot

\* A primary key: no two rows of the table agree on it.
ForecastsKeyed(rows) == \A r, q \in rows : SameForecastKey(r, q) => r = q
ActualsKeyed(rows) == \A r, q \in rows : SameActualKey(r, q) => r = q

\* INSERT OR REPLACE.  Faulty: INSERT, which keeps the old row as well.
ForecastsInserted(frame) == forecasts \cup frame
ForecastsUpserted(frame) ==
    {r \in forecasts : \A q \in frame : ~SameForecastKey(r, q)} \cup frame
ActualsUpserted(frame) ==
    {r \in actuals : \A q \in frame : ~SameActualKey(r, q)} \cup frame

-----------------------------------------------------------------------------
(* The queries *)

\* WHERE start_time >= $1 AND start_time <= $2
InRange(slot, from, to) == from <= slot /\ slot <= to

\* WHERE publish_time <= start_time - horizon.
\* Faulty: the horizon is forgotten; the comparison is turned round.
PublishedBeforeTarget(r, h) == r.publish <= r.slot
PublishedLate(r, h) == r.publish >= r.slot - h
Eligible(r, h) == r.publish <= r.slot - h

Candidates(rows, from, to, h) == {r \in rows : InRange(r.slot, from, to) /\ Eligible(r, h)}

\* ORDER BY publish_time DESC, generation_mw DESC.
\* Faulty: the strongest forecast first; the earliest first.
AheadByPower(q, r) == q.mw > r.mw \/ (q.mw = r.mw /\ q.publish > r.publish)
AheadEarliest(q, r) == q.publish < r.publish \/ (q.publish = r.publish /\ q.mw > r.mw)
Ahead(q, r) == q.publish > r.publish \/ (q.publish = r.publish /\ q.mw > r.mw)

\* ROW_NUMBER() OVER (PARTITION BY start_time ORDER BY ...).
\* Faulty: no partition.
RowNumberOverall(rows, r) == Cardinality({q \in rows : Ahead(q, r)}) + 1
RowNumber(rows, r) == Cardinality({q \in rows : q.slot = r.slot /\ Ahead(q, r)}) + 1

\* get_horizon_forecast()
HorizonForecast(rows, from, to, h) ==
    LET ranked == Candidates(rows, from, to, h) IN {r \in ranked : RowNumber(ranked, r) = 1}

(* get_forecast_errors(): one query that repeats the selection in SQL of its *)
(* own and joins it; nothing but the tables is shared with the query above.  *)

\* WHERE start_time >= $1 AND start_time <= $2 AND publish_time <= start_time - $3.
\* Faulty: published strictly earlier, in this copy only.
ErrorCandidatesStrict(rows, from, to, h) ==
    {r \in rows : from <= r.slot /\ r.slot <= to /\ r.publish < r.slot - h}
ErrorCandidates(rows, from, to, h) ==
    {r \in rows : from <= r.slot /\ r.slot <= to /\ r.publish <= r.slot - h}

\* ROW_NUMBER() OVER (PARTITION BY start_time
\*                    ORDER BY publish_time DESC, generation_mw DESC).
ErrorRowNumber(rows, r) ==
    LET ahead == {q \in rows : /\ q.slot = r.slot
                               /\ \/ q.publish > r.publish
                                  \/ q.publish = r.publish /\ q.mw > r.mw}
    IN Cardinality(ahead) + 1

BestForecast(rows, from, to, h) ==
    LET ranked == ErrorCandidates(rows, from, to, h)
    IN {r \in ranked : ErrorRowNumber(ranked, r) = 1}

\* INNER JOIN best_forecast ON start_time, with a range of its own on the
\* actuals, and error_mw's two operands.
Joined(arows, frows, from, to) ==
    {[slot |-> p[1].slot, actual |-> p[1].mw, forecast |-> p[2].mw] :
        p \in {q \in arows \X frows :
                  /\ from <= q[1].slot /\ q[1].slot <= to
                  /\ q[1].slot = q[2].slot}}

ForecastErrors(frows, arows, from, to, h) ==
    Joined(arows, BestForecast(frows, from, to, h), from, to)

-----------------------------------------------------------------------------

Init ==
    /\ forecasts = {}
    /\ actuals = {}

LoadForecasts(frame) ==
    /\ forecasts' = ForecastsUpserted(frame)
    /\ UNCHANGED actuals

LoadActuals(frame) ==
    /\ actuals' = ActualsUpserted(frame)
    /\ UNCHANGED forecasts

Frames(rows) == {frame \in SUBSET rows : IsFiniteSet(frame) /\ Cardinality(frame) <= MaxFrame}

Next ==
    \/ \E frame \in Frames(ForecastRows) : ForecastsKeyed(frame) /\ LoadForecasts(frame)
    \/ \E frame \in Frames(ActualRows) : ActualsKeyed(frame) /\ LoadActuals(frame)

Spec == Init /\ [][Next]_vars

-----------------------------------------------------------------------------
(* Properties *)

TypeOK ==
    /\ forecasts \subseteq ForecastRows
    /\ IsFiniteSet(forecasts)
    /\ ForecastsKeyed(forecasts)
    /\ actuals \subseteq ActualRows
    /\ IsFiniteSet(actuals)
    /\ ActualsKeyed(actuals)

\* What the module docstring promises (forecast_processor.py:7-12), without
\* ranks: the rows with no later row at or before the cutoff of their slot.
LatestEligible(rows, from, to, h) ==
    {r \in rows :
        /\ from <= r.slot /\ r.slot <= to
        /\ r.publish + h <= r.slot
        /\ \A q \in rows : q.slot = r.slot /\ q.publish + h <= q.slot => q.publish <= r.publish}

\* Every answer is exactly the latest forecasts published at least the horizon
\* before their targets: nothing published after the cutoff leaks in
\* (look-ahead), and nothing older is served when a later one qualifies.
SelectsLatestEligible ==
    \A from, to \in Slots, h \in Horizons :
        HorizonForecast(forecasts, from, to, h) = LatestEligible(forecasts, from, to, h)

\* Each slot that has an eligible forecast is answered, and once.
AnswersEachSlotOnce ==
    \A from, to \in Slots, h \in Horizons :
        LET answer == HorizonForecast(forecasts, from, to, h) IN
        /\ \A r, q \in answer : r.slot = q.slot => r = q
        /\ \A r \in Candidates(forecasts, from, to, h) : \E q \in answer : q.slot = r.slot

\* A longer horizon never finds a slot a shorter one misses, and never finds a
\* later forecast for it: dragging the slider up can only age the forecast.
LongerHorizonIsOlder ==
    \A from, to \in Slots, h1, h2 \in Horizons :
        h1 <= h2 =>
            \A r \in HorizonForecast(forecasts, from, to, h2) :
                \E q \in HorizonForecast(forecasts, from, to, h1) :
                    q.slot = r.slot /\ q.publish >= r.publish

\* The two copies of the selection agree (forecast_processor.py:51-66, 107-125):
\* the metrics pair each actual with the forecast the chart shows for it, miss
\* none that both have, and use none that the chart does not show.
MetricsMatchChart ==
    \A from, to \in Slots, h \in Horizons :
        LET shown == HorizonForecast(forecasts, from, to, h)
            pairs == ForecastErrors(forecasts, actuals, from, to, h)
        IN \A s \in Slots, x, y \in Powers :
            [slot |-> s, actual |-> x, forecast |-> y] \in pairs
                <=> /\ [slot |-> s, mw |-> x] \in actuals
                    /\ \E r \in shown : r.slot = s /\ r.mw = y

\* A back-test is not rewritten by hindsight: loading rows published after a
\* slot's cutoff leaves every answer at that horizon as it was.
HindsightChangesNothing ==
    [][\A from, to \in Slots, h \in Horizons :
        (\A r \in (forecasts' \ forecasts) \cup (forecasts \ forecasts') : ~(r.publish + h <= r.slot)) =>
            HorizonForecast(forecasts', from, to, h) = HorizonForecast(forecasts, from, to, h)]_vars
=============================================================================
