-------------------------- MODULE ForecastCoverage --------------------------
(***************************************************************************)
(* fetch_wind_forecast() composed with the horizon query: which answers    *)
(* the ingested table gets right, compared with everything BMRS has ever   *)
(* published.                                                              *)
(*                                                                         *)
(* The months ingested lie in the past, so what BMRS published is fixed:   *)
(* `published` is chosen once.  Each daily batch asks for a window of      *)
(* PUBLISH times, from LookBack days before its day to its end, and may    *)
(* fail and be retried by a later run.  Time 0 is the start of day 1.      *)
(***************************************************************************)
EXTENDS HorizonSelection

CONSTANTS
    NumDays,      \* days DATA_START_DATE..DATA_END_DATE
    DayLength,    \* units of time in a day
    LookBack      \* timedelta(days=2)

ASSUME CalendarAssumption ==
    NumDays \in Nat \ {0} /\ DayLength \in Nat \ {0} /\ LookBack \in Nat

VARIABLES
    published,    \* every WINDFOR row BMRS holds
    ingested      \* the days whose batch has succeeded in some run

allVars == <<forecasts, actuals, published, ingested>>

DaysOfData == 1..NumDays
DayStart(day) == (day - 1) * DayLength
DayEnd(day) == day * DayLength - 1

\* publishDateTimeFrom .. publishDateTimeTo.  Faulty: the day's own publishes.
PublishWindowOfDay(day) == DayStart(day)..DayEnd(day)
PublishWindow(day) == (DayStart(day) - LookBack * DayLength)..DayEnd(day)

WindowRows(day) == {r \in published : r.publish \in PublishWindow(day)}

CoverageInit ==
    /\ Init
    /\ published \in SUBSET ForecastRows
    /\ IsFiniteSet(published)
    /\ ForecastsKeyed(published)
    /\ ingested = {}

\* The batch of a day succeeds (again).
IngestDay(day) ==
    /\ LoadForecasts(WindowRows(day))
    /\ ingested' = ingested \cup {day}
    /\ UNCHANGED published

CoverageNext == \E day \in DaysOfData : IngestDay(day)

CoverageSpec == CoverageInit /\ [][CoverageNext]_allVars

-----------------------------------------------------------------------------
(* Properties *)

CoverageTypeOK ==
    /\ TypeOK
    /\ published \subseteq ForecastRows
    /\ IsFiniteSet(published)
    /\ ForecastsKeyed(published)
    /\ ingested \subseteq DaysOfData

\* One day's failure is made good by its neighbours: a right answer that lies in
\* the window of ANY ingested day is given, whichever other days have failed.
\* The days 2, 3 after a failed day fetch its publishes again (ingest.py:242).
OneWindowIsEnough ==
    \A from, to \in Slots, h \in Horizons :
        \A r \in HorizonForecast(published, from, to, h) :
            (\E day \in ingested : DayStart(day) - LookBack * DayLength <= r.publish
                                   /\ r.publish <= DayEnd(day))
                => r \in HorizonForecast(forecasts, from, to, h)

\* Once every day has been ingested, in whatever order and after whatever
\* failures, the right answers still missing are exactly those published before
\* the first day's window: no day's window leaves a gap to the next one's, and a
\* horizon beyond the look-back costs nothing but them (ingest.py:242-244).
OnlyEarlyPublishesMissed ==
    ingested = DaysOfData =>
        \A from, to \in Slots, h \in Horizons :
            to <= DayEnd(NumDays) =>
                \A r \in HorizonForecast(published, from, to, h) :
                    r \in HorizonForecast(forecasts, from, to, h)
                        <=> r.publish >= DayStart(1) - LookBack * DayLength

\* "WINDFOR is fetched by target start time (not publish time) to ensure
\* forecasts published in late December but targeting early January are ingested
\* for high-horizon queries" (README.md:228, ingest.py:230-233): once every day
\* has been ingested, every slot of the period has its right answer.  Even a
\* feed whose every publication forecasts every slot ahead of it is missed.
Regular ==
    \A s \in Slots, p \in PublishTimes :
        p <= s => \E r \in published : r.slot = s /\ r.publish = p
HighHorizonsCovered ==
    Regular /\ ingested = DaysOfData =>
        \A h \in Horizons :
            HorizonForecast(forecasts, 0, DayEnd(NumDays), h)
                = HorizonForecast(published, 0, DayEnd(NumDays), h)
=============================================================================
