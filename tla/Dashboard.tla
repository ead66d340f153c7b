------------------------------ MODULE Dashboard ------------------------------
(***************************************************************************)
(* frontend/src/components/Dashboard.tsx with frontend/src/lib/api.ts: the *)
(* controls of the page, the loads they start and what the page shows.     *)
(*                                                                         *)
(* Every change of a control re-creates loadData, whose effect starts a    *)
(* load: three requests, one per panel.  Nothing cancels a load, so loads  *)
(* overlap, and each one ends by itself, when the last of its requests is  *)
(* answered, fails or is aborted after 15 s (Promise.allSettled).  What    *)
(* the requests do before that is not seen by anyone, so a load is the     *)
(* controls it was started for, and its end is one step: React 18 applies  *)
(* all its state changes in one render.                                    *)
(*                                                                         *)
(* An answer is abstracted to the parameters it was asked with.            *)
(***************************************************************************)
EXTENDS Integers, SequencesExt

CONSTANTS
    Ranges,       \* the pairs of start and end the user may select
    Horizons,     \* the positions of the horizon slider
    Refused,      \* ranges the API refuses: empty, reversed or unreadable
    Initial,      \* the controls a freshly loaded page has
    NoData,       \* null: nothing loaded yet
    MaxChanges,   \* bound: loads started by a change of the controls
    MaxReloads    \* bound: reloads of the page

Controls == [range : Ranges, horizon : Horizons]

ASSUME ControlsAssumption == Refused \subseteq Ranges /\ Initial \in Controls
ASSUME DashboardBounds == MaxChanges \in Nat /\ MaxReloads \in Nat

VARIABLES
    controls,     \* startDateTime, endDateTime, horizonHours
    loads,        \* the loads under way, in the order they were started
    shown,        \* generation, forecast, metrics
    isLoading,
    error,        \* is there an error banner
    newest,       \* history: has the load started last ended, and what it got
    overtaken,    \* history: an older load has ended after it
    alone,        \* history: no other load was under way when it was started
    changes, reloads   \* bound counters

dashVars == <<controls, loads, shown, isLoading, error, newest, overtaken, alone,
              changes, reloads>>

Panels == {"generation", "forecast", "metrics"}

\* The parameters of a panel's request.
Answer(p, c) ==
    IF p = "generation" THEN [range |-> c.range] ELSE [range |-> c.range, horizon |-> c.horizon]
Pictures == {NoData} \cup {Answer(p, c) : p \in Panels, c \in Controls}

Unended == [ended |-> FALSE, got |-> {}]

\* The loads after a change to c.  Faulty: two effects; an effect that still
\* runs the loadData of the last render.
LoadsTwice(c) == loads \o <<c, c>>
LoadsOfLastRender(c) == Append(loads, controls)
Loads(c) == Append(loads, c)

Shown(c, got) == [p \in Panels |-> IF p \in got THEN Answer(p, c) ELSE shown[p]]

\* Faulty: isLoading is cleared in the try block, after a success only.
LoadingAfterFailure(got) == isLoading /\ got = {}
LoadingAfter(got) == FALSE

\* "Only show error if ALL requests failed".  Faulty: if any did.
FailedAny(got) == got # Panels
Failed(got) == got = {}

FreshPage ==
    /\ controls' = Initial
    /\ loads' = <<Initial>>
    /\ shown' = [p \in Panels |-> NoData]
    /\ isLoading' = TRUE
    /\ error' = FALSE
    /\ newest' = Unended
    /\ overtaken' = FALSE
    /\ alone' = TRUE

\* The page after its first effects.
DashInit ==
    /\ controls = Initial
    /\ loads = <<Initial>>
    /\ shown = [p \in Panels |-> NoData]
    /\ isLoading = TRUE
    /\ error = FALSE
    /\ newest = Unended
    /\ overtaken = FALSE
    /\ alone = TRUE
    /\ changes = 0 /\ reloads = 0

\* One control gets another value: a render, and its effect starts a load.
Change(c) ==
    /\ c # controls
    /\ c.range = controls.range \/ c.horizon = controls.horizon
    /\ changes < MaxChanges
    /\ changes' = changes + 1
    /\ controls' = c
    /\ loads' = Loads(c)
    /\ isLoading' = TRUE
    /\ error' = FALSE
    /\ newest' = Unended
    /\ overtaken' = FALSE
    /\ alone' = (loads = << >>)
    /\ UNCHANGED <<shown, reloads>>

\* Load i ends with an answer for each panel in got, for no other.
EndLoad(i, got) ==
    /\ loads[i].range \in Refused => got = {}
    /\ loads' = RemoveAt(loads, i)
    /\ shown' = Shown(loads[i], got)
    /\ error' = (error \/ Failed(got))
    /\ isLoading' = LoadingAfter(got)
    /\ IF i = Len(loads) /\ ~newest.ended
       THEN newest' = [ended |-> TRUE, got |-> got] /\ UNCHANGED overtaken
       ELSE UNCHANGED newest /\ overtaken' = newest.ended
    /\ UNCHANGED <<controls, alone, changes, reloads>>

\* The user reloads the page: its state and its requests are gone.
Reload ==
    /\ reloads < MaxReloads
    /\ reloads' = reloads + 1
    /\ FreshPage
    /\ UNCHANGED changes

SomeLoadEnds == \E i \in DOMAIN loads, got \in SUBSET Panels : EndLoad(i, got)

DashNext ==
    \/ \E c \in Controls : Change(c)
    \/ SomeLoadEnds
    \/ Reload

DashSpec == DashInit /\ [][DashNext]_dashVars

-----------------------------------------------------------------------------
(* Properties *)

\* Types, and at most one load per selection (Dashboard.tsx:95-97).
DashTypeOK ==
    /\ controls \in Controls
    /\ loads \in Seq(Controls) /\ Len(loads) <= 1 + changes
    /\ shown \in [Panels -> Pictures]
    /\ isLoading \in BOOLEAN /\ error \in BOOLEAN
    /\ overtaken \in BOOLEAN /\ alone \in BOOLEAN
    /\ newest \in [ended : BOOLEAN, got : SUBSET Panels]
    /\ changes \in 0..MaxChanges /\ reloads \in 0..MaxReloads

\* The spinner replaces chart and metrics only while some load is under way,
\* in whatever order overlapping loads end or fail (Dashboard.tsx:50, 90-92).
SpinnerHasLoad == isLoading => loads # << >>

\* Once the load for the selected controls has ended, and no older one after
\* it, every panel it got an answer for shows the answer for those controls,
\* whatever other loads overlapped it (Dashboard.tsx:50-73, 95-97).
PanelsShowSelection ==
    newest.ended /\ ~overtaken =>
        \A p \in newest.got : shown[p] = Answer(p, controls)

\* When the load for the selected controls got nothing the banner is up, and a
\* banner is up for no other reason unless loads overlapped
\* (Dashboard.tsx:44, 75-85).
BannerTellsFailure ==
    /\ newest.ended /\ newest.got = {} => error
    /\ alone /\ error => newest.ended /\ newest.got = {}

\* The chart's legend says "Forecast ({horizonHours}h horizon)"
\* (Dashboard.tsx:163): when all loads are over and the one for the selected
\* controls got its forecast, that is the forecast shown.
LegendTellsForecast ==
    loads = << >> /\ "forecast" \in newest.got =>
        shown["forecast"] = Answer("forecast", controls)
=============================================================================
