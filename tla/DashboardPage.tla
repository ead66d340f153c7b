---------------------------- MODULE DashboardPage ----------------------------
(***************************************************************************)
(* The page around the dashboard: the chart of                             *)
(* frontend/src/components/TimeSeriesChart.tsx, which lives as long as the *)
(* dashboard renders it, and the theme of ThemeProvider.tsx.               *)
(*                                                                         *)
(* A render and the effects it causes belong to the step that changed the  *)
(* state (React flushes them before it handles anything else), so every    *)
(* step of the page is a step of the dashboard or of the theme together    *)
(* with what it does to the chart.  Only the dynamic import of ECharts is  *)
(* answered later.  ECharts, the DOM and localStorage are external.        *)
(***************************************************************************)
EXTENDS Dashboard

CONSTANTS
    Blank,        \* ranges for which the database holds no rows
    Themes,       \* "light" and "dark"
    NoTheme,      \* nothing in localStorage
    NoDrawing,    \* a canvas nothing has been drawn on
    MaxToggles,   \* bound: clicks on the theme toggle
    MaxFaults     \* bound: localStorage writes that throw, imports that fail

Drawings == [data : Pictures \X Pictures, colours : Themes]

ASSUME PageAssumption ==
    /\ Blank \subseteq Ranges
    /\ NoTheme \notin Themes
    /\ NoDrawing \notin Drawings
    /\ MaxToggles \in Nat /\ MaxFaults \in Nat

VARIABLES
    lib,          \* echartsLib of the mounted chart is set
    importing,    \* its import('echarts') is not answered yet
    drawing,      \* what its ECharts instance was last told to draw
    instances,    \* ECharts instances initialised and not disposed of
    listeners,    \* resize listeners on the window
    theme,        \* ThemeProvider's state
    attribute,    \* the document's data-theme, from which CSS takes all colours
    saved,        \* localStorage["windsight-theme"]
    toggles, storageFaults, importFaults   \* bound counters

chartVars == <<lib, importing, drawing, instances, listeners>>
themeVars == <<theme, attribute, saved, toggles, storageFaults>>
vars == <<dashVars, chartVars, themeVars, importFaults>>

-----------------------------------------------------------------------------
(* The chart *)

HasRows(p) == shown[p] # NoData /\ shown[p].range \notin Blank

\* Neither the spinner nor "No data for this window".
Mounted == ~isLoading /\ (HasRows("generation") \/ HasRows("forecast"))

\* chartData.
Plotted == <<shown["generation"], shown["forecast"]>>

\* Do the dependencies of the drawing effect change?
\* Faulty: the theme is not among them.
RedrawsForData == Plotted' # Plotted
Redraws == Plotted' # Plotted \/ theme' # theme

\* Is there an ECharts instance that the effect has drawn on?
Drawn == drawing # NoDrawing

\* The drawing effect: the instance is made the first time only, the resize
\* listener is replaced.  Faulty: the effect returns no clean-up.
ListenersKept == listeners
ListenersRemoved == IF Drawn THEN listeners - 1 ELSE listeners

Draw ==
    /\ drawing' = [data |-> Plotted', colours |-> attribute']
    /\ instances' = IF Drawn THEN instances ELSE instances + 1
    /\ listeners' = ListenersRemoved + 1

\* chartInstance.current?.dispose().
InstancesDisposed == IF Drawn THEN instances - 1 ELSE instances

\* Faulty: ECharts is asked for only when the page is opened.
ImportsOnce == changes = 0
ImportsAlways == TRUE

Mount ==
    /\ ~Mounted /\ Mounted'
    /\ lib' = FALSE
    /\ importing' = ImportsAlways
    /\ drawing' = NoDrawing
    /\ UNCHANGED <<instances, listeners>>

\* An import under way is forgotten: its answer sets the state of nothing.
Unmount ==
    /\ Mounted /\ ~Mounted'
    /\ lib' = FALSE /\ importing' = FALSE /\ drawing' = NoDrawing
    /\ listeners' = ListenersRemoved
    /\ instances' = InstancesDisposed

Update ==
    /\ Mounted /\ Mounted'
    /\ IF lib /\ Redraws THEN Draw ELSE UNCHANGED <<drawing, instances, listeners>>
    /\ UNCHANGED <<lib, importing>>

Render ==
    \/ Mount
    \/ Unmount
    \/ Update
    \/ ~Mounted /\ ~Mounted' /\ UNCHANGED chartVars

\* import('echarts') is answered: the drawing effect runs.
Imported ==
    /\ importing
    /\ importing' = FALSE
    /\ lib' = TRUE
    /\ UNCHANGED <<dashVars, themeVars, importFaults>>
    /\ Draw

\* The chunk cannot be loaded; nothing catches that.
ImportFails ==
    /\ importing
    /\ importFaults < MaxFaults
    /\ importFaults' = importFaults + 1
    /\ importing' = FALSE
    /\ UNCHANGED <<dashVars, themeVars, lib, drawing, instances, listeners>>

-----------------------------------------------------------------------------
(* The theme *)

\* getPreferredTheme(): the saved theme, or whatever the system prefers.
Preferred(t) == saved = NoTheme \/ saved = t

\* setTheme(t) with t the other theme: the state, then localStorage, then the
\* document.  Faulty: the document only follows on the next load of the page.
AppliedLater(t) == attribute
Applied(t) == t

Toggle(t) ==
    /\ t # theme
    /\ toggles < MaxToggles
    /\ toggles' = toggles + 1
    /\ theme' = t
    /\ \/ saved' = t /\ attribute' = Applied(t) /\ UNCHANGED storageFaults
       \/ /\ storageFaults < MaxFaults     \* setItem throws
          /\ storageFaults' = storageFaults + 1
          /\ UNCHANGED <<saved, attribute>>
    /\ UNCHANGED <<dashVars, importFaults>>
    /\ Render

-----------------------------------------------------------------------------
Init ==
    /\ DashInit
    /\ lib = FALSE /\ importing = FALSE /\ drawing = NoDrawing
    /\ instances = 0 /\ listeners = 0
    /\ saved \in Themes \cup {NoTheme}
    /\ theme \in Themes /\ Preferred(theme) /\ attribute = theme
    /\ toggles = 0 /\ storageFaults = 0 /\ importFaults = 0

\* Controls and loads, and the chart they show or hide.
ChangeOnPage ==
    /\ \E c \in Controls : Change(c)
    /\ UNCHANGED <<themeVars, importFaults>>
    /\ Render

LoadEndsOnPage ==
    /\ SomeLoadEnds
    /\ UNCHANGED <<themeVars, importFaults>>
    /\ Render

\* A new document; only localStorage is left of the old one.
ReloadPage ==
    /\ Reload
    /\ lib' = FALSE /\ importing' = FALSE /\ drawing' = NoDrawing
    /\ instances' = 0 /\ listeners' = 0
    /\ theme' \in Themes /\ Preferred(theme') /\ attribute' = theme'
    /\ UNCHANGED <<saved, toggles, storageFaults, importFaults>>

Next ==
    \/ ChangeOnPage \/ LoadEndsOnPage
    \/ ReloadPage
    \/ Imported \/ ImportFails
    \/ \E t \in Themes : Toggle(t)

Spec == Init /\ [][Next]_vars

\* Every request is answered or aborted after 15 s (api.ts:27), so a load ends;
\* an import is answered.
FairSpec ==
    /\ Spec
    /\ WF_vars(LoadEndsOnPage)
    /\ WF_vars(Imported \/ ImportFails)

-----------------------------------------------------------------------------
(* Properties *)

TypeOK ==
    /\ DashTypeOK
    /\ lib \in BOOLEAN /\ importing \in BOOLEAN
    /\ drawing \in Drawings \cup {NoDrawing}
    /\ instances \in Nat /\ listeners \in Nat
    /\ theme \in Themes /\ attribute \in Themes
    /\ saved \in Themes \cup {NoTheme}
    /\ toggles \in 0..MaxToggles
    /\ storageFaults \in 0..MaxFaults /\ importFaults \in 0..MaxFaults

\* Through every sequence of spinners, partial answers, imports that come too
\* late, redraws and themes there is one ECharts instance and one resize
\* listener while a chart is drawn, and none otherwise
\* (TimeSeriesChart.tsx:52-56, 238-252).
NoLeak ==
    /\ instances = IF Drawn THEN 1 ELSE 0
    /\ listeners = IF Drawn THEN 1 ELSE 0
    /\ Drawn => Mounted /\ lib

\* What is drawn is what the dashboard holds, in the document's colours
\* (TimeSeriesChart.tsx:60-71, 235).
DrawingIsCurrent == Drawn => drawing = [data |-> Plotted, colours |-> attribute]

\* As long as localStorage takes what it is given, the toggle, the document and
\* the saved choice agree, so a reload keeps the theme (ThemeProvider.tsx:32-46).
OneTheme ==
    storageFaults = 0 => attribute = theme /\ saved \in {theme, NoTheme}

\* When the user leaves the page alone the spinner goes away and, as long as
\* ECharts could be loaded, what there is to draw is drawn (Dashboard.tsx:90-92,
\* TimeSeriesChart.tsx:37-39).
SettlesDown ==
    /\ <>[](loads = << >> /\ ~isLoading)
    /\ [](importFaults = 0) => <>[](Mounted => Drawn)
=============================================================================
