-------------------------- MODULE DashboardProofs --------------------------
(***************************************************************************)
(* Proofs about Dashboard and DashboardPage, for any number of ranges,     *)
(* horizons, overlapping loads, reloads and themes.                        *)
(*                                                                         *)
(* A step of the page is a step of the dashboard with what it does to the  *)
(* chart and the theme (PageIsDashboard), so what holds of the loads and   *)
(* panels is proved of Dashboard alone: DashInv is inductive there.  Its   *)
(* part NewestIsLast is what a load's end needs to know: while the newest  *)
(* load is under way it is the last of the sequence and for the selected   *)
(* controls.  ChartInv says when the chart holds an ECharts instance.      *)
(***************************************************************************)
EXTENDS DashboardPage, SequenceTheorems, TLAPS

\* Removing an element that is not the last leaves the last one last.
LEMMA RemoveKeepsLast ==
    ASSUME NEW S, NEW s \in Seq(S), NEW i \in 1..Len(s)
    PROVE  /\ RemoveAt(s, i) \in Seq(S)
           /\ Len(RemoveAt(s, i)) = Len(s) - 1
           /\ i # Len(s) => RemoveAt(s, i)[Len(s) - 1] = s[Len(s)]
<1> DEFINE l == SubSeq(s, 1, i - 1)
           r == SubSeq(s, i + 1, Len(s))
<1>0. Len(s) \in Nat /\ \A j \in 1..Len(s) : s[j] \in S
  BY ElementOfSeq, LenProperties
<1>1. l \in Seq(S) /\ Len(l) = i - 1
  <2>1. \A j \in 1..(i - 1) : s[j] \in S
    BY <1>0
  <2> QED
    BY <1>0, <2>1, SubSeqProperties
<1>2. /\ r \in Seq(S)
      /\ Len(r) = Len(s) - i
      /\ \A j \in 1..(Len(s) - i) : r[j] = s[i + j]
  <2>1. \A j \in (i + 1)..Len(s) : s[j] \in S
    BY <1>0
  <2>2. /\ r \in Seq(S)
        /\ Len(r) = IF i + 1 <= Len(s) THEN Len(s) - (i + 1) + 1 ELSE 0
        /\ \A j \in 1..(Len(s) - (i + 1) + 1) : r[j] = s[(i + 1) + j - 1]
    BY <1>0, <2>1, SubSeqProperties
  <2> QED
    BY <1>0, <2>2
<1>3. RemoveAt(s, i) = l \o r
  BY DEF RemoveAt
<1>4. /\ l \o r \in Seq(S)
      /\ Len(l \o r) = Len(l) + Len(r)
      /\ \A j \in 1..(Len(l) + Len(r)) :
            (l \o r)[j] = IF j <= Len(l) THEN l[j] ELSE r[j - Len(l)]
  BY <1>1, <1>2, ConcatProperties
<1> HIDE DEF l, r
<1>5. ASSUME i # Len(s) PROVE (l \o r)[Len(s) - 1] = s[Len(s)]
  <2>1. Len(s) - i \in 1..(Len(s) - i) /\ Len(s) - 1 \in 1..(Len(l) + Len(r))
    BY <1>0, <1>1, <1>2, <1>5
  <2>2. (l \o r)[Len(s) - 1] = r[(Len(s) - 1) - (i - 1)]
    BY <1>0, <1>1, <1>4, <1>5, <2>1
  <2>3. (Len(s) - 1) - (i - 1) = Len(s) - i /\ i + (Len(s) - i) = Len(s)
    BY <1>0
  <2> QED
    BY <1>2, <2>1, <2>2, <2>3
<1>6. Len(l) + Len(r) = Len(s) - 1
  BY <1>0, <1>1, <1>2
<1> QED
  BY <1>3, <1>4, <1>5, <1>6

-----------------------------------------------------------------------------
(* The dashboard *)

\* The load started last, while it is under way.
NewestIsLast ==
    ~newest.ended => loads # << >> /\ loads[Len(loads)] = controls

\* A load started with no other under way stays alone until it ends.
AloneIsOnly ==
    alone => Len(loads) = IF newest.ended THEN 0 ELSE 1

DashInv ==
    /\ DashTypeOK
    /\ NewestIsLast
    /\ AloneIsOnly
    /\ SpinnerHasLoad
    /\ PanelsShowSelection
    /\ BannerTellsFailure

LEMMA FreshLoads ==
    /\ <<Initial>> \in Seq(Controls)
    /\ Len(<<Initial>>) = 1
    /\ <<Initial>>[1] = Initial
    /\ <<Initial>> # << >>
BY ControlsAssumption

LEMMA FreshTypes ==
    /\ [p \in Panels |-> NoData] \in [Panels -> Pictures]
    /\ Unended \in [ended : BOOLEAN, got : SUBSET Panels]
<1>1. NoData \in Pictures
  BY DEF Pictures
<1>2. {} \in SUBSET Panels
  OBVIOUS
<1> QED
  BY <1>1, <1>2 DEF Unended

LEMMA DashInitInv == DashInit => DashInv
<1> SUFFICES ASSUME DashInit PROVE DashInv
  OBVIOUS
<1>1. DashTypeOK
  <2>1. loads \in Seq(Controls) /\ Len(loads) <= 1 + changes
    BY FreshLoads DEF DashInit
  <2>2. changes \in 0..MaxChanges /\ reloads \in 0..MaxReloads
    BY DashboardBounds DEF DashInit
  <2> QED
    BY <2>1, <2>2, FreshTypes, ControlsAssumption DEF DashInit, DashTypeOK
<1>2. NewestIsLast /\ AloneIsOnly /\ SpinnerHasLoad
  BY FreshLoads DEF DashInit, NewestIsLast, AloneIsOnly, SpinnerHasLoad, Unended
<1>3. PanelsShowSelection /\ BannerTellsFailure
  BY DEF DashInit, PanelsShowSelection, BannerTellsFailure, Unended
<1> QED
  BY <1>1, <1>2, <1>3 DEF DashInv

LEMMA ChangeDash ==
    ASSUME DashInv, NEW c \in Controls, Change(c)
    PROVE  DashInv'
<1>0. DashTypeOK /\ loads \in Seq(Controls) /\ Len(loads) \in Nat
  BY LenProperties DEF DashInv, DashTypeOK
<1>1. /\ loads' \in Seq(Controls)
      /\ Len(loads') = Len(loads) + 1
      /\ loads'[Len(loads) + 1] = c
  BY <1>0, AppendProperties DEF Change, Loads
<1>2. loads' # << >>
  BY <1>0, <1>1, EmptySeq
<1>3. DashTypeOK'
  <2>1. changes \in Nat /\ changes' = changes + 1 /\ changes < MaxChanges
        /\ changes \in 0..MaxChanges
    BY <1>0, DashboardBounds DEF DashTypeOK, Change
  <2>2. Len(loads') <= 1 + changes' /\ changes' \in 0..MaxChanges
    BY <1>0, <1>1, <2>1, DashboardBounds DEF DashTypeOK
  <2> QED
    BY <1>0, <1>1, <2>2 DEF DashTypeOK, Change, Unended
<1>4. NewestIsLast' /\ SpinnerHasLoad'
  BY <1>1, <1>2 DEF Change, NewestIsLast, SpinnerHasLoad
<1>5. AloneIsOnly'
  <2>1. alone' => Len(loads) = 0
    BY EmptySeq DEF Change
  <2> QED
    BY <1>1, <2>1 DEF Change, AloneIsOnly, Unended
<1>6. PanelsShowSelection' /\ BannerTellsFailure'
  BY DEF Change, PanelsShowSelection, BannerTellsFailure, Unended
<1> QED
  BY <1>3, <1>4, <1>5, <1>6 DEF DashInv

LEMMA EndLoadDash ==
    ASSUME DashInv, NEW i \in DOMAIN loads, NEW got \in SUBSET Panels, EndLoad(i, got)
    PROVE  DashInv'
<1>0. /\ DashTypeOK /\ NewestIsLast /\ AloneIsOnly /\ PanelsShowSelection /\ BannerTellsFailure
      /\ loads \in Seq(Controls) /\ Len(loads) \in Nat /\ DOMAIN loads = 1..Len(loads)
  BY LenProperties DEF DashInv, DashTypeOK
<1>1. /\ loads' \in Seq(Controls)
      /\ Len(loads') = Len(loads) - 1
      /\ i # Len(loads) => loads'[Len(loads) - 1] = loads[Len(loads)]
  BY <1>0, RemoveKeepsLast DEF EndLoad
<1>2. loads[i] \in Controls
  BY <1>0, ElementOfSeq
<1>3. \/ /\ i = Len(loads) /\ ~newest.ended
         /\ newest' = [ended |-> TRUE, got |-> got] /\ overtaken' = overtaken
      \/ /\ ~(i = Len(loads) /\ ~newest.ended)
         /\ newest' = newest /\ overtaken' = newest.ended
  BY DEF EndLoad
<1>4. DashTypeOK'
  <2>1. shown' \in [Panels -> Pictures]
    BY <1>0, <1>2 DEF EndLoad, Shown, DashTypeOK, Pictures
  <2>2. Len(loads') <= 1 + changes'
    BY <1>0, <1>1 DEF DashTypeOK, EndLoad
  <2>3. /\ newest' \in [ended : BOOLEAN, got : SUBSET Panels] /\ overtaken' \in BOOLEAN
    <3>1. newest \in [ended : BOOLEAN, got : SUBSET Panels] /\ overtaken \in BOOLEAN
      BY <1>0 DEF DashTypeOK
    <3>2. [ended |-> TRUE, got |-> got] \in [ended : BOOLEAN, got : SUBSET Panels]
      OBVIOUS
    <3>3. newest.ended \in BOOLEAN
      BY <3>1
    <3> QED
      BY <1>3, <3>1, <3>2, <3>3
  <2>4. error' \in BOOLEAN /\ isLoading' \in BOOLEAN
    BY <1>0 DEF EndLoad, DashTypeOK, LoadingAfter, Failed
  <2> QED
    BY <1>0, <1>1, <2>1, <2>2, <2>3, <2>4 DEF DashTypeOK, EndLoad
<1>5. NewestIsLast'
  <2> SUFFICES ASSUME ~newest'.ended
               PROVE  loads' # << >> /\ loads'[Len(loads')] = controls'
    BY DEF NewestIsLast
  <2>1. newest' = newest /\ i # Len(loads)
    BY <1>3
  <2>2. loads[Len(loads)] = controls
    BY <1>0, <2>1 DEF NewestIsLast
  <2>3. Len(loads') # 0
    BY <1>0, <1>1, <2>1
  <2> QED
    BY <1>1, <2>1, <2>2, <2>3, EmptySeq DEF EndLoad
<1>6. AloneIsOnly'
  <2> SUFFICES ASSUME alone
               PROVE  Len(loads') = IF newest'.ended THEN 0 ELSE 1
    BY DEF AloneIsOnly, EndLoad
  <2>1. Len(loads) = 1 /\ ~newest.ended
    BY <1>0 DEF AloneIsOnly
  <2> QED
    BY <1>0, <1>1, <1>3, <2>1
<1>7. SpinnerHasLoad'
  BY DEF SpinnerHasLoad, EndLoad, LoadingAfter
<1>8. PanelsShowSelection'
  <2> SUFFICES ASSUME newest'.ended, ~overtaken', NEW p \in newest'.got
               PROVE  shown'[p] = Answer(p, controls')
    BY DEF PanelsShowSelection
  <2>1. i = Len(loads) /\ ~newest.ended /\ newest' = [ended |-> TRUE, got |-> got]
    BY <1>3
  <2>2. loads[i] = controls
    BY <1>0, <2>1 DEF NewestIsLast
  <2>3. p \in got /\ p \in Panels
    BY <2>1
  <2> QED
    BY <2>2, <2>3 DEF EndLoad, Shown
<1>9. BannerTellsFailure'
  <2>1. error' = (error \/ got = {}) /\ alone' = alone
    BY DEF EndLoad, Failed
  <2>2. CASE newest' = [ended |-> TRUE, got |-> got] /\ ~newest.ended
    BY <1>0, <2>1, <2>2 DEF BannerTellsFailure
  <2>3. CASE newest' = newest /\ ~(i = Len(loads) /\ ~newest.ended)
    <3>1. ~alone
      <4>1. alone => Len(loads) = 1 /\ ~newest.ended /\ i = 1
        BY <1>0 DEF AloneIsOnly
      <4> QED
        BY <2>3, <4>1
    <3> QED
      BY <1>0, <2>1, <2>3, <3>1 DEF BannerTellsFailure
  <2> QED
    BY <1>3, <2>2, <2>3
<1> QED
  BY <1>4, <1>5, <1>6, <1>7, <1>8, <1>9 DEF DashInv

LEMMA ReloadDash ==
    ASSUME DashInv, Reload
    PROVE  DashInv'
<1>0. DashTypeOK
  BY DEF DashInv
<1>1. DashTypeOK'
  <2>1. changes' \in 0..MaxChanges /\ Len(loads') <= 1 + changes'
    BY <1>0, FreshLoads DEF Reload, FreshPage, DashTypeOK
  <2>2. reloads' \in 0..MaxReloads
    BY <1>0, DashboardBounds DEF Reload, DashTypeOK
  <2> QED
    BY <2>1, <2>2, FreshLoads, FreshTypes, ControlsAssumption
       DEF Reload, FreshPage, DashTypeOK
<1>2. NewestIsLast' /\ AloneIsOnly' /\ SpinnerHasLoad'
  BY FreshLoads DEF Reload, FreshPage, NewestIsLast, AloneIsOnly, SpinnerHasLoad, Unended
<1>3. PanelsShowSelection' /\ BannerTellsFailure'
  BY DEF Reload, FreshPage, PanelsShowSelection, BannerTellsFailure, Unended
<1> QED
  BY <1>1, <1>2, <1>3 DEF DashInv

LEMMA DashStep == DashInv /\ [DashNext]_dashVars => DashInv'
<1> SUFFICES ASSUME DashInv, [DashNext]_dashVars
             PROVE  DashInv'
  OBVIOUS
<1>1. CASE UNCHANGED dashVars
  BY <1>1 DEF dashVars, DashInv, DashTypeOK, NewestIsLast, AloneIsOnly, SpinnerHasLoad,
              PanelsShowSelection, BannerTellsFailure
<1>2. CASE DashNext
  BY <1>2, ChangeDash, EndLoadDash, ReloadDash DEF DashNext, SomeLoadEnds
<1> QED
  BY <1>1, <1>2

-----------------------------------------------------------------------------
(* The page *)

\* What a step of the page does is a step of the dashboard, or none of it.
LEMMA PageStep == [Next]_vars => [DashNext]_dashVars
BY DEF Next, vars, ChangeOnPage, LoadEndsOnPage, ReloadPage, Imported, ImportFails,
       Toggle, DashNext

\* The chart draws exactly when ECharts is there; a chart that is not mounted
\* has neither, nor is one on the way.
ChartInv ==
    /\ lib <=> Drawn
    /\ lib \/ importing => Mounted
    /\ ~(lib /\ importing)
    /\ NoLeak
    /\ DrawingIsCurrent

PageInv == TypeOK /\ DashInv /\ ChartInv /\ OneTheme

LEMMA PlottedTypedNext == DashTypeOK' => Plotted' \in Pictures \X Pictures
BY DEF DashTypeOK, Plotted, Panels

\* What Draw leaves behind.
LEMMA Draws ==
    ASSUME PageInv, DashTypeOK', attribute' \in Themes, Draw
    PROVE  /\ drawing' \in Drawings
           /\ Drawn'
           /\ drawing' = [data |-> Plotted', colours |-> attribute']
           /\ instances' = 1 /\ listeners' = 1
<1>1. drawing' = [data |-> Plotted', colours |-> attribute']
  BY DEF Draw
<1>2. drawing' \in Drawings
  BY <1>1, PlottedTypedNext DEF Drawings
<1>3. Drawn'
  BY <1>2, PageAssumption DEF Drawn
<1>4. instances' = 1 /\ listeners' = 1
  BY DEF Draw, PageInv, ChartInv, NoLeak, ListenersRemoved
<1> QED
  BY <1>1, <1>2, <1>3, <1>4

\* A render keeps the chart in order, whatever it shows or hides, as long as the
\* document's colours do not change without the theme.
LEMMA RenderChart ==
    ASSUME PageInv, DashTypeOK', theme' \in Themes, attribute' \in Themes,
           theme' = theme => attribute' = attribute,
           Render
    PROVE  /\ lib' \in BOOLEAN /\ importing' \in BOOLEAN
           /\ drawing' \in Drawings \cup {NoDrawing}
           /\ instances' \in Nat /\ listeners' \in Nat
           /\ ChartInv'
<1>0. /\ lib \in BOOLEAN /\ importing \in BOOLEAN /\ drawing \in Drawings \cup {NoDrawing}
      /\ lib <=> Drawn
      /\ lib \/ importing => Mounted
      /\ ~(lib /\ importing)
      /\ instances = (IF Drawn THEN 1 ELSE 0) /\ listeners = (IF Drawn THEN 1 ELSE 0)
      /\ Drawn => drawing = [data |-> Plotted, colours |-> attribute]
  BY DEF PageInv, TypeOK, ChartInv, NoLeak, DrawingIsCurrent
<1>1. CASE Mount
  <2>1. ~Drawn' /\ ~Drawn
    BY <1>0, <1>1 DEF Mount, Drawn
  <2>2. importing' = TRUE /\ lib' = FALSE /\ Mounted'
    BY <1>1 DEF Mount, ImportsAlways
  <2>3. drawing' = NoDrawing /\ instances' = 0 /\ listeners' = 0
    BY <1>0, <1>1, <2>1 DEF Mount
  <2> QED
    BY <2>1, <2>2, <2>3 DEF ChartInv, NoLeak, DrawingIsCurrent
<1>2. CASE Unmount
  <2>1. ~Drawn' /\ lib' = FALSE /\ importing' = FALSE /\ drawing' = NoDrawing
    BY <1>2 DEF Unmount, Drawn
  <2>2. instances' = 0 /\ listeners' = 0
    BY <1>0, <1>2 DEF Unmount, ListenersRemoved, InstancesDisposed
  <2> QED
    BY <2>1, <2>2 DEF ChartInv, NoLeak, DrawingIsCurrent
<1>3. CASE Update
  <2>1. Mounted' /\ lib' = lib /\ importing' = importing
    BY <1>3 DEF Update
  <2>2. CASE lib /\ Redraws
    <3>1. Draw
      BY <1>3, <2>2 DEF Update
    <3>2. /\ drawing' \in Drawings /\ Drawn' /\ instances' = 1 /\ listeners' = 1
          /\ drawing' = [data |-> Plotted', colours |-> attribute']
      BY <3>1, Draws
    <3> QED
      BY <1>0, <2>1, <2>2, <3>2 DEF ChartInv, NoLeak, DrawingIsCurrent
  <2>3. CASE ~(lib /\ Redraws)
    <3>1. UNCHANGED <<drawing, instances, listeners>>
      BY <1>3, <2>3 DEF Update
    <3>2. Drawn' <=> Drawn
      BY <3>1 DEF Drawn
    <3>3. Drawn => Plotted' = Plotted /\ attribute' = attribute
      BY <1>0, <2>3 DEF Redraws
    <3> QED
      BY <1>0, <2>1, <3>1, <3>2, <3>3 DEF ChartInv, NoLeak, DrawingIsCurrent
  <2> QED
    BY <2>2, <2>3
<1>4. CASE ~Mounted /\ ~Mounted' /\ UNCHANGED chartVars
  <2>1. Drawn' <=> Drawn
    BY <1>4 DEF Drawn, chartVars
  <2> QED
    BY <1>0, <1>4, <2>1 DEF chartVars, ChartInv, NoLeak, DrawingIsCurrent
<1> QED
  BY <1>1, <1>2, <1>3, <1>4 DEF Render

LEMMA PageInit == Init => PageInv
<1> SUFFICES ASSUME Init PROVE PageInv
  OBVIOUS
<1>1. DashInv
  BY DashInitInv DEF Init
<1>2. ~Drawn
  BY DEF Init, Drawn
<1>3. ChartInv
  BY <1>2 DEF Init, ChartInv, NoLeak, DrawingIsCurrent
<1>4. OneTheme
  BY DEF Init, OneTheme, Preferred
<1>5. TypeOK
  <2>1. toggles \in 0..MaxToggles /\ storageFaults \in 0..MaxFaults
        /\ importFaults \in 0..MaxFaults
    BY PageAssumption DEF Init
  <2> QED
    BY <1>1, <2>1 DEF Init, TypeOK, DashInv
<1> QED
  BY <1>1, <1>3, <1>4, <1>5 DEF PageInv

LEMMA PageNext == PageInv /\ [Next]_vars => PageInv'
<1> SUFFICES ASSUME PageInv, [Next]_vars
             PROVE  PageInv'
  OBVIOUS
<1>0. TypeOK /\ DashInv /\ ChartInv /\ OneTheme
  BY DEF PageInv
<1>1. DashInv' /\ DashTypeOK'
  <2>1. DashInv'
    BY <1>0, PageStep, DashStep
  <2> QED
    BY <2>1 DEF DashInv
<1>2. CASE UNCHANGED vars
  <2>1. UNCHANGED <<dashVars, chartVars, themeVars, importFaults>>
    BY <1>2 DEF vars
  <2>2. (Mounted' <=> Mounted) /\ Plotted' = Plotted
    BY <2>1 DEF dashVars, Mounted, HasRows, Plotted
  <2>3. Drawn' <=> Drawn
    BY <2>1 DEF chartVars, Drawn
  <2>4. ChartInv'
    BY <1>0, <2>1, <2>2, <2>3 DEF chartVars, themeVars, ChartInv, NoLeak, DrawingIsCurrent
  <2>5. OneTheme'
    BY <1>0, <2>1 DEF themeVars, OneTheme
  <2>6. TypeOK'
    BY <1>0, <1>1, <2>1 DEF chartVars, themeVars, TypeOK
  <2> QED
    BY <1>1, <2>4, <2>5, <2>6 DEF PageInv
<1>3. CASE ChangeOnPage \/ LoadEndsOnPage
  <2>1. UNCHANGED <<themeVars, importFaults>> /\ Render
    BY <1>3 DEF ChangeOnPage, LoadEndsOnPage
  <2>2. theme' = theme /\ attribute' = attribute /\ theme \in Themes /\ attribute \in Themes
    BY <1>0, <2>1 DEF themeVars, TypeOK
  <2>3. /\ lib' \in BOOLEAN /\ importing' \in BOOLEAN
        /\ drawing' \in Drawings \cup {NoDrawing}
        /\ instances' \in Nat /\ listeners' \in Nat
        /\ ChartInv'
    BY <1>1, <2>1, <2>2, RenderChart
  <2>4. OneTheme'
    BY <1>0, <2>1 DEF themeVars, OneTheme
  <2>5. TypeOK'
    BY <1>0, <1>1, <2>1, <2>3 DEF themeVars, TypeOK
  <2> QED
    BY <1>1, <2>3, <2>4, <2>5 DEF PageInv
<1>4. CASE ReloadPage
  <2>1. ~Drawn'
    BY <1>4 DEF ReloadPage, Drawn
  <2>2. ChartInv'
    BY <1>4, <2>1 DEF ReloadPage, ChartInv, NoLeak, DrawingIsCurrent
  <2>3. OneTheme'
    BY <1>0, <1>4 DEF ReloadPage, OneTheme, Preferred
  <2>4. TypeOK'
    BY <1>0, <1>1, <1>4 DEF ReloadPage, TypeOK
  <2> QED
    BY <1>1, <2>2, <2>3, <2>4 DEF PageInv
<1>5. CASE Imported
  <2>1. UNCHANGED <<dashVars, themeVars, importFaults>> /\ Draw
        /\ importing /\ importing' = FALSE /\ lib' = TRUE
    BY <1>5 DEF Imported
  <2>2. Mounted' <=> Mounted
    BY <2>1 DEF dashVars, Mounted, HasRows
  <2>3. attribute' \in Themes
    BY <1>0, <2>1 DEF themeVars, TypeOK
  <2>4. /\ drawing' \in Drawings /\ Drawn' /\ instances' = 1 /\ listeners' = 1
        /\ drawing' = [data |-> Plotted', colours |-> attribute']
    BY <1>1, <2>1, <2>3, Draws
  <2>5. ChartInv'
    BY <1>0, <2>1, <2>2, <2>4 DEF ChartInv, NoLeak, DrawingIsCurrent
  <2>6. OneTheme'
    BY <1>0, <2>1 DEF themeVars, OneTheme
  <2>7. TypeOK'
    BY <1>0, <1>1, <2>1, <2>4 DEF themeVars, TypeOK
  <2> QED
    BY <1>1, <2>5, <2>6, <2>7 DEF PageInv
<1>6. CASE ImportFails
  <2>1. /\ UNCHANGED <<dashVars, themeVars, lib, drawing, instances, listeners>>
        /\ importing' = FALSE
    BY <1>6 DEF ImportFails
  <2>2. (Mounted' <=> Mounted) /\ Plotted' = Plotted /\ (Drawn' <=> Drawn)
    BY <2>1 DEF dashVars, Mounted, HasRows, Plotted, Drawn
  <2>3. ChartInv'
    BY <1>0, <2>1, <2>2 DEF themeVars, ChartInv, NoLeak, DrawingIsCurrent
  <2>4. OneTheme'
    BY <1>0, <2>1 DEF themeVars, OneTheme
  <2>5. importFaults' \in 0..MaxFaults
    BY <1>0, <1>6, PageAssumption DEF ImportFails, TypeOK
  <2>6. TypeOK'
    BY <1>0, <1>1, <2>1, <2>5 DEF themeVars, TypeOK
  <2> QED
    BY <1>1, <2>3, <2>4, <2>6 DEF PageInv
<1>7. ASSUME NEW t \in Themes, Toggle(t)
      PROVE  PageInv'
  <2>1. /\ theme' = t /\ t # theme
        /\ toggles < MaxToggles /\ toggles' = toggles + 1
        /\ UNCHANGED <<dashVars, importFaults>> /\ Render
    BY <1>7 DEF Toggle
  <2>2. \/ saved' = t /\ attribute' = t /\ UNCHANGED storageFaults
        \/ /\ storageFaults < MaxFaults
           /\ storageFaults' = storageFaults + 1
           /\ UNCHANGED <<saved, attribute>>
    BY <1>7 DEF Toggle, Applied
  <2>3. theme' \in Themes /\ attribute' \in Themes /\ saved' \in Themes \cup {NoTheme}
    BY <1>0, <2>1, <2>2 DEF TypeOK
  <2>4. /\ lib' \in BOOLEAN /\ importing' \in BOOLEAN
        /\ drawing' \in Drawings \cup {NoDrawing}
        /\ instances' \in Nat /\ listeners' \in Nat
        /\ ChartInv'
    BY <1>1, <2>1, <2>3, RenderChart
  <2>5. storageFaults \in 0..MaxFaults /\ toggles \in 0..MaxToggles
    BY <1>0 DEF TypeOK
  <2>6. storageFaults' \in 0..MaxFaults /\ toggles' \in 0..MaxToggles
    BY <2>1, <2>2, <2>5, PageAssumption
  <2>7. OneTheme'
    BY <1>0, <2>1, <2>2, <2>5 DEF OneTheme
  <2>8. TypeOK'
    BY <1>0, <1>1, <2>1, <2>3, <2>4, <2>6 DEF TypeOK
  <2> QED
    BY <1>1, <2>4, <2>7, <2>8 DEF PageInv
<1> QED
  BY <1>2, <1>3, <1>4, <1>5, <1>6, <1>7 DEF Next

LEMMA PageHolds == Spec => []PageInv
BY PageInit, PageNext, PTL DEF Spec

-----------------------------------------------------------------------------
(* What holds of the page *)

\* The page is the dashboard: whatever the chart and the theme do, its controls,
\* loads and panels step as Dashboard says.
THEOREM PageIsDashboard == Spec => DashSpec
<1>1. Init => DashInit
  BY DEF Init
<1> QED
  BY <1>1, PageStep, PTL DEF Spec, DashSpec

\* Every reachable state is well typed.
THEOREM TypeCorrect == Spec => []TypeOK
<1>1. PageInv => TypeOK
  BY DEF PageInv
<1> QED
  BY <1>1, PageHolds, PTL

\* The spinner is never up without a load that will take it down.
THEOREM SpinnerIsFounded == Spec => []SpinnerHasLoad
<1>1. PageInv => SpinnerHasLoad
  BY DEF PageInv, DashInv
<1> QED
  BY <1>1, PageHolds, PTL

\* Unless an older load ends later, the panels show the selection.
THEOREM SelectionIsShown == Spec => []PanelsShowSelection
<1>1. PageInv => PanelsShowSelection
  BY DEF PageInv, DashInv
<1> QED
  BY <1>1, PageHolds, PTL

\* A load that got nothing raises the banner, and nothing else does unless
\* loads overlapped.
THEOREM FailureIsTold == Spec => []BannerTellsFailure
<1>1. PageInv => BannerTellsFailure
  BY DEF PageInv, DashInv
<1> QED
  BY <1>1, PageHolds, PTL

\* One ECharts instance and one resize listener while a chart is drawn, none
\* otherwise.
THEOREM NothingLeaks == Spec => []NoLeak
<1>1. PageInv => NoLeak
  BY DEF PageInv, ChartInv
<1> QED
  BY <1>1, PageHolds, PTL

\* The chart on the screen is always that of the data held, in the document's
\* colours, even when saving the theme failed.
THEOREM ChartIsCurrent == Spec => []DrawingIsCurrent
<1>1. PageInv => DrawingIsCurrent
  BY DEF PageInv, ChartInv
<1> QED
  BY <1>1, PageHolds, PTL

\* The toggle, the document and the saved choice agree while saving works.
THEOREM ThemesAgree == Spec => []OneTheme
<1>1. PageInv => OneTheme
  BY DEF PageInv
<1> QED
  BY <1>1, PageHolds, PTL

\* The legend names the horizon of the forecast shown unless an older load has
\* ended after the newest one (Dashboard.tsx:163): overlapping loads that end in
\* any other order, fail or fail in part do no harm to it.
THEOREM LegendUnlessOvertaken == Spec => [](~overtaken => LegendTellsForecast)
<1>1. PageInv => (~overtaken => LegendTellsForecast)
  <2> SUFFICES ASSUME PageInv, ~overtaken, loads = << >>, "forecast" \in newest.got
               PROVE  shown["forecast"] = Answer("forecast", controls)
    BY DEF LegendTellsForecast
  <2>1. newest.ended
    BY DEF PageInv, DashInv, NewestIsLast
  <2> QED
    BY <2>1 DEF PageInv, DashInv, PanelsShowSelection
<1> QED
  BY <1>1, PageHolds, PTL

\* While no import has failed, a chart on the page has ECharts or asks for it.
HasOrAsks == importFaults = 0 /\ Mounted => lib \/ importing

LEMMA HasOrAsksNext == TypeOK /\ HasOrAsks /\ [Next]_vars => HasOrAsks'
<1> SUFFICES ASSUME TypeOK, HasOrAsks, [Next]_vars, importFaults' = 0, Mounted'
             PROVE  lib' \/ importing'
  BY DEF HasOrAsks
<1>1. ASSUME Render, importFaults' = importFaults PROVE lib' \/ importing'
  BY <1>1 DEF Render, Mount, Unmount, Update, ImportsAlways, HasOrAsks
<1>2. CASE UNCHANGED vars
  BY <1>2 DEF vars, dashVars, chartVars, HasOrAsks, Mounted, HasRows
<1>3. CASE ReloadPage
  BY <1>3 DEF ReloadPage, Reload, FreshPage, Mounted
<1>4. CASE ImportFails
  BY <1>4 DEF ImportFails, TypeOK
<1>5. CASE Imported
  BY <1>5 DEF Imported
<1>6. CASE ChangeOnPage \/ LoadEndsOnPage \/ \E t \in Themes : Toggle(t)
  BY <1>1, <1>6 DEF ChangeOnPage, LoadEndsOnPage, Toggle
<1> QED
  BY <1>2, <1>3, <1>4, <1>5, <1>6 DEF Next

\* What SettlesDown waits for, said without time: as long as ECharts could be
\* loaded, a chart that is on the page and waits for no import is drawn, however
\* often it was taken off and put back (TimeSeriesChart.tsx:37-39, 60).
THEOREM ChartWithoutImportIsDrawn ==
    Spec => [](importFaults = 0 /\ Mounted /\ ~importing => Drawn)
<1>1. Init => HasOrAsks
  BY DEF Init, DashInit, HasOrAsks, Mounted
<1>2. PageInv /\ HasOrAsks => (importFaults = 0 /\ Mounted /\ ~importing => Drawn)
  BY DEF PageInv, ChartInv, HasOrAsks
<1>3. PageInv => TypeOK
  BY DEF PageInv
<1>4. Spec => []HasOrAsks
  BY <1>1, <1>3, HasOrAsksNext, PageHolds, PTL DEF Spec
<1> QED
  BY <1>2, <1>4, PageHolds, PTL
=============================================================================
