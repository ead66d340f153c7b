----------------------- MODULE HorizonSelectionProofs -----------------------
(***************************************************************************)
(* Proofs about HorizonSelection for all tables, ranges and horizons: what *)
(* the window-function query answers is what the docstring promises.       *)
(*                                                                         *)
(* The primary key is what makes ROW_NUMBER() = 1 mean "latest": two rows  *)
(* of a slot with one publish time could otherwise outrank each other by   *)
(* generation_mw only.  That every slot with a candidate has a first row   *)
(* rests on the well-foundedness of < on Nat.                              *)
(*                                                                         *)
(* The last section is about ForecastCoverage, for any feed, calendar and  *)
(* look-back: after any sequence of successful batches the table holds     *)
(* exactly what their windows hold, so an answer that lies in one ingested *)
(* window is given whichever other days failed.                            *)
(***************************************************************************)
EXTENDS ForecastCoverage, RecursionLemmas

-----------------------------------------------------------------------------
(* The tables *)

LEMMA InitTyped == Init => TypeOK
BY FS_EmptySet DEF Init, TypeOK, ForecastsKeyed, ActualsKeyed

\* INSERT OR REPLACE keeps a table finite and keyed.
LEMMA UpsertForecasts ==
    ASSUME TypeOK, NEW frame \in Frames(ForecastRows), ForecastsKeyed(frame)
    PROVE  LET rows == ForecastsUpserted(frame) IN
           rows \subseteq ForecastRows /\ IsFiniteSet(rows) /\ ForecastsKeyed(rows)
<1> DEFINE kept == {r \in forecasts : \A q \in frame : ~SameForecastKey(r, q)}
<1>1. IsFiniteSet(kept)
  BY FS_Subset DEF TypeOK
<1>2. IsFiniteSet(kept \cup frame)
  BY <1>1, FS_Union DEF Frames
<1>3. ForecastsKeyed(kept \cup frame)
  BY DEF ForecastsKeyed, TypeOK, SameForecastKey
<1> QED
  BY <1>2, <1>3 DEF ForecastsUpserted, TypeOK, Frames

LEMMA UpsertActuals ==
    ASSUME TypeOK, NEW frame \in Frames(ActualRows), ActualsKeyed(frame)
    PROVE  LET rows == ActualsUpserted(frame) IN
           rows \subseteq ActualRows /\ IsFiniteSet(rows) /\ ActualsKeyed(rows)
<1> DEFINE kept == {r \in actuals : \A q \in frame : ~SameActualKey(r, q)}
<1>1. IsFiniteSet(kept)
  BY FS_Subset DEF TypeOK
<1>2. IsFiniteSet(kept \cup frame)
  BY <1>1, FS_Union DEF Frames
<1>3. ActualsKeyed(kept \cup frame)
  BY DEF ActualsKeyed, TypeOK, SameActualKey
<1> QED
  BY <1>2, <1>3 DEF ActualsUpserted, TypeOK, Frames

\* Every reachable pair of tables is finite and respects its primary keys.
THEOREM TypeCorrect == Spec => []TypeOK
<1>1. TypeOK /\ [Next]_vars => TypeOK'
  <2> SUFFICES ASSUME TypeOK, [Next]_vars
               PROVE  TypeOK'
    OBVIOUS
  <2>1. ASSUME NEW frame \in Frames(ForecastRows), ForecastsKeyed(frame), LoadForecasts(frame)
        PROVE  TypeOK'
    BY <2>1, UpsertForecasts DEF LoadForecasts, TypeOK, ActualsKeyed
  <2>2. ASSUME NEW frame \in Frames(ActualRows), ActualsKeyed(frame), LoadActuals(frame)
        PROVE  TypeOK'
    BY <2>2, UpsertActuals DEF LoadActuals, TypeOK, ForecastsKeyed
  <2>3. CASE UNCHANGED vars
    BY <2>3 DEF vars, TypeOK, ForecastsKeyed, ActualsKeyed
  <2> QED
    BY <2>1, <2>2, <2>3 DEF Next
<1> QED
  BY InitTyped, <1>1, PTL DEF Spec

-----------------------------------------------------------------------------
(* The ranking *)

\* A table as the queries may assume it.
Table(rows) == rows \subseteq ForecastRows /\ IsFiniteSet(rows) /\ ForecastsKeyed(rows)

LEMMA RowTyped ==
    ASSUME NEW r \in ForecastRows
    PROVE  r.slot \in Int /\ r.publish \in Int /\ r.mw \in Int /\ r.slot \in Slots
BY TimeAssumption, PowerAssumption DEF ForecastRows

LEMMA CandidatesTable ==
    ASSUME NEW rows, Table(rows), NEW from, NEW to, NEW h
    PROVE  Table(Candidates(rows, from, to, h)) /\ Candidates(rows, from, to, h) \subseteq rows
<1>1. Candidates(rows, from, to, h) \subseteq rows
  BY DEF Candidates
<1>2. IsFiniteSet(Candidates(rows, from, to, h))
  BY <1>1, FS_Subset DEF Table
<1> QED
  BY <1>1, <1>2 DEF Table, ForecastsKeyed

\* The rows that go before r in the order of the window function: later in
\* publish time, or as late and of more power.
Above(rows, r) ==
    {q \in rows : /\ q.slot = r.slot
                  /\ q.publish > r.publish \/ (q.publish = r.publish /\ q.mw > r.mw)}

LEMMA NoneAboveIsLatest ==
    ASSUME NEW rows, Table(rows), NEW r \in rows
    PROVE  Cardinality(Above(rows, r)) + 1 = 1
              <=> \A q \in rows : q.slot = r.slot => q.publish <= r.publish
<1> DEFINE above == Above(rows, r)
<1>0. \A q \in rows : q \in above
         <=> q.slot = r.slot
             /\ (q.publish > r.publish \/ (q.publish = r.publish /\ q.mw > r.mw))
  BY DEF Above
<1>1. above \subseteq rows /\ IsFiniteSet(above)
  BY FS_Subset DEF Table, Above
<1> HIDE DEF above
<1>2. Cardinality(above) \in Nat
  BY <1>1, FS_CardinalityType
<1>3. Cardinality(above) + 1 = 1 <=> Cardinality(above) = 0
  BY <1>2
<1>4. Cardinality(above) = 0 <=> above = {}
  BY <1>1, FS_EmptySet
<1>5. \A q \in rows : q.slot = r.slot => (q \in above <=> q.publish > r.publish)
  <2> SUFFICES ASSUME NEW q \in rows, q.slot = r.slot
               PROVE  q \in above <=> q.publish > r.publish
    OBVIOUS
  <2>1. q.publish = r.publish => q = r
    BY DEF Table, ForecastsKeyed, SameForecastKey
  <2>2. r.mw \in Int /\ q.mw \in Int
    BY RowTyped DEF Table
  <2> QED
    BY <1>0, <2>1, <2>2
<1>6. \A q \in rows : q.publish \in Int
  BY RowTyped DEF Table
<1>7. above = {} <=> \A q \in rows : q.slot = r.slot => q.publish <= r.publish
  BY <1>0, <1>1, <1>5, <1>6
<1> QED
  BY <1>3, <1>4, <1>7 DEF above

\* Row number 1 is the latest publish of its slot, in either query.
LEMMA RankOneIsLatest ==
    ASSUME NEW rows, Table(rows), NEW r \in rows
    PROVE  RowNumber(rows, r) = 1 <=> \A q \in rows : q.slot = r.slot => q.publish <= r.publish
<1>1. RowNumber(rows, r) = Cardinality(Above(rows, r)) + 1
  BY DEF RowNumber, Ahead, Above
<1> QED
  BY <1>1, NoneAboveIsLatest

LEMMA ErrorRankOneIsLatest ==
    ASSUME NEW rows, Table(rows), NEW r \in rows
    PROVE  ErrorRowNumber(rows, r) = 1
              <=> \A q \in rows : q.slot = r.slot => q.publish <= r.publish
<1>1. ErrorRowNumber(rows, r) = Cardinality(Above(rows, r)) + 1
  BY DEF ErrorRowNumber, Above
<1> QED
  BY <1>1, NoneAboveIsLatest

\* Among the rows of a slot there is a latest one.
LEMMA LatestExists ==
    ASSUME NEW rows, Table(rows), NEW cutoff \in Int,
           NEW r \in rows, \A q \in rows : q.slot = r.slot => q.publish <= cutoff
    PROVE  \E q \in rows : /\ q.slot = r.slot
                           /\ \A p \in rows : p.slot = r.slot => p.publish <= q.publish
<1> DEFINE ages == {n \in Nat : \E q \in rows : q.slot = r.slot /\ n = cutoff - q.publish}
           less == {p \in Nat \X Nat : p[1] < p[2]}
<1>0. \A q \in rows : q.publish \in Int
  BY RowTyped DEF Table
<1>1. \A q \in rows : q.slot = r.slot => cutoff - q.publish \in ages
  BY <1>0
<1>2. ages # {} /\ ages \subseteq Nat
  BY <1>1
<1>3. IsWellFoundedOn(less, Nat)
  <2>1. IsWellFoundedOn(OpToRel(<, Nat), Nat)
    BY NatLessThanWellFounded
  <2>2. OpToRel(<, Nat) = less
    BY DEF OpToRel
  <2> QED
    BY <2>1, <2>2
<1>4. PICK n \in ages : \A m \in ages : ~(<<m, n>> \in less)
  BY <1>2, <1>3, WFMin
<1>5. PICK q \in rows : q.slot = r.slot /\ n = cutoff - q.publish
  BY <1>4
<1>6. ASSUME NEW p \in rows, p.slot = r.slot
      PROVE  p.publish <= q.publish
  <2>1. cutoff - p.publish \in ages /\ cutoff - p.publish \in Nat
    BY <1>1, <1>2, <1>6
  <2>2. ~(cutoff - p.publish < n)
    BY <1>2, <1>4, <2>1
  <2> QED
    BY <1>0, <1>5, <2>2
<1> QED
  BY <1>5, <1>6

-----------------------------------------------------------------------------
(* The queries *)

LEMMA CandidateIff ==
    ASSUME NEW rows, Table(rows), NEW from, NEW to, NEW h \in Horizons, NEW r \in rows
    PROVE  r \in Candidates(rows, from, to, h)
              <=> from <= r.slot /\ r.slot <= to /\ r.publish + h <= r.slot
<1>1. r.slot \in Int /\ r.publish \in Int /\ h \in Int
  BY RowTyped, HorizonAssumption DEF Table
<1> QED
  BY <1>1 DEF Candidates, InRange, Eligible

LEMMA ForecastIff ==
    ASSUME NEW rows, Table(rows), NEW from, NEW to, NEW h
    PROVE  LET c == Candidates(rows, from, to, h) IN
           HorizonForecast(rows, from, to, h)
               = {r \in c : \A q \in c : q.slot = r.slot => q.publish <= r.publish}
<1> DEFINE c == Candidates(rows, from, to, h)
<1>1. Table(c)
  BY CandidatesTable
<1>2. \A r \in c : RowNumber(c, r) = 1 <=> \A q \in c : q.slot = r.slot => q.publish <= r.publish
  BY <1>1, RankOneIsLatest
<1> QED
  BY <1>2 DEF HorizonForecast

LEMMA SelectionIsLatest ==
    ASSUME NEW rows, Table(rows), NEW from, NEW to, NEW h \in Horizons
    PROVE  HorizonForecast(rows, from, to, h) = LatestEligible(rows, from, to, h)
<1> DEFINE c == Candidates(rows, from, to, h)
<1>1. c \subseteq rows
  BY CandidatesTable
<1>2. \A r \in rows : r \in c <=> from <= r.slot /\ r.slot <= to /\ r.publish + h <= r.slot
  BY CandidateIff
<1>3. HorizonForecast(rows, from, to, h)
         = {r \in c : \A q \in c : q.slot = r.slot => q.publish <= r.publish}
  BY ForecastIff
<1> HIDE DEF c
<1>4. {r \in c : \A q \in c : q.slot = r.slot => q.publish <= r.publish}
         = LatestEligible(rows, from, to, h)
  BY <1>1, <1>2 DEF LatestEligible
<1> QED
  BY <1>3, <1>4

\* The metrics' own copy of the selection makes the same promise.
LEMMA BestIsLatest ==
    ASSUME NEW rows, Table(rows), NEW from, NEW to, NEW h \in Horizons
    PROVE  BestForecast(rows, from, to, h) = LatestEligible(rows, from, to, h)
<1> DEFINE c == ErrorCandidates(rows, from, to, h)
<1>1. c \subseteq rows
  BY DEF ErrorCandidates
<1>2. \A r \in rows : r \in c <=> from <= r.slot /\ r.slot <= to /\ r.publish + h <= r.slot
  <2> SUFFICES ASSUME NEW r \in rows
               PROVE  r.publish <= r.slot - h <=> r.publish + h <= r.slot
    BY DEF ErrorCandidates
  <2>1. r.slot \in Int /\ r.publish \in Int /\ h \in Int
    BY RowTyped, HorizonAssumption DEF Table
  <2> QED
    BY <2>1
<1>3. Table(c)
  <2>1. IsFiniteSet(c)
    BY <1>1, FS_Subset DEF Table
  <2> HIDE DEF c
  <2> QED
    BY <1>1, <2>1 DEF Table, ForecastsKeyed
<1>4. BestForecast(rows, from, to, h) = {r \in c : ErrorRowNumber(c, r) = 1}
  BY DEF BestForecast
<1> HIDE DEF c
<1>5. \A r \in c : ErrorRowNumber(c, r) = 1
                      <=> \A q \in c : q.slot = r.slot => q.publish <= r.publish
  BY <1>3, ErrorRankOneIsLatest
<1>6. {r \in c : \A q \in c : q.slot = r.slot => q.publish <= r.publish}
         = LatestEligible(rows, from, to, h)
  BY <1>1, <1>2 DEF LatestEligible
<1> QED
  BY <1>4, <1>5, <1>6

LEMMA EachSlotOnce ==
    ASSUME NEW rows, Table(rows), NEW from, NEW to, NEW h \in Horizons
    PROVE  LET answer == HorizonForecast(rows, from, to, h) IN
           /\ \A r, q \in answer : r.slot = q.slot => r = q
           /\ \A r \in Candidates(rows, from, to, h) : \E q \in answer : q.slot = r.slot
<1> DEFINE c == Candidates(rows, from, to, h)
           answer == HorizonForecast(rows, from, to, h)
<1>1. Table(c) /\ c \subseteq rows
  BY CandidatesTable
<1>2. answer = {r \in c : \A q \in c : q.slot = r.slot => q.publish <= r.publish}
  BY ForecastIff
<1>3. \A r \in c : r.slot \in Int /\ r.publish \in Int /\ r.publish + h <= r.slot
  BY <1>1, CandidateIff, RowTyped DEF Table
<1>4. h \in Int
  BY HorizonAssumption
<1> HIDE DEF c, answer
<1>5. \A r, q \in answer : r.slot = q.slot => r = q
  <2> SUFFICES ASSUME NEW r \in answer, NEW q \in answer, r.slot = q.slot
               PROVE  r = q
    OBVIOUS
  <2>1. r \in c /\ q \in c /\ r.publish <= q.publish /\ q.publish <= r.publish
    BY <1>2
  <2>2. r.publish = q.publish
    BY <1>3, <2>1
  <2> QED
    BY <1>1, <2>1, <2>2 DEF Table, ForecastsKeyed, SameForecastKey
<1>6. ASSUME NEW r \in c
      PROVE  \E q \in answer : q.slot = r.slot
  <2>1. \A q \in c : q.slot = r.slot => q.publish <= r.slot - h
    BY <1>3, <1>4
  <2>2. r.slot - h \in Int
    BY <1>3, <1>4
  <2>3. \E q \in c : /\ q.slot = r.slot
                    /\ \A p \in c : p.slot = r.slot => p.publish <= q.publish
    BY <1>1, <2>1, <2>2, LatestExists
  <2> QED
    BY <1>2, <2>3
<1> QED
  BY <1>5, <1>6 DEF c, answer

LEMMA LongerIsOlder ==
    ASSUME NEW rows, Table(rows), NEW from, NEW to,
           NEW h1 \in Horizons, NEW h2 \in Horizons, h1 <= h2,
           NEW r \in HorizonForecast(rows, from, to, h2)
    PROVE  \E q \in HorizonForecast(rows, from, to, h1) :
              q.slot = r.slot /\ q.publish >= r.publish
<1>1. r \in Candidates(rows, from, to, h2) /\ r \in rows
  BY CandidatesTable DEF HorizonForecast
<1>2. r.slot \in Int /\ r.publish \in Int /\ h1 \in Int /\ h2 \in Int
  BY <1>1, RowTyped, HorizonAssumption DEF Table
<1>3. from <= r.slot /\ r.slot <= to /\ r.publish + h2 <= r.slot
  BY <1>1, CandidateIff
<1>4. r \in Candidates(rows, from, to, h1)
  <2>1. r.publish + h1 <= r.slot
    BY <1>2, <1>3
  <2> QED
    BY <1>1, <1>3, <2>1, CandidateIff
<1>5. PICK q \in HorizonForecast(rows, from, to, h1) : q.slot = r.slot
  BY <1>4, EachSlotOnce
<1>6. q \in Candidates(rows, from, to, h1) /\ q \in rows /\ r.publish <= q.publish
  BY <1>4, <1>5, ForecastIff, CandidatesTable
<1>7. q.publish \in Int
  BY <1>6, RowTyped DEF Table
<1> QED
  BY <1>2, <1>5, <1>6, <1>7

\* The answer depends on the candidates only.
LEMMA SameCandidatesSameAnswer ==
    ASSUME NEW rows, NEW others, NEW from, NEW to, NEW h,
           Candidates(rows, from, to, h) = Candidates(others, from, to, h)
    PROVE  HorizonForecast(rows, from, to, h) = HorizonForecast(others, from, to, h)
BY DEF HorizonForecast

-----------------------------------------------------------------------------
(* What follows *)

LEMMA TypeOKTable == TypeOK => Table(forecasts)
BY DEF TypeOK, Table

\* Every answer, in every reachable table, is exactly the latest forecasts
\* published at least the horizon before their targets.
THEOREM AlwaysLatestEligible == Spec => []SelectsLatestEligible
<1>1. TypeOK => SelectsLatestEligible
  BY TypeOKTable, SelectionIsLatest DEF SelectsLatestEligible
<1> QED
  BY <1>1, TypeCorrect, PTL

\* A slot with a candidate is answered, and once.
THEOREM AlwaysEachSlotOnce == Spec => []AnswersEachSlotOnce
<1>1. TypeOK => AnswersEachSlotOnce
  BY TypeOKTable, EachSlotOnce DEF AnswersEachSlotOnce
<1> QED
  BY <1>1, TypeCorrect, PTL

\* Raising the horizon never finds a new slot nor a later forecast.
THEOREM AlwaysLongerIsOlder == Spec => []LongerHorizonIsOlder
<1>1. TypeOK => LongerHorizonIsOlder
  BY TypeOKTable, LongerIsOlder DEF LongerHorizonIsOlder
<1> QED
  BY <1>1, TypeCorrect, PTL

\* Both copies of the selection SQL choose the latest eligible forecasts, so the
\* metrics are computed from the very forecasts the chart shows.
THEOREM MetricsAlwaysMatchChart == Spec => []MetricsMatchChart
<1>1. TypeOK => MetricsMatchChart
  <2> SUFFICES ASSUME TypeOK, NEW from \in Slots, NEW to \in Slots, NEW h \in Horizons,
                      NEW s \in Slots, NEW x \in Powers, NEW y \in Powers
               PROVE  [slot |-> s, actual |-> x, forecast |-> y]
                         \in ForecastErrors(forecasts, actuals, from, to, h)
                      <=> /\ [slot |-> s, mw |-> x] \in actuals
                          /\ \E r \in HorizonForecast(forecasts, from, to, h) :
                                r.slot = s /\ r.mw = y
    BY DEF MetricsMatchChart
  <2> DEFINE shown == HorizonForecast(forecasts, from, to, h)
  <2>0. BestForecast(forecasts, from, to, h) = shown
    BY TypeOKTable, SelectionIsLatest, BestIsLatest
  <2>1. \A r \in shown : from <= r.slot /\ r.slot <= to
    BY DEF HorizonForecast, Candidates, InRange
  <2> HIDE DEF shown
  <2>2. ASSUME NEW a \in actuals, NEW r \in shown, a.slot = r.slot,
               [slot |-> s, actual |-> x, forecast |-> y]
                  = [slot |-> a.slot, actual |-> a.mw, forecast |-> r.mw]
        PROVE  [slot |-> s, mw |-> x] \in actuals /\ r.slot = s /\ r.mw = y
    <3>1. s = a.slot /\ x = a.mw /\ y = r.mw
      BY <2>2
    <3>2. a = [slot |-> a.slot, mw |-> a.mw]
      BY DEF TypeOK, ActualRows
    <3> QED
      BY <2>2, <3>1, <3>2
  <2>3. ASSUME [slot |-> s, mw |-> x] \in actuals, NEW r \in shown, r.slot = s, r.mw = y
        PROVE  [slot |-> s, actual |-> x, forecast |-> y] \in Joined(actuals, shown, from, to)
    <3> DEFINE p == <<[slot |-> s, mw |-> x], r>>
    <3>1. p \in actuals \X shown /\ from <= p[1].slot /\ p[1].slot <= to /\ p[1].slot = p[2].slot
      BY <2>1, <2>3
    <3>2. [slot |-> s, actual |-> x, forecast |-> y]
             = [slot |-> p[1].slot, actual |-> p[1].mw, forecast |-> p[2].mw]
      BY <2>3
    <3> HIDE DEF p
    <3> QED
      BY <3>1, <3>2 DEF Joined
  <2>4. ASSUME [slot |-> s, actual |-> x, forecast |-> y] \in Joined(actuals, shown, from, to)
        PROVE  [slot |-> s, mw |-> x] \in actuals /\ \E r \in shown : r.slot = s /\ r.mw = y
    <3>1. PICK p \in actuals \X shown :
            /\ p[1].slot = p[2].slot
            /\ [slot |-> s, actual |-> x, forecast |-> y]
                 = [slot |-> p[1].slot, actual |-> p[1].mw, forecast |-> p[2].mw]
      BY <2>4 DEF Joined
    <3>2. p[1] \in actuals /\ p[2] \in shown
      OBVIOUS
    <3> QED
      BY <2>2, <3>1, <3>2
  <2> QED
    BY <2>0, <2>3, <2>4 DEF ForecastErrors, shown
<1> QED
  BY <1>1, TypeCorrect, PTL

\* Rows published after the cutoff change no answer.
THEOREM HindsightNeverCounts == Spec => HindsightChangesNothing
<1> DEFINE Unmoved ==
      \A from, to \in Slots, h \in Horizons :
        (\A r \in (forecasts' \ forecasts) \cup (forecasts \ forecasts') : ~(r.publish + h <= r.slot)) =>
            HorizonForecast(forecasts', from, to, h) = HorizonForecast(forecasts, from, to, h)
<1>1. TypeOK /\ TypeOK' => Unmoved
  <2> SUFFICES ASSUME TypeOK, TypeOK', NEW from \in Slots, NEW to \in Slots, NEW h \in Horizons,
                      \A r \in (forecasts' \ forecasts) \cup (forecasts \ forecasts') :
                         ~(r.publish + h <= r.slot)
               PROVE  HorizonForecast(forecasts', from, to, h) = HorizonForecast(forecasts, from, to, h)
    OBVIOUS
  <2>1. Table(forecasts) /\ Table(forecasts')
    BY DEF TypeOK, Table
  <2>2. \A r \in forecasts : r \in Candidates(forecasts, from, to, h)
           <=> from <= r.slot /\ r.slot <= to /\ r.publish + h <= r.slot
    BY <2>1, CandidateIff
  <2>3. \A r \in forecasts' : r \in Candidates(forecasts', from, to, h)
           <=> from <= r.slot /\ r.slot <= to /\ r.publish + h <= r.slot
    BY <2>1, CandidateIff
  <2>4. Candidates(forecasts', from, to, h) = Candidates(forecasts, from, to, h)
    BY <2>1, <2>2, <2>3, CandidatesTable
  <2> QED
    BY <2>4, SameCandidatesSameAnswer
<1>2. TypeOK /\ TypeOK' /\ [Next]_vars => [Unmoved]_vars
  BY <1>1
<1> QED
  BY <1>2, TypeCorrect, PTL DEF Spec, HindsightChangesNothing

-----------------------------------------------------------------------------
(* ForecastCoverage: the windows of the days ingested *)

\* The table is the union of the ingested windows.
TableIsWindows ==
    forecasts = {r \in published : \E day \in ingested : r.publish \in PublishWindow(day)}

CoverageInv == CoverageTypeOK /\ TableIsWindows

LEMMA CoverageInitInv == CoverageInit => CoverageInv
BY InitTyped DEF CoverageInit, Init, CoverageInv, CoverageTypeOK, TableIsWindows

LEMMA IngestDayInv ==
    ASSUME CoverageInv, NEW day \in DaysOfData, IngestDay(day)
    PROVE  CoverageInv'
<1> DEFINE frame == WindowRows(day)
<1>1. UNCHANGED <<published, actuals>> /\ ingested' = ingested \cup {day}
      /\ forecasts' = ForecastsUpserted(frame)
  BY DEF IngestDay, LoadForecasts
<1>2. frame \subseteq published
  BY DEF WindowRows
<1>3. TableIsWindows'
  <2>1. forecasts' = forecasts \cup frame
    <3>1. \A r \in forecasts, q \in frame : SameForecastKey(r, q) => r = q
      BY <1>2 DEF CoverageInv, CoverageTypeOK, TableIsWindows, ForecastsKeyed
    <3> QED
      BY <1>1, <3>1 DEF ForecastsUpserted
  <2>2. frame = {r \in published : r.publish \in PublishWindow(day)}
    BY DEF WindowRows
  <2> HIDE DEF frame
  <2> QED
    BY <1>1, <2>1, <2>2 DEF CoverageInv, TableIsWindows, PublishWindow
<1>4. TypeOK'
  <2>1. forecasts' \subseteq published
    BY <1>1, <1>3 DEF TableIsWindows
  <2>2. IsFiniteSet(forecasts') /\ ForecastsKeyed(forecasts')
    BY <2>1, FS_Subset DEF CoverageInv, CoverageTypeOK, ForecastsKeyed
  <2> QED
    BY <1>1, <2>1, <2>2 DEF CoverageInv, CoverageTypeOK, TypeOK, ActualsKeyed
<1> QED
  BY <1>1, <1>3, <1>4 DEF CoverageInv, CoverageTypeOK, ForecastsKeyed

LEMMA CoverageNextInv == CoverageInv /\ [CoverageNext]_allVars => CoverageInv'
<1>1. ASSUME CoverageInv, UNCHANGED allVars
      PROVE  CoverageInv'
  BY <1>1 DEF allVars, CoverageInv, CoverageTypeOK, TypeOK, TableIsWindows,
              ForecastsKeyed, ActualsKeyed
<1> QED
  BY <1>1, IngestDayInv DEF CoverageNext

LEMMA CoverageHolds == CoverageSpec => []CoverageInv
BY CoverageInitInv, CoverageNextInv, PTL DEF CoverageSpec

\* A right answer is given just when some ingested window holds it: a row that
\* the table lacks, or has beside it, never gets another one chosen.
LEMMA GivenIffIngested ==
    ASSUME CoverageInv, NEW from, NEW to, NEW h \in Horizons,
           NEW r \in HorizonForecast(published, from, to, h)
    PROVE  /\ r \in LatestEligible(published, from, to, h) /\ r \in published
           /\ r.publish \in Int
           /\ r \in HorizonForecast(forecasts, from, to, h)
                <=> \E day \in ingested : r.publish \in PublishWindow(day)
<1>1. Table(published) /\ Table(forecasts) /\ forecasts \subseteq published
  BY DEF CoverageInv, CoverageTypeOK, TypeOK, Table, TableIsWindows
<1>2. r \in LatestEligible(published, from, to, h) /\ r \in published
  BY <1>1, SelectionIsLatest DEF LatestEligible
<1>3. r.publish \in Int
  BY <1>1, <1>2, RowTyped DEF Table
<1>4. r \in forecasts <=> \E day \in ingested : r.publish \in PublishWindow(day)
  BY <1>2 DEF CoverageInv, TableIsWindows
<1>5. r \in LatestEligible(forecasts, from, to, h) <=> r \in forecasts
  BY <1>1, <1>2 DEF LatestEligible
<1> QED
  BY <1>1, <1>2, <1>3, <1>4, <1>5, SelectionIsLatest

LEMMA WindowTyped ==
    ASSUME NEW day \in DaysOfData
    PROVE  DayStart(day) - LookBack * DayLength \in Int /\ DayEnd(day) \in Int
BY CalendarAssumption DEF DaysOfData, DayStart, DayEnd

\* Whatever batches fail, a right answer lying in one ingested window is given.
THEOREM OneWindowAlwaysEnough == CoverageSpec => []OneWindowIsEnough
<1>1. CoverageInv => OneWindowIsEnough
  <2> SUFFICES ASSUME CoverageInv, NEW from \in Slots, NEW to \in Slots, NEW h \in Horizons,
                      NEW r \in HorizonForecast(published, from, to, h),
                      NEW day \in ingested,
                      DayStart(day) - LookBack * DayLength <= r.publish, r.publish <= DayEnd(day)
               PROVE  r \in HorizonForecast(forecasts, from, to, h)
    BY DEF OneWindowIsEnough
  <2>1. day \in DaysOfData
    BY DEF CoverageInv, CoverageTypeOK
  <2>2. r.publish \in PublishWindow(day)
    BY <2>1, GivenIffIngested, WindowTyped DEF PublishWindow
  <2> QED
    BY <2>2, GivenIffIngested
<1> QED
  BY <1>1, CoverageHolds, PTL

\* The windows of all days leave no gap from the start of the first one to the
\* end of the period.
LEMMA WindowsCover ==
    ASSUME NEW p \in Int, p <= DayEnd(NumDays)
    PROVE  (\E day \in DaysOfData : p \in PublishWindow(day))
              <=> p >= DayStart(1) - LookBack * DayLength
<1> DEFINE reach == LookBack * DayLength
           after == {day \in DaysOfData : p <= DayEnd(day)}
<1>1. /\ NumDays \in Nat /\ NumDays >= 1 /\ DayLength \in Nat /\ DayLength >= 1
      /\ reach \in Nat
  BY CalendarAssumption
<1>2. \A day \in DaysOfData : DayStart(day) \in Nat /\ DayStart(day) >= DayStart(1)
  <2> SUFFICES ASSUME NEW day \in DaysOfData
               PROVE  DayStart(day) \in Nat /\ DayStart(day) >= DayStart(1)
    OBVIOUS
  <2>1. day - 1 \in Nat
    BY <1>1 DEF DaysOfData
  <2>2. (day - 1) * DayLength \in Nat /\ (1 - 1) * DayLength = 0
    BY <1>1, <2>1
  <2> QED
    BY <2>2 DEF DayStart
<1>3. 1 \in DaysOfData /\ NumDays \in DaysOfData /\ \A day \in DaysOfData : day \in Nat
  BY <1>1 DEF DaysOfData
<1>4. ASSUME NEW day \in DaysOfData, p \in PublishWindow(day)
      PROVE  p >= DayStart(1) - reach
  <2>1. p >= DayStart(day) - reach
    BY <1>4, WindowTyped DEF PublishWindow
  <2> HIDE DEF reach
  <2> QED
    BY <1>1, <1>2, <1>3, <1>4, <2>1
<1>5. ASSUME p >= DayStart(1) - reach
      PROVE  \E day \in DaysOfData : p \in PublishWindow(day)
  <2>1. after \in SUBSET Nat /\ NumDays \in after
    BY <1>3
  <2>2. PICK day \in after : \A d \in after : day <= d
    BY <2>1, LeastNat
  <2>3. DayStart(day) - reach <= p
    <3>1. CASE day = 1
      BY <1>5, <3>1
    <3>2. CASE day # 1
      <4>1. day - 1 \in DaysOfData /\ day - 1 \notin after
        BY <1>1, <2>2, <3>2 DEF DaysOfData
      <4>2. ~(p <= DayEnd(day - 1)) /\ DayEnd(day - 1) \in Int
        BY <4>1, WindowTyped
      <4>3. DayEnd(day - 1) = DayStart(day) - 1
        BY DEF DayEnd, DayStart
      <4> HIDE DEF reach
      <4> QED
        BY <1>1, <1>2, <2>2, <4>2, <4>3
    <3> QED
      BY <3>1, <3>2
  <2> QED
    BY <2>2, <2>3, WindowTyped DEF PublishWindow
<1> QED
  BY <1>4, <1>5

\* When every day has succeeded once, in whatever order and run, the answers
\* still missing are exactly those published before the first window.
THEOREM OnlyEarlyEverMissed == CoverageSpec => []OnlyEarlyPublishesMissed
<1>1. CoverageInv => OnlyEarlyPublishesMissed
  <2> SUFFICES ASSUME CoverageInv, ingested = DaysOfData,
                      NEW from \in Slots, NEW to \in Slots, NEW h \in Horizons,
                      to <= DayEnd(NumDays),
                      NEW r \in HorizonForecast(published, from, to, h)
               PROVE  r \in HorizonForecast(forecasts, from, to, h)
                        <=> r.publish >= DayStart(1) - LookBack * DayLength
    BY DEF OnlyEarlyPublishesMissed
  <2>1. r \in HorizonForecast(forecasts, from, to, h)
          <=> \E day \in DaysOfData : r.publish \in PublishWindow(day)
    BY GivenIffIngested
  <2>2. /\ r \in Candidates(published, from, to, h) /\ r \in published
        /\ r.publish \in Int
    <3>1. Table(published)
      BY DEF CoverageInv, CoverageTypeOK, Table
    <3> QED
      BY <3>1, GivenIffIngested, ForecastIff
  <2>3. r.publish <= DayEnd(NumDays)
    <3>1. Table(published)
      BY DEF CoverageInv, CoverageTypeOK, Table
    <3>2. r.slot <= to /\ r.publish + h <= r.slot
      BY <2>2, <3>1, CandidateIff
    <3>3. r.slot \in Int /\ to \in Int /\ h \in Nat
      BY <2>2, <3>1, RowTyped, TimeAssumption, HorizonAssumption DEF Table
    <3>4. DayEnd(NumDays) \in Int
      BY CalendarAssumption DEF DayEnd
    <3> QED
      BY <2>2, <3>2, <3>3, <3>4
  <2> QED
    BY <2>1, <2>2, <2>3, WindowsCover
<1> QED
  BY <1>1, CoverageHolds, PTL
=============================================================================
