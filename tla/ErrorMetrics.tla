---------------------------- MODULE ErrorMetrics ----------------------------
(***************************************************************************)
(* The numbers of /metrics: compute_error_metrics, compute_hourly_errors   *)
(* and get_reliability_metrics of backend/services/forecast_processor.py,  *)
(* over the slots of the selected window.                                  *)
(*                                                                         *)
(* A slot is of a kind: its hour, its actual generation and the forecast   *)
(* HorizonSelection chose for it, None where there is none; `slots` says   *)
(* how many of each kind the window holds.  Generation is in whole MW.     *)
(* Quotients are kept as numerator and denominator, and roots as squares,  *)
(* so that the formulas are exact; the final rounding to two decimals and  *)
(* the constant factor of capacity_factor are left out.  For the samples   *)
(* of a month, int(n * 0.99) in floating point is (n * 99) \div 100.       *)
(* DuckDB's PERCENTILE_CONT, MEDIAN and MAX are external.                  *)
(***************************************************************************)
EXTENDS Integers, SequencesExt

CONSTANTS
    Kinds,        \* the kinds of slots: [hour, actual, forecast]
    None,         \* no forecast was published in time
    Blocks,       \* how many slots of one kind a load adds at a time
    MaxLoads      \* bound: loads into the window

ASSUME KindsAssumption ==
    /\ IsFiniteSet(Kinds)
    /\ \A k \in Kinds :
        /\ k.hour \in 0..23
        /\ k.actual \in Nat
        /\ k.forecast \in Nat \cup {None}
ASSUME BlocksAssumption == Blocks \subseteq Nat \ {0} /\ MaxLoads \in Nat

VARIABLES
    slots,        \* slots[k]: the number of slots of kind k
    loads         \* bound counter

vars == <<slots, loads>>

-----------------------------------------------------------------------------
(* The samples *)

\* The slots of these kinds, counted; and what of[k] comes to over all of them.
Count(kinds) == SumFunctionOnSet(slots, kinds)
SumOver(of, kinds) == SumFunctionOnSet([k \in DOMAIN of |-> slots[k] * of[k]], kinds)

\* The inner join: slots with a forecast.
Joined == {k \in Kinds : k.forecast # None}

\* ABS(forecast - actual).  Faulty: the sign is kept.
Signed(k) == k.forecast - k.actual
AbsError(k) == IF k.forecast < k.actual THEN k.actual - k.forecast ELSE k.forecast - k.actual

\* The values of[k] of the slots, sorted: the i-th is the least value that i of
\* them do not exceed.  Faulty: sorted the other way.
Descending(of) ==
    LET atLeast == [v \in Range(of) |-> Count({k \in DOMAIN of : of[k] >= v})]
    IN [i \in 1..Count(DOMAIN of) |-> Max({v \in Range(of) : atLeast[v] >= i})]
Ascending(of) ==
    LET atMost == [v \in Range(of) |-> Count({k \in DOMAIN of : of[k] <= v})]
    IN [i \in 1..Count(DOMAIN of) |-> Min({v \in Range(of) : atMost[v] >= i})]

Errors == [k \in Joined |-> AbsError(k)]
Actuals == [k \in Kinds |-> k.actual]
AbsErrors == Ascending(Errors)
Generation == Ascending(Actuals)

Total(kinds) == SumOver(Errors, kinds)
Squares == SumOver([k \in Joined |-> AbsError(k) * AbsError(k)], Joined)
Generated == SumOver(Actuals, Kinds)

-----------------------------------------------------------------------------
(* compute_error_metrics, for a sorted sample s; Python's index i is i + 1 *)

\* Twice the median.
TwiceMedian(s) ==
    LET mid == Len(s) \div 2 IN
    IF Len(s) % 2 = 1 THEN 2 * s[mid + 1] ELSE s[mid] + s[mid + 1]

\* min(int(n * 0.99), n - 1).  Faulty: the index of the next percentile down.
IndexOfP98(n) == (n * 98) \div 100
IndexOfP99(n) == LET i == (n * 99) \div 100 IN IF i < n - 1 THEN i ELSE n - 1

P99(s) == s[IndexOfP99(Len(s)) + 1]

NoMetrics == [mae |-> <<0, 1>>, twiceMedian |-> 0, p99 |-> 0, mse |-> <<0, 1>>, samples |-> 0]

ErrorStats ==
    LET s == AbsErrors
        n == Len(s)
    IN IF n = 0 THEN NoMetrics
       ELSE [mae |-> <<Total(Joined), n>>, twiceMedian |-> TwiceMedian(s), p99 |-> P99(s),
             mse |-> <<Squares, n>>, samples |-> n]

\* compute_hourly_errors.  Faulty: hour 0 is taken for a missing one.
InHourTruthy(h) == {k \in Joined : h # 0 /\ k.hour = h}
InHour(h) == {k \in Joined : k.hour = h}

HourlyStats ==
    [h \in 0..23 |-> [total |-> Total(InHour(h)), samples |-> Count(InHour(h))]]

-----------------------------------------------------------------------------
(* get_reliability_metrics *)

\* Ten times the continuous percentile of s at q tenths.
TenTimesPercentile(s, q) ==
    LET at == q * (Len(s) - 1)
        low == at \div 10 + 1
        part == at % 10
    IN IF part = 0 THEN 10 * s[low] ELSE (10 - part) * s[low] + part * s[low + 1]

\* PERCENTILE_CONT(0.10) WITHIN GROUP (ORDER BY generation_mw).
\* Faulty: ORDER BY ... DESC.
P10Descending(s) == TenTimesPercentile(s, 9)
P10(s) == TenTimesPercentile(s, 1)

NoReliability == [p10 |-> 0, p20 |-> 0, mean |-> <<0, 1>>, median |-> 0, maximum |-> 0]

Reliability ==
    LET s == Generation
        n == Len(s)
    IN IF n = 0 THEN NoReliability
       ELSE [p10 |-> P10(s), p20 |-> TenTimesPercentile(s, 2),
             mean |-> <<Generated, n>>,
             median |-> TenTimesPercentile(s, 5), maximum |-> s[n]]

-----------------------------------------------------------------------------
Init == slots = [k \in Kinds |-> 0] /\ loads = 0

\* A load stores n more slots of kind k.
Store(k, n) ==
    /\ loads < MaxLoads
    /\ loads' = loads + 1
    /\ slots' = [slots EXCEPT ![k] = @ + n]

\* A load replaces what a slot held.
Replace(k, l) ==
    /\ loads < MaxLoads
    /\ loads' = loads + 1
    /\ k # l /\ slots[k] > 0
    /\ k.hour = l.hour
    /\ slots' = [slots EXCEPT ![k] = @ - 1, ![l] = @ + 1]

Next ==
    \/ \E k \in Kinds, n \in Blocks : Store(k, n)
    \/ \E k, l \in Kinds : Replace(k, l)

Spec == Init /\ [][Next]_vars

-----------------------------------------------------------------------------
(* Properties *)

Positions(s, Test(_)) == {i \in DOMAIN s : Test(s[i])}

SortedSample(s) ==
    s \in Seq(Nat) /\ \A i \in 1..Len(s) : \A j \in i..Len(s) : s[i] <= s[j]

\* s holds the values of[k], each as often as there are slots with it.
Holds(s, of) ==
    /\ \A i \in DOMAIN s : s[i] \in Range(of)
    /\ \A v \in Range(of) :
         Cardinality({i \in DOMAIN s : s[i] = v}) = Count({k \in DOMAIN of : of[k] = v})

\* Types; the samples the indices go into are sorted and hold every slot of the
\* window once (forecast_processor.py:168, 236-240).
TypeOK ==
    /\ slots \in [Kinds -> Nat] /\ loads \in 0..MaxLoads
    /\ SortedSample(AbsErrors) /\ SortedSample(Generation)
    /\ Holds(AbsErrors, Errors) /\ Holds(Generation, Actuals)

\* p99_error is a 99th percentile of the absolute errors at every sample size,
\* also below a hundred: at least 99% of them are no larger, and at most 99%
\* are smaller.  The median has half of them on either side, itself included,
\* at even and odd sizes (forecast_processor.py:172-175).
PercentilesSplitSample ==
    LET s == AbsErrors
        n == Len(s)
        p == ErrorStats.p99
        m == ErrorStats.twiceMedian
    IN n > 0 =>
        /\ 100 * Cardinality(Positions(s, LAMBDA e : e <= p)) >= 99 * n
        /\ 100 * Cardinality(Positions(s, LAMBDA e : e < p)) <= 99 * n
        /\ 2 * Cardinality(Positions(s, LAMBDA e : 2 * e <= m)) >= n
        /\ 2 * Cardinality(Positions(s, LAMBDA e : 2 * e >= m)) >= n

\* The four error figures agree with each other: median and mean lie below the
\* largest error, median below p99, MAE below RMSE, and no systematic bias is
\* larger than the MAE (forecast_processor.py:171-176).
FiguresAgree ==
    LET s == AbsErrors
        n == Len(s)
        m == ErrorStats
        bias == SumOver([k \in Joined |-> Signed(k)], Joined)
    IN n > 0 =>
        /\ m.twiceMedian <= 2 * m.p99
        /\ m.p99 <= s[n] /\ m.mae[1] <= n * s[n]
        /\ m.mae[1] * m.mae[1] <= n * m.mse[1]
        /\ bias <= m.mae[1] /\ -bias <= m.mae[1]

\* The breakdown by hour is one of the same sample: its counts and its sums of
\* errors add up to those of the aggregate, and an empty window has neither samples
\* nor error (forecast_processor.py:159-166, 199-211).
HourlyAddsUp ==
    /\ SumFunction([h \in 0..23 |-> HourlyStats[h].samples]) = ErrorStats.samples
    /\ SumFunction([h \in 0..23 |-> HourlyStats[h].total]) = ErrorStats.mae[1]

\* "P10: 90% of the time, generation exceeds this level", "P20: 80%..."
\* (forecast_processor.py:223-224): as the percentiles interpolate, generation
\* reaches the levels that often up to one slot, and they are in order.
LevelsAreReliable ==
    LET s == Generation
        n == Len(s)
        r == Reliability
    IN /\ 10 * Cardinality(Positions(s, LAMBDA g : 10 * g >= r.p10)) >= 9 * (n - 1)
       /\ 10 * Cardinality(Positions(s, LAMBDA g : 10 * g >= r.p20)) >= 8 * (n - 1)
       /\ r.p10 <= r.p20 /\ r.p20 <= r.median /\ r.median <= 10 * r.maximum
=============================================================================
