------------------------- MODULE ErrorMetricsProofs -------------------------
(***************************************************************************)
(* Every invariant of ErrorMetrics, for any kinds of slots and any number  *)
(* of each: the order statistics of Ascending are the sorted sample, the   *)
(* code's indices pick the percentiles out of it at every size, and sums   *)
(* over the slots relate the figures.  What sums compute is in             *)
(* RecursionLemmas.                                                        *)
(***************************************************************************)
EXTENDS ErrorMetrics, RecursionLemmas

\* Python's int(n * 99 / 100) cut off at n - 1 is an index, and splits n at 99%.
LEMMA IndexSplits ==
    ASSUME NEW n \in Nat \ {0}
    PROVE  /\ IndexOfP99(n) \in 0..(n - 1)
           /\ 100 * (IndexOfP99(n) + 1) >= 99 * n
           /\ 100 * IndexOfP99(n) <= 99 * n
<1> DEFINE i == (n * 99) \div 100
<1>1. i \in Nat /\ 100 * i <= 99 * n /\ 99 * n < 100 * (i + 1)
  OBVIOUS
<1> HIDE DEF i
<1>2. IndexOfP99(n) = IF i < n - 1 THEN i ELSE n - 1
  BY DEF IndexOfP99, i
<1>3. CASE i < n - 1
  BY <1>1, <1>2, <1>3
<1>4. CASE ~(i < n - 1)
  BY <1>1, <1>2, <1>4
<1> QED
  BY <1>3, <1>4

\* Sets of positions are counted by the intervals they lie between.
LEMMA CountPositions ==
    ASSUME NEW n \in Nat, NEW P \in SUBSET (1..n), NEW a \in 0..n
    PROVE  /\ 1..a \subseteq P => Cardinality(P) >= a
           /\ P \subseteq 1..a => Cardinality(P) <= a
<1>1. 1 \in Int /\ n \in Int /\ a \in Int
  OBVIOUS
<1>2. IsFiniteSet(1..n) /\ IsFiniteSet(1..a)
  BY <1>1, FS_Interval
<1>3. Cardinality(1..a) = a
  <2>1. Cardinality(1..a) = IF 1 > a THEN 0 ELSE a - 1 + 1
    BY <1>1, FS_Interval
  <2> QED
    BY <2>1
<1>4. IsFiniteSet(P) /\ Cardinality(P) \in Nat
  BY <1>2, FS_Subset, FS_CardinalityType
<1>5. ASSUME 1..a \subseteq P PROVE Cardinality(P) >= a
  <2>1. Cardinality(1..a) <= Cardinality(P)
    BY <1>4, <1>5, FS_Subset
  <2> QED
    BY <1>3, <1>4, <2>1
<1>6. ASSUME P \subseteq 1..a PROVE Cardinality(P) <= a
  <2>1. Cardinality(P) <= Cardinality(1..a)
    BY <1>2, <1>6, FS_Subset
  <2> QED
    BY <1>3, <2>1
<1> QED
  BY <1>5, <1>6

LEMMA CountFrom ==
    ASSUME NEW n \in Nat, NEW P \in SUBSET (1..n), NEW h \in 1..n, h..n \subseteq P
    PROVE  Cardinality(P) \in Nat /\ Cardinality(P) >= n - h + 1
<1>1. 1 \in Int /\ n \in Int /\ h \in Int /\ ~(h > n)
  OBVIOUS
<1>2. IsFiniteSet(P) /\ Cardinality(P) \in Nat
  <2>1. IsFiniteSet(1..n)
    BY <1>1, FS_Interval
  <2> QED
    BY <2>1, FS_Subset, FS_CardinalityType
<1>3. Cardinality(h..n) = IF h > n THEN 0 ELSE n - h + 1
  BY <1>1, FS_Interval
<1>4. Cardinality(h..n) <= Cardinality(P)
  BY <1>2, FS_Subset
<1> QED
  BY <1>1, <1>2, <1>3, <1>4

\* The p99_error of the code is a 99th percentile of every sorted sample that is
\* not empty, of whatever size.
THEOREM P99IsPercentile ==
    ASSUME NEW s, SortedSample(s), Len(s) > 0
    PROVE  /\ 100 * Cardinality({i \in DOMAIN s : s[i] <= P99(s)}) >= 99 * Len(s)
           /\ 100 * Cardinality({i \in DOMAIN s : s[i] < P99(s)}) <= 99 * Len(s)
<1> DEFINE n == Len(s)
           a == IndexOfP99(n)
           below == {i \in DOMAIN s : s[i] < P99(s)}
           upTo == {i \in DOMAIN s : s[i] <= P99(s)}
<1>1. n \in Nat \ {0} /\ DOMAIN s = 1..n /\ \A i \in 1..n : s[i] \in Nat
  BY DEF SortedSample
<1>2. a \in 0..(n - 1) /\ 100 * (a + 1) >= 99 * n /\ 100 * a <= 99 * n
  BY <1>1, IndexSplits
<1>3. P99(s) = s[a + 1] /\ a + 1 \in 1..n
  BY <1>1, <1>2 DEF P99
<1> HIDE DEF a, n
<1>4. \A i \in 1..n : \A j \in i..n : s[i] <= s[j]
  BY DEF SortedSample, n
<1>5. 1..(a + 1) \subseteq upTo
  <2> SUFFICES ASSUME NEW i \in 1..(a + 1) PROVE s[i] <= s[a + 1] /\ i \in 1..n
    BY <1>1, <1>3
  <2>1. i \in 1..n /\ a + 1 \in i..n
    BY <1>1, <1>2
  <2> QED
    BY <1>4, <2>1
<1>6. below \subseteq 1..a
  <2> SUFFICES ASSUME NEW i \in 1..n, s[i] < s[a + 1] PROVE i <= a
    BY <1>1, <1>2, <1>3
  <2>1. ASSUME i > a PROVE FALSE
    <3>1. i \in (a + 1)..n
      BY <1>1, <1>2, <2>1
    <3>2. s[a + 1] <= s[i]
      BY <1>3, <1>4, <3>1
    <3> QED
      BY <1>1, <1>3, <3>2
  <2> QED
    BY <1>1, <1>2, <2>1
<1>7. below \in SUBSET (1..n) /\ upTo \in SUBSET (1..n)
  BY <1>1
<1> HIDE DEF below, upTo
<1>8. a \in 0..n /\ a + 1 \in 0..n /\ n \in Nat
  BY <1>1, <1>2
<1>9. Cardinality(upTo) >= a + 1 /\ Cardinality(below) <= a
  BY <1>5, <1>6, <1>7, <1>8, CountPositions
<1>10. Cardinality(upTo) \in Nat /\ Cardinality(below) \in Nat
  <2>1. 1 \in Int /\ n \in Int
    BY <1>8
  <2>2. IsFiniteSet(1..n)
    BY <2>1, FS_Interval
  <2> QED
    BY <1>7, <2>2, FS_Subset, FS_CardinalityType
<1>11. 100 * Cardinality(upTo) >= 99 * n /\ 100 * Cardinality(below) <= 99 * n
  BY <1>2, <1>8, <1>9, <1>10
<1> QED
  BY <1>11 DEF n, upTo, below

\* The median of the code has half of every sorted sample on either side.
THEOREM MedianIsMedian ==
    ASSUME NEW s, SortedSample(s), Len(s) > 0
    PROVE  /\ 2 * Cardinality({i \in DOMAIN s : 2 * s[i] <= TwiceMedian(s)}) >= Len(s)
           /\ 2 * Cardinality({i \in DOMAIN s : 2 * s[i] >= TwiceMedian(s)}) >= Len(s)
<1> DEFINE n == Len(s)
           mid == n \div 2
           low == IF n % 2 = 1 THEN mid + 1 ELSE mid
           upTo == {i \in DOMAIN s : 2 * s[i] <= TwiceMedian(s)}
           from == {i \in DOMAIN s : 2 * s[i] >= TwiceMedian(s)}
<1>1. n \in Nat \ {0} /\ DOMAIN s = 1..n /\ \A i \in 1..n : s[i] \in Nat
  BY DEF SortedSample
<1>2. \A i \in 1..n : \A j \in i..n : s[i] <= s[j]
  BY DEF SortedSample
<1>3. TwiceMedian(s) = s[low] + s[mid + 1]
  <2>1. TwiceMedian(s) = IF n % 2 = 1 THEN 2 * s[mid + 1] ELSE s[mid] + s[mid + 1]
    BY DEF TwiceMedian
  <2>2. mid + 1 \in 1..n
    BY <1>1
  <2>3. s[mid + 1] \in Nat
    BY <1>1, <2>2
  <2> QED
    BY <2>1, <2>3
<1> HIDE DEF n
<1>4. /\ low \in 1..n /\ mid + 1 \in low..n /\ mid + 1 \in 1..n
      /\ 2 * low >= n /\ 2 * (n - (mid + 1) + 1) >= n
  BY <1>1
<1> HIDE DEF low, mid
<1>5. s[low] \in Nat /\ s[mid + 1] \in Nat /\ s[low] <= s[mid + 1]
  BY <1>1, <1>2, <1>4
<1>6. 1..low \subseteq upTo
  <2> SUFFICES ASSUME NEW i \in 1..low PROVE i \in 1..n /\ 2 * s[i] <= s[low] + s[mid + 1]
    BY <1>1, <1>3
  <2>1. i \in 1..n /\ low \in i..n
    BY <1>1, <1>4
  <2>2. s[i] <= s[low] /\ s[i] \in Nat
    BY <1>1, <1>2, <2>1
  <2> QED
    BY <1>5, <2>1, <2>2
<1>7. (mid + 1)..n \subseteq from
  <2> SUFFICES ASSUME NEW i \in (mid + 1)..n
               PROVE  i \in 1..n /\ 2 * s[i] >= s[low] + s[mid + 1]
    BY <1>1, <1>3
  <2>1. i \in 1..n
    BY <1>1, <1>4
  <2>2. s[mid + 1] <= s[i] /\ s[i] \in Nat
    BY <1>1, <1>2, <1>4, <2>1
  <2> QED
    BY <1>5, <2>1, <2>2
<1>8. upTo \in SUBSET (1..n) /\ from \in SUBSET (1..n)
  BY <1>1
<1> HIDE DEF upTo, from
<1>9. n \in Nat /\ low \in 0..n
  BY <1>1, <1>4
<1>10. Cardinality(upTo) >= low
  BY <1>6, <1>8, <1>9, CountPositions
<1>11. Cardinality(upTo) \in Nat
  <2>1. 1 \in Int /\ n \in Int
    BY <1>9
  <2>2. IsFiniteSet(1..n)
    BY <2>1, FS_Interval
  <2> QED
    BY <1>8, <2>2, FS_Subset, FS_CardinalityType
<1>12. Cardinality(from) \in Nat /\ Cardinality(from) >= n - (mid + 1) + 1
  <2> DEFINE h == mid + 1
  <2>1. h \in 1..n /\ h..n \subseteq from
    BY <1>4, <1>7
  <2> HIDE DEF h
  <2>2. Cardinality(from) \in Nat /\ Cardinality(from) >= n - h + 1
    BY <1>8, <1>9, <2>1, CountFrom
  <2> QED
    BY <2>2 DEF h
<1>13. 2 * Cardinality(upTo) >= n
  BY <1>4, <1>9, <1>10, <1>11
<1>14. 2 * Cardinality(from) >= n
  <2>1. mid + 1 \in Int
    BY <1>4
  <2> QED
    BY <1>4, <1>9, <1>12, <2>1
<1> QED
  BY <1>13, <1>14 DEF n, upTo, from

\* So wherever the sample is sorted, the reported p99_error and median split it.
LEMMA PercentilesOfSample == TypeOK => PercentilesSplitSample
<1> DEFINE s == AbsErrors
<1> SUFFICES ASSUME TypeOK, Len(s) > 0
             PROVE  /\ 100 * Cardinality({i \in DOMAIN s : s[i] <= ErrorStats.p99}) >= 99 * Len(s)
                    /\ 100 * Cardinality({i \in DOMAIN s : s[i] < ErrorStats.p99}) <= 99 * Len(s)
                    /\ 2 * Cardinality({i \in DOMAIN s : 2 * s[i] <= ErrorStats.twiceMedian})
                          >= Len(s)
                    /\ 2 * Cardinality({i \in DOMAIN s : 2 * s[i] >= ErrorStats.twiceMedian})
                          >= Len(s)
  BY DEF PercentilesSplitSample, Positions
<1>1. SortedSample(s)
  BY DEF TypeOK
<1>2. ErrorStats.p99 = P99(s) /\ ErrorStats.twiceMedian = TwiceMedian(s)
  BY DEF ErrorStats
<1> HIDE DEF s
<1> QED
  BY <1>1, <1>2, P99IsPercentile, MedianIsMedian

-----------------------------------------------------------------------------
(* The continuous percentiles of generation *)

\* The two neighbours between which the percentile at q tenths lies.
Low(s, q) == (q * (Len(s) - 1)) \div 10 + 1
Part(s, q) == (q * (Len(s) - 1)) % 10
High(s, q) == IF Part(s, q) = 0 THEN Low(s, q) ELSE Low(s, q) + 1

LEMMA Neighbours ==
    ASSUME NEW s, SortedSample(s), Len(s) > 0, NEW q \in 0..10
    PROVE  /\ Low(s, q) \in 1..Len(s) /\ High(s, q) \in Low(s, q)..Len(s)
           /\ Part(s, q) \in 0..9
           /\ q * (Len(s) - 1) = 10 * (Low(s, q) - 1) + Part(s, q)
<1> DEFINE m == Len(s) - 1
           at == q * m
<1>1. Len(s) \in Nat \ {0} /\ m \in Nat /\ Len(s) = m + 1
  BY DEF SortedSample
<1>2. at \in Nat /\ at <= 10 * m
  <2>1. q * m <= 10 * m /\ q * m \in Nat
    <3>1. q \in {0, 1, 2, 3, 4, 5, 6, 7, 8, 9, 10}
      OBVIOUS
    <3> HIDE DEF m
    <3> QED
      BY <1>1, <3>1
  <2> QED
    BY <2>1
<1> HIDE DEF at
<1>3. at \div 10 \in Nat /\ at % 10 \in 0..9 /\ at = 10 * (at \div 10) + (at % 10)
  BY <1>2
<1>4. Low(s, q) = at \div 10 + 1 /\ Part(s, q) = at % 10
  BY DEF Low, Part, at
<1>5. q * (Len(s) - 1) = at
  BY DEF at
<1> HIDE DEF m
<1>6. Low(s, q) \in 1..Len(s)
  BY <1>1, <1>2, <1>3, <1>4
<1>7. High(s, q) \in Low(s, q)..Len(s)
  <2>1. CASE Part(s, q) = 0
    BY <1>1, <1>6, <2>1 DEF High
  <2>2. CASE Part(s, q) # 0
    <3>1. at \div 10 < m
      BY <1>1, <1>2, <1>3, <1>4, <2>2
    <3> QED
      BY <1>1, <1>3, <1>4, <2>2, <3>1 DEF High
  <2> QED
    BY <2>1, <2>2
<1> QED
  BY <1>3, <1>4, <1>5, <1>6, <1>7

\* The percentile lies between its neighbours, a tenth of the way per Part.
LEMMA PercentileBetween ==
    ASSUME NEW s, SortedSample(s), Len(s) > 0, NEW q \in 0..10
    PROVE  /\ s[Low(s, q)] \in Nat /\ s[High(s, q)] \in Nat
           /\ s[Low(s, q)] <= s[High(s, q)]
           /\ TenTimesPercentile(s, q) \in Nat
           /\ TenTimesPercentile(s, q)
                = 10 * s[Low(s, q)] + Part(s, q) * (s[High(s, q)] - s[Low(s, q)])
           /\ 10 * s[Low(s, q)] <= TenTimesPercentile(s, q)
           /\ TenTimesPercentile(s, q) <= 10 * s[High(s, q)]
<1> DEFINE a == s[Low(s, q)]
           b == s[High(s, q)]
           p == Part(s, q)
           t == TenTimesPercentile(s, q)
<1>1. /\ Low(s, q) \in 1..Len(s) /\ High(s, q) \in Low(s, q)..Len(s)
      /\ p \in 0..9
  BY Neighbours
<1>2. a \in Nat /\ b \in Nat /\ a <= b
  <2>1. \A i \in 1..Len(s) : s[i] \in Nat
    BY DEF SortedSample
  <2>2. High(s, q) \in 1..Len(s)
    BY <1>1 DEF SortedSample
  <2>3. \A i \in 1..Len(s) : \A j \in i..Len(s) : s[i] <= s[j]
    BY DEF SortedSample
  <2> QED
    BY <1>1, <2>1, <2>2, <2>3
<1>3. t = IF p = 0 THEN 10 * a ELSE (10 - p) * a + p * b
  BY DEF TenTimesPercentile, Low, High, Part
<1> HIDE DEF a, b, p, t
<1>4. t = 10 * a + p * (b - a) /\ t \in Nat /\ 10 * a <= t /\ t <= 10 * b
  <2>1. p \in {0, 1, 2, 3, 4, 5, 6, 7, 8, 9}
    BY <1>1
  <2> QED
    BY <1>2, <1>3, <2>1
<1> QED
  BY <1>2, <1>4 DEF a, b, p, t

LEMMA MoreParts ==
    ASSUME NEW d \in Nat, NEW p \in Nat, NEW q \in Nat, p <= q
    PROVE  p * d <= q * d /\ p * d \in Nat /\ q * d \in Nat
<1>1. q * d = p * d + (q - p) * d
  OBVIOUS
<1>2. (q - p) * d \in Nat /\ p * d \in Nat /\ q * d \in Nat
  <2>1. q - p \in Nat
    OBVIOUS
  <2> QED
    BY <2>1
<1> QED
  BY <1>1, <1>2

\* Numbers are compared by their tens first.
LEMMA TensFirst ==
    ASSUME NEW l \in Int, NEW m \in Int, NEW a \in 0..9, NEW b \in 0..9,
           10 * (l - 1) + a <= 10 * (m - 1) + b
    PROVE  l < m \/ (l = m /\ a <= b)
OBVIOUS

\* All but q tenths, up to one slot, of n lie from position h on.
LEMMA TheOtherTenths ==
    ASSUME NEW n \in Int, NEW l \in Int, NEW h \in Int, NEW a \in 0..9, NEW part \in Int,
           1 <= l, l <= h, h <= n,
           part = 10 * (l - 1) + a,
           h = IF a = 0 THEN l ELSE l + 1
    PROVE  10 * (n - h + 1) >= 10 * (n - 1) - part /\ h \in 1..n
OBVIOUS

\* Percentiles grow with what they are percentiles of.
LEMMA PercentilesGrow ==
    ASSUME NEW s, SortedSample(s), Len(s) > 0,
           NEW q \in 0..10, NEW r \in 0..10, q <= r
    PROVE  TenTimesPercentile(s, q) <= TenTimesPercentile(s, r)
<1>1. Len(s) \in Nat \ {0} /\ \A i \in 1..Len(s) : \A j \in i..Len(s) : s[i] <= s[j]
  BY DEF SortedSample
<1>2. /\ Low(s, q) \in 1..Len(s) /\ High(s, q) \in Low(s, q)..Len(s) /\ Part(s, q) \in 0..9
      /\ q * (Len(s) - 1) = 10 * (Low(s, q) - 1) + Part(s, q)
      /\ Low(s, r) \in 1..Len(s) /\ High(s, r) \in Low(s, r)..Len(s) /\ Part(s, r) \in 0..9
      /\ r * (Len(s) - 1) = 10 * (Low(s, r) - 1) + Part(s, r)
  BY Neighbours
<1>3. /\ q * (Len(s) - 1) <= r * (Len(s) - 1)
      /\ q * (Len(s) - 1) \in Nat /\ r * (Len(s) - 1) \in Nat
  <2>1. Len(s) - 1 \in Nat
    BY <1>1
  <2> QED
    BY <2>1, MoreParts
<1>4. Low(s, q) < Low(s, r) \/ (Low(s, q) = Low(s, r) /\ Part(s, q) <= Part(s, r))
  <2>1. /\ Low(s, q) \in Int /\ Low(s, r) \in Int
        /\ Part(s, q) \in 0..9 /\ Part(s, r) \in 0..9
    BY <1>1, <1>2
  <2>2. 10 * (Low(s, q) - 1) + Part(s, q) <= 10 * (Low(s, r) - 1) + Part(s, r)
    BY <1>2, <1>3
  <2> QED
    BY <2>1, <2>2, TensFirst
<1>5. /\ s[Low(s, q)] \in Nat /\ s[High(s, q)] \in Nat /\ s[Low(s, q)] <= s[High(s, q)]
      /\ TenTimesPercentile(s, q) \in Nat
      /\ TenTimesPercentile(s, q)
            = 10 * s[Low(s, q)] + Part(s, q) * (s[High(s, q)] - s[Low(s, q)])
      /\ TenTimesPercentile(s, q) <= 10 * s[High(s, q)]
  BY PercentileBetween
<1>6. /\ s[Low(s, r)] \in Nat /\ s[High(s, r)] \in Nat /\ s[Low(s, r)] <= s[High(s, r)]
      /\ TenTimesPercentile(s, r) \in Nat
      /\ TenTimesPercentile(s, r)
            = 10 * s[Low(s, r)] + Part(s, r) * (s[High(s, r)] - s[Low(s, r)])
      /\ 10 * s[Low(s, r)] <= TenTimesPercentile(s, r)
  BY PercentileBetween
<1>7. CASE Low(s, q) < Low(s, r)
  <2>1. High(s, q) \in 1..Len(s) /\ Low(s, r) \in High(s, q)..Len(s)
    BY <1>1, <1>2, <1>7 DEF High
  <2>2. s[High(s, q)] <= s[Low(s, r)]
    BY <1>1, <2>1
  <2> QED
    BY <1>5, <1>6, <2>2
<1>8. CASE Low(s, q) = Low(s, r) /\ Part(s, q) <= Part(s, r)
  <2>1. CASE Part(s, q) = 0
    <3>1. TenTimesPercentile(s, q) = 10 * s[Low(s, q)]
      BY <1>5, <2>1
    <3> QED
      BY <1>6, <1>8, <3>1
  <2>2. CASE Part(s, q) # 0
    <3>1. High(s, q) = High(s, r)
      BY <1>2, <1>8, <2>2 DEF High
    <3> DEFINE d == s[High(s, q)] - s[Low(s, q)]
    <3>2. d \in Nat
      BY <1>5
    <3>3. /\ TenTimesPercentile(s, q) = 10 * s[Low(s, q)] + Part(s, q) * d
          /\ TenTimesPercentile(s, r) = 10 * s[Low(s, q)] + Part(s, r) * d
      BY <1>5, <1>6, <1>8, <3>1
    <3> HIDE DEF d
    <3>4. /\ Part(s, q) * d <= Part(s, r) * d
          /\ Part(s, q) * d \in Nat /\ Part(s, r) * d \in Nat
      <4>1. Part(s, q) \in Nat /\ Part(s, r) \in Nat /\ Part(s, q) <= Part(s, r)
        <5>1. Part(s, q) \in 0..9
          BY <1>2
        <5>2. Part(s, r) \in 0..9
          BY <1>2
        <5>3. Part(s, q) <= Part(s, r)
          BY <1>8
        <5> QED
          BY <5>1, <5>2, <5>3
      <4> QED
        BY <3>2, <4>1, MoreParts
    <3> QED
      BY <1>5, <3>3, <3>4
  <2> QED
    BY <2>1, <2>2
<1> QED
  BY <1>4, <1>7, <1>8


\* All but q tenths of the sample, up to one slot, lie at its level of q tenths or
\* above.
THEOREM LevelIsReached ==
    ASSUME NEW s, SortedSample(s), Len(s) > 0, NEW q \in 0..10
    PROVE  10 * Cardinality({i \in DOMAIN s : 10 * s[i] >= TenTimesPercentile(s, q)})
              >= (10 - q) * (Len(s) - 1)
<1> DEFINE level == TenTimesPercentile(s, q)
           above == {i \in DOMAIN s : 10 * s[i] >= level}
           n == Len(s)
           h == High(s, q)
           part == q * (n - 1)
<1>1. n \in Nat \ {0} /\ DOMAIN s = 1..n /\ \A i \in 1..n : s[i] \in Nat
  BY DEF SortedSample
<1>2. \A i \in 1..n : \A j \in i..n : s[i] <= s[j]
  BY DEF SortedSample
<1>3. /\ Low(s, q) \in 1..n /\ h \in Low(s, q)..n /\ Part(s, q) \in 0..9
      /\ part = 10 * (Low(s, q) - 1) + Part(s, q)
  BY Neighbours
<1>4. s[h] \in Nat /\ level \in Nat /\ level <= 10 * s[h]
  BY PercentileBetween
<1>5. h = IF Part(s, q) = 0 THEN Low(s, q) ELSE Low(s, q) + 1
  BY DEF High
<1>6. (10 - q) * (n - 1) = 10 * (n - 1) - part /\ part \in Int
  <2>1. q \in {0, 1, 2, 3, 4, 5, 6, 7, 8, 9, 10} /\ n - 1 \in Int
    BY <1>1
  <2> HIDE DEF n
  <2> QED
    BY <2>1
<1> HIDE DEF h, n, part, level
<1>7. 10 * (n - h + 1) >= 10 * (n - 1) - part /\ h \in 1..n
  <2>1. n \in Int /\ Low(s, q) \in Int /\ h \in Int /\ 1 <= Low(s, q) /\ Low(s, q) <= h /\ h <= n
    BY <1>1, <1>3
  <2> QED
    BY <1>3, <1>5, <1>6, <2>1, TheOtherTenths
<1>8. h..n \subseteq above
  <2> SUFFICES ASSUME NEW i \in h..n PROVE i \in 1..n /\ 10 * s[i] >= level
    BY <1>1
  <2>1. i \in 1..n
    BY <1>1, <1>7
  <2>2. s[h] <= s[i] /\ s[i] \in Nat
    BY <1>1, <1>2, <1>7, <2>1
  <2> QED
    BY <1>4, <2>1, <2>2
<1>9. above \in SUBSET (1..n) /\ n \in Nat
  BY <1>1
<1> HIDE DEF above
<1>10. Cardinality(above) \in Nat /\ Cardinality(above) >= n - h + 1
  BY <1>7, <1>8, <1>9, CountFrom
<1>11. 10 * Cardinality(above) >= 10 * (n - 1) - part
  BY <1>6, <1>7, <1>9, <1>10
<1> QED
  BY <1>6, <1>11 DEF above, n, level

\* The 50% level is no higher than the largest value.
LEMMA MedianBelowMaximum ==
    ASSUME NEW s, SortedSample(s), Len(s) > 0
    PROVE  TenTimesPercentile(s, 5) <= 10 * s[Len(s)]
<1>1. 5 \in 0..10
  OBVIOUS
<1>2. Len(s) \in Nat /\ \A i \in 1..Len(s) : s[i] \in Nat
  BY DEF SortedSample
<1>3. /\ Low(s, 5) \in 1..Len(s) /\ High(s, 5) \in Low(s, 5)..Len(s)
      /\ TenTimesPercentile(s, 5) \in Nat /\ TenTimesPercentile(s, 5) <= 10 * s[High(s, 5)]
  BY <1>1, Neighbours, PercentileBetween
<1>4. High(s, 5) \in 1..Len(s) /\ Len(s) \in High(s, 5)..Len(s) /\ Len(s) \in 1..Len(s)
  BY <1>2, <1>3
<1>5. s[High(s, 5)] <= s[Len(s)]
  BY <1>4 DEF SortedSample
<1> QED
  BY <1>2, <1>3, <1>4, <1>5

\* "90% of the time, generation exceeds this level", and 80% for P20, hold up to
\* one slot at every sample size, and the levels are in order.
LEMMA LevelsOfSample == TypeOK => LevelsAreReliable
<1> DEFINE s == Generation
           n == Len(s)
           r == Reliability
           Reached(level) == Cardinality({i \in DOMAIN s : 10 * s[i] >= level})
<1> SUFFICES ASSUME TypeOK
             PROVE  /\ 10 * Reached(r.p10) >= 9 * (n - 1) /\ 10 * Reached(r.p20) >= 8 * (n - 1)
                    /\ r.p10 <= r.p20 /\ r.p20 <= r.median /\ r.median <= 10 * r.maximum
  BY DEF LevelsAreReliable, Positions
<1>1. SortedSample(s) /\ n \in Nat
  BY DEF TypeOK, SortedSample
<1>2. CASE n = 0
  <2>1. r = NoReliability
    BY <1>2 DEF Reliability
  <2>2. \A level : {i \in DOMAIN s : 10 * s[i] >= level} = {}
    BY <1>1, <1>2 DEF SortedSample
  <2>3. Cardinality({}) = 0
    BY FS_EmptySet
  <2>4. \A level : Reached(level) = 0
    BY <2>2, <2>3
  <2> HIDE DEF s, r, Reached
  <2> QED
    BY <1>2, <2>1, <2>4 DEF NoReliability
<1>3. CASE n > 0
  <2>1. /\ r.p10 = TenTimesPercentile(s, 1) /\ r.p20 = TenTimesPercentile(s, 2)
        /\ r.median = TenTimesPercentile(s, 5) /\ r.maximum = s[n]
    BY <1>1, <1>3 DEF Reliability, P10
  <2>2. /\ 1 \in 0..10 /\ 2 \in 0..10 /\ 5 \in 0..10 /\ 1 <= 2 /\ 2 <= 5
        /\ 10 - 1 = 9 /\ 10 - 2 = 8
    OBVIOUS
  <2> HIDE DEF s, r
  <2>3. /\ TenTimesPercentile(s, 1) <= TenTimesPercentile(s, 2)
        /\ TenTimesPercentile(s, 2) <= TenTimesPercentile(s, 5)
    BY <1>1, <1>3, <2>2, PercentilesGrow
  <2>4. TenTimesPercentile(s, 5) <= 10 * s[n]
    BY <1>1, <1>3, MedianBelowMaximum
  <2>5. 10 * Reached(r.p10) >= 9 * (n - 1)
    <3>1. 10 * Reached(TenTimesPercentile(s, 1)) >= (10 - 1) * (n - 1)
      BY <1>1, <1>3, <2>2, LevelIsReached
    <3> QED
      BY <2>1, <2>2, <3>1
  <2>6. 10 * Reached(r.p20) >= 8 * (n - 1)
    <3>1. 10 * Reached(TenTimesPercentile(s, 2)) >= (10 - 2) * (n - 1)
      BY <1>1, <1>3, <2>2, LevelIsReached
    <3> QED
      BY <2>1, <2>2, <3>1
  <2> QED
    BY <2>1, <2>3, <2>4, <2>5, <2>6
<1> QED
  BY <1>1, <1>2, <1>3

-----------------------------------------------------------------------------
(* The samples *)

\* What of[k] comes to for the slots of one kind.
Weighted(of) == [k \in DOMAIN of |-> slots[k] * of[k]]

LEMMA CountOfPart ==
    ASSUME slots \in [Kinds -> Nat], NEW D \in SUBSET Kinds, NEW E \in SUBSET D
    PROVE  /\ IsFiniteSet(D) /\ IsFiniteSet(E)
           /\ Count(D) \in Nat /\ Count(E) \in Nat /\ Count(E) <= Count(D)
           /\ Count(D) = Count(E) + Count(D \ E)
<1>1. IsFiniteSet(D)
  BY KindsAssumption, FS_Subset
<1>2. IsFiniteSet(E)
  BY <1>1, FS_Subset
<1>3. \A k \in D : slots[k] \in Nat
  OBVIOUS
<1> QED
  BY <1>1, <1>2, <1>3, SumOfPart DEF Count

\* The i-th value is the least that i of the slots do not exceed.
LEMMA IthValue ==
    ASSUME slots \in [Kinds -> Nat], NEW D \in SUBSET Kinds, NEW of \in [D -> Nat],
           NEW s, s = Ascending(of)
    PROVE  /\ s \in Seq(Nat) /\ Len(s) = Count(D) /\ Count(D) \in Nat
           /\ DOMAIN s = 1..Count(D)
           /\ \A i \in 1..Count(D) :
                /\ s[i] \in Range(of)
                /\ Count({k \in D : of[k] <= s[i]}) >= i
                /\ \A v \in Range(of) : Count({k \in D : of[k] <= v}) >= i => s[i] <= v
<1> DEFINE n == Count(D)
           R == Range(of)
           A == [v \in R |-> Count({k \in D : of[k] <= v})]
<1>1. DOMAIN of = D /\ R \in SUBSET Nat /\ \A k \in D : of[k] \in R
  BY DEF Range
<1>2. n \in Nat /\ IsFiniteSet(D)
  BY CountOfPart
<1>3. s = [i \in 1..n |-> Min({v \in R : A[v] >= i})]
  BY <1>1 DEF Ascending
<1>4. ASSUME NEW i \in 1..n PROVE \E v \in R : A[v] >= i
  <2>1. D # {}
    <3>1. Count({}) = 0
      BY SumOfNone DEF Count
    <3> QED
      BY <1>2, <3>1
  <2>2. R # {} /\ IsFiniteSet(R)
    <3>1. R # {}
      BY <1>1, <2>1
    <3>2. of \in Surjection(D, R)
      BY <1>1 DEF Surjection, Range
    <3> QED
      BY <1>2, <3>1, <3>2, FS_Surjection
  <2>3. PICK m \in R : \A v \in R : v <= m
    BY <1>1, <2>2, GreatestNat
  <2>4. {k \in D : of[k] <= m} = D
    BY <1>1, <2>3
  <2>5. A[m] = n
    BY <2>4
  <2> QED
    BY <1>2, <2>5
<1> HIDE DEF A, R, n
<1>5. ASSUME NEW i \in 1..n
      PROVE  /\ s[i] \in R /\ A[s[i]] >= i
             /\ \A v \in R : A[v] >= i => s[i] <= v
  <2> DEFINE V == {v \in R : A[v] >= i}
  <2>1. V \in SUBSET Nat /\ V # {}
    BY <1>1, <1>4
  <2> HIDE DEF V
  <2>2. \E x \in V : \A y \in V : x <= y
    BY <2>1, LeastNat
  <2>3. s[i] = Min(V)
    BY <1>3 DEF V
  <2>4. s[i] \in V /\ \A y \in V : s[i] <= y
    BY <2>2, <2>3 DEF Min
  <2> QED
    BY <2>4 DEF V
<1>6. s \in [1..n -> Nat] /\ DOMAIN s = 1..n
  <2>1. \A i \in 1..n : s[i] \in Nat
    BY <1>1, <1>5
  <2> QED
    BY <1>3, <2>1
<1>7. s \in Seq(Nat) /\ Len(s) = n
  BY <1>2, <1>6
<1>8. \A v \in R : A[v] = Count({k \in D : of[k] <= v})
  BY DEF A
<1>9. \A i \in 1..n : /\ s[i] \in R
                      /\ Count({k \in D : of[k] <= s[i]}) >= i
                      /\ \A v \in R : Count({k \in D : of[k] <= v}) >= i => s[i] <= v
  <2> SUFFICES ASSUME NEW i \in 1..n
               PROVE  /\ s[i] \in R
                      /\ Count({k \in D : of[k] <= s[i]}) >= i
                      /\ \A v \in R : Count({k \in D : of[k] <= v}) >= i => s[i] <= v
    OBVIOUS
  <2>1. s[i] \in R /\ A[s[i]] >= i /\ \A v \in R : A[v] >= i => s[i] <= v
    BY <1>5
  <2>2. A[s[i]] = Count({k \in D : of[k] <= s[i]})
    BY <1>8, <2>1
  <2>3. ASSUME NEW v \in R, Count({k \in D : of[k] <= v}) >= i PROVE s[i] <= v
    <3>1. A[v] >= i
      BY <1>8, <2>3
    <3> QED
      BY <2>1, <3>1
  <2> QED
    BY <2>1, <2>2, <2>3
<1> QED
  BY <1>2, <1>6, <1>7, <1>9 DEF n, R


\* Sorting sorts.
LEMMA AscendingSorts ==
    ASSUME slots \in [Kinds -> Nat], NEW D \in SUBSET Kinds, NEW of \in [D -> Nat]
    PROVE  SortedSample(Ascending(of))
<1> DEFINE s == Ascending(of)
           n == Count(D)
           upTo(v) == Count({k \in D : of[k] <= v})
<1>1. /\ s \in Seq(Nat) /\ Len(s) = n /\ n \in Nat /\ DOMAIN s = 1..n
      /\ \A i \in 1..n : /\ s[i] \in Range(of)
                         /\ upTo(s[i]) >= i
                         /\ \A v \in Range(of) : upTo(v) >= i => s[i] <= v
  BY IthValue
<1>2. \A v : upTo(v) \in Nat
  BY CountOfPart
<1> HIDE DEF s, n, upTo
<1>3. ASSUME NEW i \in 1..n, NEW j \in i..n PROVE s[i] <= s[j]
  <2>1. j \in 1..n /\ i <= j
    BY <1>1, <1>3
  <2>2. upTo(s[j]) >= j /\ s[j] \in Range(of)
    BY <1>1, <2>1
  <2>3. upTo(s[j]) >= i
    BY <1>1, <1>2, <1>3, <2>1, <2>2
  <2> QED
    BY <1>1, <1>3, <2>2, <2>3
<1>4. SortedSample(s)
  BY <1>1, <1>3 DEF SortedSample
<1> QED
  BY <1>4 DEF s

\* Sorting keeps every slot: the values v stand where more than the slots below
\* v, and no more than the slots up to v, are counted.
LEMMA AscendingHolds ==
    ASSUME slots \in [Kinds -> Nat], NEW D \in SUBSET Kinds, NEW of \in [D -> Nat]
    PROVE  Holds(Ascending(of), of)
<1> DEFINE s == Ascending(of)
           n == Count(D)
           R == Range(of)
           below(v) == Count({k \in D : of[k] < v})
           upTo(v) == Count({k \in D : of[k] <= v})
           equal(v) == Count({k \in D : of[k] = v})
<1>1. /\ n \in Nat /\ DOMAIN s = 1..n
      /\ \A i \in 1..n : /\ s[i] \in R
                         /\ upTo(s[i]) >= i
                         /\ \A v \in R : upTo(v) >= i => s[i] <= v
  BY IthValue
<1>2. DOMAIN of = D /\ R \in SUBSET Nat
  BY DEF Range
<1>3. ASSUME NEW v \in R
      PROVE  /\ below(v) \in Nat /\ upTo(v) \in Nat /\ equal(v) \in Nat
             /\ upTo(v) = below(v) + equal(v) /\ upTo(v) <= n
  <2> DEFINE B == {k \in D : of[k] < v}
             U == {k \in D : of[k] <= v}
             E == {k \in D : of[k] = v}
  <2>1. U \in SUBSET D /\ B \in SUBSET U /\ U \ B = E /\ U \in SUBSET Kinds
    BY <1>2
  <2>2. E \in SUBSET D
    OBVIOUS
  <2> HIDE DEF U, B, E
  <2>3. Count(U) = Count(B) + Count(U \ B) /\ Count(B) \in Nat /\ Count(U) \in Nat
    BY <2>1, CountOfPart
  <2>4. Count(U) <= Count(D) /\ Count(E) \in Nat
    BY <2>1, <2>2, CountOfPart
  <2> QED
    BY <2>1, <2>3, <2>4 DEF U, B, E
<1>4. ASSUME NEW v \in R, NEW w \in R, w < v PROVE upTo(w) <= below(v)
  <2> DEFINE B == {k \in D : of[k] < v}
             W == {k \in D : of[k] <= w}
  <2>1. B \in SUBSET Kinds /\ W \in SUBSET B
    BY <1>2, <1>4
  <2> HIDE DEF B, W
  <2>2. Count(W) <= Count(B)
    BY <2>1, CountOfPart
  <2> QED
    BY <2>2 DEF B, W
<1>5. ASSUME NEW v \in R, below(v) > 0 PROVE \E w \in R : w < v /\ upTo(w) = below(v)
  <2> DEFINE V == {w \in R : w < v}
  <2>1. V # {}
    <3>1. ASSUME {k \in D : of[k] < v} = {} PROVE FALSE
      <4>1. below(v) = 0
        BY <3>1, SumOfNone DEF Count
      <4> QED
        BY <1>5, <4>1
    <3> QED
      BY <1>2, <3>1 DEF Range
  <2>2. V \in SUBSET Nat /\ IsFiniteSet(V)
    <3>1. V \in SUBSET (0..v)
      BY <1>2
    <3>2. IsFiniteSet(0..v)
      BY <1>2, FS_Interval
    <3> QED
      BY <1>2, <3>1, <3>2, FS_Subset
  <2>3. PICK w \in V : \A u \in V : u <= w
    BY <2>1, <2>2, GreatestNat
  <2>4. {k \in D : of[k] <= w} = {k \in D : of[k] < v}
    <3>1. \A k \in D : of[k] \in R
      BY DEF Range
    <3>2. \A k \in D : of[k] < v => of[k] <= w
      BY <2>3, <3>1
    <3>3. w < v
      BY <2>3
    <3> QED
      BY <1>2, <2>3, <3>1, <3>2, <3>3
  <2> QED
    BY <2>3, <2>4
<1> HIDE DEF s, n, below, upTo, equal, R
<1>6. ASSUME NEW v \in R
      PROVE  {i \in DOMAIN s : s[i] = v} = (below(v) + 1)..upTo(v)
  <2>1. ASSUME NEW i \in 1..n, s[i] = v PROVE i \in (below(v) + 1)..upTo(v)
    <3>1. i <= upTo(v)
      BY <1>1, <1>3, <2>1
    <3>2. ASSUME i <= below(v) PROVE FALSE
      <4>1. PICK w \in R : w < v /\ upTo(w) = below(v)
        BY <1>3, <1>5, <2>1, <3>2
      <4>2. s[i] <= w
        BY <1>1, <1>3, <2>1, <3>2, <4>1
      <4> QED
        BY <1>2, <2>1, <4>1, <4>2 DEF R
    <3> QED
      BY <1>1, <1>3, <2>1, <3>1, <3>2
  <2>2. ASSUME NEW i \in (below(v) + 1)..upTo(v) PROVE i \in 1..n /\ s[i] = v
    <3>1. i \in 1..n /\ i > below(v) /\ i <= upTo(v)
      BY <1>1, <1>3, <2>2
    <3>2. s[i] <= v /\ s[i] \in R
      BY <1>1, <1>3, <3>1
    <3>3. ASSUME s[i] < v PROVE FALSE
      <4>1. upTo(s[i]) <= below(v) /\ upTo(s[i]) >= i /\ upTo(s[i]) \in Nat
        BY <1>1, <1>3, <1>4, <3>1, <3>2, <3>3
      <4> QED
        BY <1>1, <1>3, <3>1, <4>1
    <3>4. s[i] \in Nat /\ v \in Nat
      BY <1>2, <3>2
    <3>5. s[i] = v
      BY <3>2, <3>3, <3>4
    <3> QED
      BY <3>1, <3>5
  <2> QED
    BY <1>1, <2>1, <2>2
<1>7. ASSUME NEW v \in R PROVE Cardinality({i \in DOMAIN s : s[i] = v}) = equal(v)
  <2>1. /\ below(v) \in Nat /\ upTo(v) \in Nat /\ equal(v) \in Nat
        /\ upTo(v) = below(v) + equal(v)
    BY <1>3
  <2>2. below(v) + 1 \in Int /\ upTo(v) \in Int
    BY <2>1
  <2>3. Cardinality((below(v) + 1)..upTo(v))
          = IF below(v) + 1 > upTo(v) THEN 0 ELSE upTo(v) - (below(v) + 1) + 1
    BY <2>2, FS_Interval
  <2>4. Cardinality((below(v) + 1)..upTo(v)) = equal(v)
    BY <2>1, <2>3
  <2> QED
    BY <1>6, <2>4
<1>8. \A i \in DOMAIN s : s[i] \in R
  BY <1>1
<1> QED
  BY <1>2, <1>7, <1>8 DEF Holds, s, R, equal

-----------------------------------------------------------------------------
(* Products *)

LEMMA ProductGrows ==
    ASSUME NEW a \in Nat, NEW b \in Int, NEW c \in Int, b <= c
    PROVE  a * b <= a * c
<1>1. a * c = a * b + a * (c - b)
  OBVIOUS
<1>2. a * (c - b) >= 0 /\ a * b \in Int /\ a * (c - b) \in Int
  <2>1. c - b \in Nat
    OBVIOUS
  <2>2. \A d \in Nat : a * d >= 0
    OBVIOUS
  <2> QED
    BY <2>1, <2>2
<1> QED
  BY <1>1, <1>2

LEMMA Cancel ==
    ASSUME NEW a \in Nat, a > 0, NEW b \in Int, NEW c \in Int, a * b <= a * c
    PROVE  b <= c
<1>1. ASSUME c + 1 <= b PROVE FALSE
  <2>1. a * (c + 1) <= a * b
    BY <1>1, ProductGrows
  <2>2. a * (c + 1) = a * c + a /\ a * c \in Int /\ a * b \in Int
    OBVIOUS
  <2> QED
    BY <2>1, <2>2
<1> QED
  BY <1>1

LEMMA SquareIsNat ==
    ASSUME NEW x \in Int
    PROVE  x * x >= 0 /\ x * x \in Int
<1>1. CASE x >= 0
  BY <1>1
<1>2. CASE x < 0
  <2>1. x * x = (-x) * (-x) /\ -x \in Nat
    BY <1>2
  <2>2. \A y \in Nat : y * y >= 0
    OBVIOUS
  <2> QED
    BY <2>1, <2>2
<1> QED
  BY <1>1, <1>2

\* n*e*e - 2*a*e + q is not negative where its discriminant is not positive.
LEMMA TwiceMean ==
    ASSUME NEW n \in Nat, NEW a \in Nat, NEW q \in Nat, NEW e \in Nat, a * a <= n * q
    PROVE  2 * (a * e) <= n * (e * e) + q
<1>1. CASE n = 0
  <2>1. a * a <= 0
    BY <1>1
  <2>2. a = 0
    <3>1. ASSUME a > 0 PROVE FALSE
      <4>1. a * 1 <= a * a
        BY <3>1, ProductGrows
      <4> QED
        BY <2>1, <3>1, <4>1
    <3> QED
      BY <3>1
  <2>3. e * e \in Nat
    OBVIOUS
  <2> QED
    BY <1>1, <2>2, <2>3
<1>2. CASE n > 0
  <2> DEFINE x == n * e
  <2>1. x \in Nat
    OBVIOUS
  <2>2. (x - a) * (x - a) >= 0
    BY <2>1, SquareIsNat
  <2>3. (x - a) * (x - a) = x * x - 2 * (x * a) + a * a /\ x * x \in Nat /\ x * a \in Nat /\ a * a \in Nat
    <3> HIDE DEF x
    <3> QED
      BY <2>1
  <2>4. x * x = n * (n * (e * e)) /\ x * a = n * (a * e)
    OBVIOUS
  <2> HIDE DEF x
  <2>5. 2 * (x * a) <= x * x + n * q
    <3>1. n * q \in Nat
      OBVIOUS
    <3> QED
      BY <2>2, <2>3, <3>1
  <2>6. n * (2 * (a * e)) <= n * (n * (e * e) + q)
    <3>1. /\ n * (2 * (a * e)) = 2 * (n * (a * e))
          /\ n * (n * (e * e) + q) = n * (n * (e * e)) + n * q
      OBVIOUS
    <3> QED
      BY <2>4, <2>5, <3>1
  <2>7. 2 * (a * e) \in Int /\ n * (e * e) + q \in Int
    OBVIOUS
  <2> QED
    BY <1>2, <2>6, <2>7, Cancel
<1> QED
  BY <1>1, <1>2

\* One more value in the inequality of Cauchy and Schwarz.
LEMMA CauchyStep ==
    ASSUME NEW n \in Nat, NEW a \in Nat, NEW q \in Nat, NEW e \in Nat, NEW w \in Nat,
           a * a <= n * q
    PROVE  (w * e + a) * (w * e + a) <= (w + n) * (w * (e * e) + q)
<1> DEFINE s == e * e
           b == a * e
<1>1. 2 * b <= n * s + q /\ s \in Nat /\ b \in Nat
  BY TwiceMean
<1>2. /\ (w * e + a) * (w * e + a) = (w * w) * s + w * (2 * b) + a * a
      /\ (w + n) * (w * s + q) = (w * w) * s + w * (n * s + q) + n * q
  OBVIOUS
<1> HIDE DEF s, b
<1>3. w * (2 * b) <= w * (n * s + q) /\ w * (2 * b) \in Int /\ w * (n * s + q) \in Int
      /\ (w * w) * s \in Int /\ a * a \in Int /\ n * q \in Int
  <2>1. 2 * b \in Int /\ n * s + q \in Int
    BY <1>1
  <2>2. w * w \in Int
    OBVIOUS
  <2>3. (w * w) * s \in Int
    BY <1>1, <2>2
  <2> QED
    BY <1>1, <2>1, <2>3, ProductGrows
<1>4. (w * w) * s + w * (2 * b) + a * a <= (w * w) * s + w * (n * s + q) + n * q
  BY <1>3
<1>5. (w * e + a) * (w * e + a) <= (w + n) * (w * s + q)
  BY <1>2, <1>4
<1> QED
  BY <1>5 DEF s

-----------------------------------------------------------------------------
(* Sums over the slots *)

LEMMA WeightedTyped ==
    ASSUME slots \in [Kinds -> Nat], NEW D \in SUBSET Kinds, NEW of \in [D -> Nat],
           NEW E \in SUBSET D
    PROVE  /\ SumOver(of, E) = SumFunctionOnSet(Weighted(of), E)
           /\ \A k \in D : /\ Weighted(of)[k] = slots[k] * of[k]
                           /\ slots[k] \in Nat /\ of[k] \in Nat /\ Weighted(of)[k] \in Nat
           /\ IsFiniteSet(D) /\ IsFiniteSet(E) /\ SumOver(of, E) \in Nat
<1>1. SumOver(of, E) = SumFunctionOnSet(Weighted(of), E)
  BY DEF SumOver, Weighted
<1>2. ASSUME NEW k \in D
      PROVE  /\ Weighted(of)[k] = slots[k] * of[k]
             /\ slots[k] \in Nat /\ of[k] \in Nat /\ Weighted(of)[k] \in Nat
  <2>1. slots[k] \in Nat /\ of[k] \in Nat /\ DOMAIN of = D
    OBVIOUS
  <2>2. \A a, b \in Nat : a * b \in Nat
    OBVIOUS
  <2> QED
    BY <2>1, <2>2 DEF Weighted
<1>3. IsFiniteSet(D) /\ IsFiniteSet(E)
  BY CountOfPart
<1>4. SumFunctionOnSet(Weighted(of), E) \in Nat
  BY <1>2, <1>3, SumIsNat
<1> QED
  BY <1>1, <1>2, <1>3, <1>4

\* One more kind in a sum.
LEMMA OneMoreKind ==
    ASSUME slots \in [Kinds -> Nat], NEW D \in SUBSET Kinds, NEW of \in [D -> Nat],
           NEW E \in SUBSET D, NEW k \in D \ E
    PROVE  /\ SumOver(of, E \cup {k}) = slots[k] * of[k] + SumOver(of, E)
           /\ Count(E \cup {k}) = slots[k] + Count(E) /\ Count(E) \in Nat
<1>1. /\ SumOver(of, E) = SumFunctionOnSet(Weighted(of), E)
      /\ IsFiniteSet(E)
      /\ \A l \in D : Weighted(of)[l] = slots[l] * of[l] /\ Weighted(of)[l] \in Nat
                      /\ slots[l] \in Nat
  BY WeightedTyped
<1>2. SumOver(of, E \cup {k}) = SumFunctionOnSet(Weighted(of), E \cup {k})
  <2>1. E \cup {k} \in SUBSET D
    OBVIOUS
  <2> QED
    BY <2>1, WeightedTyped
<1>3. \A l \in E \cup {k} : Weighted(of)[l] \in Int /\ slots[l] \in Int
  BY <1>1
<1>4. SumFunctionOnSet(Weighted(of), E \cup {k})
        = Weighted(of)[k] + SumFunctionOnSet(Weighted(of), E)
  BY <1>1, <1>3, SumAdds
<1>5. Count(E \cup {k}) = slots[k] + Count(E)
  BY <1>1, <1>3, SumAdds DEF Count
<1>6. Count(E) \in Nat
  BY CountOfPart
<1> QED
  BY <1>1, <1>2, <1>4, <1>5, <1>6

LEMMA SlotInCount ==
    ASSUME slots \in [Kinds -> Nat], NEW D \in SUBSET Kinds, NEW k \in D
    PROVE  slots[k] \in Nat /\ slots[k] <= Count(D)
<1> DEFINE E == D \ {k}
           of == [l \in D |-> 0]
<1>1. E \in SUBSET D /\ k \in D \ E /\ of \in [D -> Nat]
  OBVIOUS
<1>2. E \cup {k} = D
  OBVIOUS
<1> HIDE DEF E, of
<1>3. Count(E \cup {k}) = slots[k] + Count(E) /\ Count(E) \in Nat
  BY <1>1, OneMoreKind
<1>4. slots[k] \in Nat
  OBVIOUS
<1> QED
  BY <1>2, <1>3, <1>4

\* The last value of a sample is the largest that occurs.
LEMMA LastIsLargest ==
    ASSUME slots \in [Kinds -> Nat], NEW D \in SUBSET Kinds, NEW of \in [D -> Nat],
           Count(D) > 0, NEW k \in D, slots[k] > 0
    PROVE  of[k] <= Ascending(of)[Count(D)]
<1> DEFINE n == Count(D)
           m == Ascending(of)[n]
           upTo(v) == Count({l \in D : of[l] <= v})
           U == {l \in D : of[l] <= m}
<1>1. /\ n \in Nat
      /\ \A i \in 1..n : /\ Ascending(of)[i] \in Range(of)
                         /\ upTo(Ascending(of)[i]) >= i
                         /\ \A v \in Range(of) : upTo(v) >= i => Ascending(of)[i] <= v
  BY IthValue
<1>2. m \in Range(of) /\ Count(U) >= n
  <2>1. n \in 1..n
    BY <1>1
  <2> HIDE DEF n
  <2> QED
    BY <1>1, <2>1
<1>3. m \in Nat
  BY <1>2 DEF Range
<1> HIDE DEF m
<1>4. SUFFICES ASSUME of[k] > m PROVE FALSE
  BY <1>3 DEF m, n
<1>5. U \in SUBSET D /\ D \ U \in SUBSET Kinds /\ k \in D \ U
  BY <1>3, <1>4
<1> HIDE DEF U
<1>6. n = Count(U) + Count(D \ U) /\ Count(U) \in Nat
  BY <1>5, CountOfPart
<1>7. slots[k] <= Count(D \ U) /\ Count(D \ U) \in Nat /\ slots[k] \in Nat
  BY <1>5, SlotInCount, CountOfPart
<1> QED
  BY <1>1, <1>2, <1>6, <1>7

\* A mean is no larger than the largest value that occurs.
LEMMA MeanBelowLargest ==
    ASSUME slots \in [Kinds -> Nat], NEW D \in SUBSET Kinds, NEW of \in [D -> Nat],
           NEW m \in Nat, \A k \in D : slots[k] > 0 => of[k] <= m
    PROVE  SumOver(of, D) <= Count(D) * m
<1> DEFINE C == {E \in SUBSET D : SumOver(of, E) <= Count(E) * m}
<1>1. {} \in C
  <2>1. SumOver(of, {}) = 0 /\ Count({}) = 0
    BY SumOfNone DEF SumOver, Count
  <2> QED
    BY <2>1
<1>2. ASSUME NEW E \in SUBSET D, NEW k \in D \ E, E \in C PROVE E \cup {k} \in C
  <2>1. /\ SumOver(of, E \cup {k}) = slots[k] * of[k] + SumOver(of, E)
        /\ Count(E \cup {k}) = slots[k] + Count(E) /\ Count(E) \in Nat
    BY OneMoreKind
  <2>2. SumOver(of, E) \in Nat /\ slots[k] \in Nat /\ of[k] \in Nat
    BY WeightedTyped
  <2>3. slots[k] * of[k] <= slots[k] * m /\ slots[k] * of[k] \in Nat /\ slots[k] * m \in Nat
    <3>1. CASE slots[k] = 0
      BY <2>2, <3>1
    <3>2. CASE slots[k] > 0
      BY <2>2, <3>2, ProductGrows
    <3> QED
      BY <2>2, <3>1, <3>2
  <2>4. SumOver(of, E) <= Count(E) * m /\ Count(E) * m \in Nat
    BY <1>2, <2>1
  <2>5. (slots[k] + Count(E)) * m = slots[k] * m + Count(E) * m
    BY <2>1, <2>2
  <2>6. SumOver(of, E \cup {k}) <= Count(E \cup {k}) * m
    BY <2>1, <2>2, <2>3, <2>4, <2>5
  <2> QED
    BY <2>6
<1>3. IsFiniteSet(D)
  BY CountOfPart
<1> HIDE DEF C
<1>4. D \in C
  BY <1>1, <1>2, <1>3, FiniteSetInduction
<1> QED
  BY <1>4 DEF C

\* The square of a mean is no larger than the mean of the squares.
LEMMA MeanBelowRootMeanSquare ==
    ASSUME slots \in [Kinds -> Nat], NEW D \in SUBSET Kinds, NEW of \in [D -> Nat]
    PROVE  SumOver(of, D) * SumOver(of, D)
             <= Count(D) * SumOver([k \in D |-> of[k] * of[k]], D)
<1> DEFINE sq == [k \in D |-> of[k] * of[k]]
           C == {E \in SUBSET D : SumOver(of, E) * SumOver(of, E) <= Count(E) * SumOver(sq, E)}
<1>1. {} \in C
  <2>1. SumOver(of, {}) = 0 /\ Count({}) = 0 /\ SumOver(sq, {}) = 0
    BY SumOfNone DEF SumOver, Count
  <2> QED
    BY <2>1
<1>2. sq \in [D -> Nat]
  <2>1. \A k \in D : of[k] \in Nat
    OBVIOUS
  <2>2. \A a \in Nat : a * a \in Nat
    OBVIOUS
  <2> QED
    BY <2>1, <2>2
<1>3. \A k \in D : sq[k] = of[k] * of[k]
  OBVIOUS
<1> HIDE DEF sq
<1>4. ASSUME NEW E \in SUBSET D, NEW k \in D \ E, E \in C PROVE E \cup {k} \in C
  <2>1. /\ SumOver(of, E \cup {k}) = slots[k] * of[k] + SumOver(of, E)
        /\ Count(E \cup {k}) = slots[k] + Count(E) /\ Count(E) \in Nat
    BY OneMoreKind
  <2>2. SumOver(sq, E \cup {k}) = slots[k] * (of[k] * of[k]) + SumOver(sq, E)
    BY <1>2, <1>3, OneMoreKind
  <2>3. SumOver(of, E) \in Nat /\ slots[k] \in Nat /\ of[k] \in Nat
    BY WeightedTyped
  <2>4. SumOver(sq, E) \in Nat
    BY <1>2, WeightedTyped
  <2>5. SumOver(of, E) * SumOver(of, E) <= Count(E) * SumOver(sq, E)
    BY <1>4
  <2>6. (slots[k] * of[k] + SumOver(of, E)) * (slots[k] * of[k] + SumOver(of, E))
           <= (slots[k] + Count(E)) * (slots[k] * (of[k] * of[k]) + SumOver(sq, E))
    BY <2>1, <2>3, <2>4, <2>5, CauchyStep
  <2>7. SumOver(of, E \cup {k}) * SumOver(of, E \cup {k})
           <= Count(E \cup {k}) * SumOver(sq, E \cup {k})
    BY <2>1, <2>2, <2>6
  <2> QED
    BY <2>7
<1>5. IsFiniteSet(D)
  BY CountOfPart
<1> HIDE DEF C
<1>6. D \in C
  BY <1>1, <1>4, <1>5, FiniteSetInduction
<1> QED
  BY <1>6 DEF C, sq

-----------------------------------------------------------------------------
(* The windows of the specification *)

SlotsTyped == slots \in [Kinds -> Nat] /\ loads \in 0..MaxLoads

LEMMA SpecSlots == Spec => []SlotsTyped
<1>1. Init => SlotsTyped
  BY BlocksAssumption DEF Init, SlotsTyped
<1>2. SlotsTyped /\ [Next]_vars => SlotsTyped'
  <2> SUFFICES ASSUME SlotsTyped, [Next]_vars PROVE SlotsTyped'
    OBVIOUS
  <2>1. CASE UNCHANGED vars
    BY <2>1 DEF vars, SlotsTyped
  <2>2. ASSUME NEW k \in Kinds, NEW n \in Blocks, Store(k, n) PROVE SlotsTyped'
    <3>1. n \in Nat /\ MaxLoads \in Nat
      BY BlocksAssumption
    <3>2. slots[k] \in Nat /\ slots[k] + n \in Nat
      BY <3>1 DEF SlotsTyped
    <3>3. slots' \in [Kinds -> Nat]
      BY <2>2, <3>2 DEF Store, SlotsTyped
    <3>4. loads' \in 0..MaxLoads
      BY <2>2, <3>1 DEF Store, SlotsTyped
    <3> QED
      BY <3>3, <3>4 DEF SlotsTyped
  <2>3. ASSUME NEW k \in Kinds, NEW l \in Kinds, Replace(k, l) PROVE SlotsTyped'
    <3>1. slots[k] - 1 \in Nat /\ slots[l] + 1 \in Nat
      BY <2>3 DEF Replace, SlotsTyped
    <3>2. slots' = [slots EXCEPT ![k] = slots[k] - 1, ![l] = slots[l] + 1]
      BY <2>3 DEF Replace, SlotsTyped
    <3>3. slots' \in [Kinds -> Nat]
      BY <3>1, <3>2 DEF SlotsTyped
    <3>4. loads' \in 0..MaxLoads
      BY <2>3, BlocksAssumption DEF Replace, SlotsTyped
    <3> QED
      BY <3>3, <3>4 DEF SlotsTyped
  <2> QED
    BY <2>1, <2>2, <2>3 DEF Next
<1> QED
  BY <1>1, <1>2, PTL DEF Spec

\* Errors and generation are naturals.
LEMMA ValuesTyped ==
    /\ Joined \in SUBSET Kinds /\ Kinds \in SUBSET Kinds
    /\ Errors \in [Joined -> Nat] /\ Actuals \in [Kinds -> Nat]
    /\ \A k \in Joined : /\ Errors[k] = AbsError(k)
                         /\ Signed(k) \in Int /\ Signed(k) <= AbsError(k)
                         /\ -Signed(k) <= AbsError(k)
<1>1. Joined \in SUBSET Kinds
  BY DEF Joined
<1>2. ASSUME NEW k \in Joined
      PROVE  /\ AbsError(k) \in Nat
             /\ Signed(k) \in Int /\ Signed(k) <= AbsError(k) /\ -Signed(k) <= AbsError(k)
  <2>1. k.forecast \in Nat /\ k.actual \in Nat
    BY KindsAssumption DEF Joined
  <2>2. CASE k.forecast < k.actual
    BY <2>1, <2>2 DEF AbsError, Signed
  <2>3. CASE ~(k.forecast < k.actual)
    BY <2>1, <2>3 DEF AbsError, Signed
  <2> QED
    BY <2>2, <2>3
<1>3. Errors \in [Joined -> Nat] /\ \A k \in Joined : Errors[k] = AbsError(k)
  BY <1>2 DEF Errors
<1>4. Actuals \in [Kinds -> Nat]
  BY KindsAssumption DEF Actuals
<1> QED
  BY <1>1, <1>2, <1>3, <1>4

\* In every window both samples are sorted and hold every slot once, however many
\* kinds of slots there are and however many slots of each.
THEOREM TypeCorrect == Spec => []TypeOK
<1>1. SlotsTyped => TypeOK
  <2> SUFFICES ASSUME SlotsTyped PROVE TypeOK
    OBVIOUS
  <2>1. slots \in [Kinds -> Nat]
    BY DEF SlotsTyped
  <2>2. SortedSample(AbsErrors) /\ Holds(AbsErrors, Errors)
    BY <2>1, ValuesTyped, AscendingSorts, AscendingHolds DEF AbsErrors
  <2>3. SortedSample(Generation) /\ Holds(Generation, Actuals)
    BY <2>1, ValuesTyped, AscendingSorts, AscendingHolds DEF Generation
  <2> QED
    BY <2>2, <2>3 DEF TypeOK, SlotsTyped
<1> QED
  BY <1>1, SpecSlots, PTL

\* p99_error is a 99th percentile in every window.
THEOREM PercentilesAlwaysSplit == Spec => []PercentilesSplitSample
  BY PercentilesOfSample, TypeCorrect, PTL

\* P10 is what its comment says, up to one slot, in every window.
THEOREM LevelsAlwaysReliable == Spec => []LevelsAreReliable
  BY LevelsOfSample, TypeCorrect, PTL

\* An empty sample has no error, and the figures are those of the sums.
LEMMA StatsAreSums ==
    ASSUME slots \in [Kinds -> Nat]
    PROVE  /\ Len(AbsErrors) = Count(Joined) /\ Count(Joined) \in Nat
           /\ Total(Joined) \in Nat
           /\ ErrorStats.samples = Count(Joined) /\ ErrorStats.mae[1] = Total(Joined)
           /\ Count(Joined) > 0 =>
                /\ ErrorStats.mse[1] = Squares
                /\ ErrorStats.twiceMedian = TwiceMedian(AbsErrors)
                /\ ErrorStats.p99 = P99(AbsErrors)
<1>1. Len(AbsErrors) = Count(Joined) /\ Count(Joined) \in Nat
  BY ValuesTyped, IthValue DEF AbsErrors
<1>2. Total(Joined) \in Nat
  BY ValuesTyped, WeightedTyped DEF Total
<1>3. CASE Count(Joined) = 0
  <2>1. ErrorStats = NoMetrics
    BY <1>1, <1>3 DEF ErrorStats
  <2>2. \A k \in Joined : slots[k] > 0 => Errors[k] <= 0
    <3> SUFFICES ASSUME NEW k \in Joined PROVE ~(slots[k] > 0)
      OBVIOUS
    <3>1. slots[k] \in Nat /\ slots[k] <= Count(Joined)
      BY ValuesTyped, SlotInCount
    <3> QED
      BY <1>3, <3>1
  <2>3. Total(Joined) <= Count(Joined) * 0
    <3>1. SumOver(Errors, Joined) <= Count(Joined) * 0
      BY <2>2, ValuesTyped, MeanBelowLargest
    <3> QED
      BY <3>1 DEF Total
  <2> QED
    BY <1>1, <1>2, <1>3, <2>1, <2>3 DEF NoMetrics
<1>4. CASE Count(Joined) > 0
  BY <1>1, <1>2, <1>4 DEF ErrorStats
<1> QED
  BY <1>1, <1>2, <1>3, <1>4

\* Hour by hour, counts and sums of errors add up to those of the whole window.
THEOREM HoursAlwaysAddUp == Spec => []HourlyAddsUp
<1>1. SlotsTyped => HourlyAddsUp
  <2> SUFFICES ASSUME SlotsTyped PROVE HourlyAddsUp
    OBVIOUS
  <2> DEFINE H == 0..23
             of == [k \in Joined |-> k.hour]
             In == [h \in H |-> InHour(h)]
             counts == [h \in H |-> HourlyStats[h].samples]
             totals == [h \in H |-> HourlyStats[h].total]
  <2>1. slots \in [Kinds -> Nat]
    BY DEF SlotsTyped
  <2>2. IsFiniteSet(H) /\ IsFiniteSet(Joined)
    <3>1. 0 \in Int /\ 23 \in Int
      OBVIOUS
    <3> QED
      BY <2>1, <3>1, FS_Interval, ValuesTyped, CountOfPart
  <2>3. of \in [Joined -> H]
    BY KindsAssumption, ValuesTyped
  <2>4. In \in [H -> SUBSET Joined] /\ \A h \in H : \A k \in Joined : k \in In[h] <=> of[k] = h
    BY DEF InHour
  <2>5. \A h \in H : /\ counts[h] = SumFunctionOnSet(slots, In[h])
                     /\ totals[h] = SumOver(Errors, In[h])
    BY DEF HourlyStats, Count, Total
  <2>6. \A h \in H : SumOver(Errors, In[h]) = SumFunctionOnSet(Weighted(Errors), In[h])
    BY DEF SumOver, Weighted
  <2>7. SumFunction(counts) = SumFunctionOnSet(counts, H)
        /\ SumFunction(totals) = SumFunctionOnSet(totals, H)
    BY DEF SumFunction
  <2> HIDE DEF H, of, In, counts, totals
  <2>8. /\ \A k \in Joined : Weighted(Errors)[k] \in Nat /\ slots[k] \in Nat
        /\ SumOver(Errors, Joined) = SumFunctionOnSet(Weighted(Errors), Joined)
    <3>1. Joined \in SUBSET Joined
      OBVIOUS
    <3> QED
      BY <2>1, <3>1, ValuesTyped, WeightedTyped
  <2>9. SumFunctionOnSet(counts, H) = Count(Joined)
    <3>1. \A h \in H : counts[h] = SumFunctionOnSet(slots, In[h])
      BY <2>5
    <3>2. \A k \in Joined : slots[k] \in Int
      BY <2>8
    <3>3. SumFunctionOnSet(counts, H) = SumFunctionOnSet(slots, Joined)
      BY <2>2, <2>3, <2>4, <3>1, <3>2, SumByGroups
    <3> QED
      BY <3>3 DEF Count
  <2>10. SumFunctionOnSet(totals, H) = Total(Joined)
    <3>1. \A h \in H : totals[h] = SumFunctionOnSet(Weighted(Errors), In[h])
      BY <2>5, <2>6
    <3>2. \A k \in Joined : Weighted(Errors)[k] \in Int
      BY <2>8
    <3>3. SumFunctionOnSet(totals, H) = SumFunctionOnSet(Weighted(Errors), Joined)
      BY <2>2, <2>3, <2>4, <3>1, <3>2, SumByGroups
    <3> QED
      BY <2>8, <3>3 DEF Total
  <2>11. SumFunction(counts) = ErrorStats.samples /\ SumFunction(totals) = ErrorStats.mae[1]
    BY <2>1, <2>7, <2>9, <2>10, StatsAreSums
  <2> QED
    BY <2>11 DEF HourlyAddsUp, counts, totals, H
<1> QED
  BY <1>1, SpecSlots, PTL

\* The median is no larger than p99, and p99 no larger than the maximum.
LEMMA MedianBelowP99 ==
    ASSUME NEW s, SortedSample(s), Len(s) > 0
    PROVE  /\ TwiceMedian(s) <= 2 * P99(s) /\ P99(s) <= s[Len(s)]
<1> DEFINE n == Len(s)
           mid == n \div 2
           a == IndexOfP99(n)
<1>1. n \in Nat \ {0} /\ DOMAIN s = 1..n /\ \A i \in 1..n : s[i] \in Nat
  BY DEF SortedSample
<1>2. a \in 0..(n - 1) /\ 100 * (a + 1) >= 99 * n
  BY <1>1, IndexSplits
<1>3. P99(s) = s[a + 1]
  BY DEF P99
<1>4. TwiceMedian(s) = IF n % 2 = 1 THEN 2 * s[mid + 1] ELSE s[mid] + s[mid + 1]
  BY DEF TwiceMedian
<1>5. \A i \in 1..n : \A j \in i..n : s[i] <= s[j]
  BY DEF SortedSample
<1> HIDE DEF n, a
<1>6. mid \in Nat /\ 2 * mid <= n /\ n <= 2 * mid + 1 /\ (n % 2 = 1 \/ n = 2 * mid)
  BY <1>1
<1> HIDE DEF mid
<1>7. a \in Nat /\ a + 1 \in 1..n /\ n \in (a + 1)..n /\ mid <= a
  <2>1. mid <= a
    <3>1. CASE n <= 2
      BY <1>1, <1>2, <1>6, <3>1
    <3>2. CASE n > 2
      BY <1>1, <1>2, <1>6, <3>2
    <3> QED
      BY <1>1, <3>1, <3>2
  <2> QED
    BY <1>1, <1>2, <2>1
<1>8. P99(s) <= s[n] /\ P99(s) \in Nat
  BY <1>1, <1>3, <1>5, <1>7
<1>9. s[mid + 1] \in Nat /\ s[mid + 1] <= P99(s)
  <2>1. mid + 1 \in 1..n /\ a + 1 \in (mid + 1)..n
    BY <1>1, <1>6, <1>7
  <2> QED
    BY <1>1, <1>3, <1>5, <2>1
<1>10. TwiceMedian(s) <= 2 * P99(s)
  <2>1. CASE n % 2 = 1
    BY <1>4, <1>8, <1>9, <2>1
  <2>2. CASE n % 2 # 1
    <3>1. mid \in 1..n /\ a + 1 \in mid..n
      BY <1>1, <1>6, <1>7, <2>2
    <3>2. s[mid] \in Nat /\ s[mid] <= P99(s)
      BY <1>1, <1>3, <1>5, <3>1
    <3> QED
      BY <1>4, <1>8, <1>9, <2>2, <3>2
  <2> QED
    BY <2>1, <2>2
<1> QED
  BY <1>8, <1>10 DEF n

\* The errors with their signs add up to no more, either way, than without.
LEMMA BiasBelowTotal ==
    ASSUME slots \in [Kinds -> Nat]
    PROVE  LET bias == SumOver([k \in Joined |-> Signed(k)], Joined)
           IN  bias <= Total(Joined) /\ -bias <= Total(Joined)
<1> DEFINE f == Weighted([k \in Joined |-> Signed(k)])
           g == Weighted(Errors)
<1>1. IsFiniteSet(Joined)
  BY ValuesTyped, CountOfPart
<1>2. /\ SumOver([k \in Joined |-> Signed(k)], Joined) = SumFunctionOnSet(f, Joined)
      /\ Total(Joined) = SumFunctionOnSet(g, Joined)
  BY DEF SumOver, Weighted, Total
<1>3. \A k \in Joined : f[k] \in Int /\ g[k] \in Int /\ f[k] <= g[k] /\ -f[k] <= g[k]
  <2> SUFFICES ASSUME NEW k \in Joined
               PROVE  f[k] \in Int /\ g[k] \in Int /\ f[k] <= g[k] /\ -f[k] <= g[k]
    OBVIOUS
  <2>1. /\ slots[k] \in Nat /\ Signed(k) \in Int /\ AbsError(k) \in Int /\ -Signed(k) \in Int
        /\ Signed(k) <= AbsError(k) /\ -Signed(k) <= AbsError(k) /\ Errors[k] = AbsError(k)
    BY ValuesTyped
  <2>2. DOMAIN Errors = Joined
    BY ValuesTyped
  <2>3. f[k] = slots[k] * Signed(k) /\ g[k] = slots[k] * AbsError(k)
    BY <2>1, <2>2 DEF Weighted
  <2>4. /\ slots[k] * Signed(k) <= slots[k] * AbsError(k)
        /\ slots[k] * (-Signed(k)) <= slots[k] * AbsError(k)
    BY <2>1, ProductGrows
  <2>5. slots[k] * (-Signed(k)) = -(slots[k] * Signed(k))
    BY <2>1
  <2>6. slots[k] * Signed(k) \in Int /\ slots[k] * AbsError(k) \in Int
    BY <2>1
  <2> HIDE DEF f, g
  <2> QED
    BY <2>3, <2>4, <2>5, <2>6
<1> HIDE DEF f, g
<1>4. SumFunctionOnSet(f, Joined) <= SumFunctionOnSet(g, Joined)
  BY <1>1, <1>3, SumGrows
<1>5. -SumFunctionOnSet(f, Joined) <= SumFunctionOnSet(g, Joined)
  BY <1>1, <1>3, SumStaysAbove
<1> QED
  BY <1>2, <1>4, <1>5

\* The four error figures agree in every window.
THEOREM FiguresAlwaysAgree == Spec => []FiguresAgree
<1>1. TypeOK => FiguresAgree
  <2> DEFINE n == Len(AbsErrors)
             bias == SumOver([k \in Joined |-> Signed(k)], Joined)
             sq == [k \in Joined |-> AbsError(k) * AbsError(k)]
  <2> SUFFICES ASSUME TypeOK, n > 0
               PROVE  /\ ErrorStats.twiceMedian <= 2 * ErrorStats.p99
                      /\ ErrorStats.p99 <= AbsErrors[n]
                      /\ ErrorStats.mae[1] <= n * AbsErrors[n]
                      /\ ErrorStats.mae[1] * ErrorStats.mae[1] <= n * ErrorStats.mse[1]
                      /\ bias <= ErrorStats.mae[1] /\ -bias <= ErrorStats.mae[1]
    BY DEF FiguresAgree
  <2>1. slots \in [Kinds -> Nat] /\ SortedSample(AbsErrors)
    BY DEF TypeOK
  <2>2. /\ n = Count(Joined) /\ n \in Nat
        /\ ErrorStats.mae[1] = Total(Joined) /\ ErrorStats.mse[1] = Squares
        /\ ErrorStats.twiceMedian = TwiceMedian(AbsErrors)
        /\ ErrorStats.p99 = P99(AbsErrors)
    BY <2>1, StatsAreSums
  <2>3. TwiceMedian(AbsErrors) <= 2 * P99(AbsErrors) /\ P99(AbsErrors) <= AbsErrors[n]
    BY <2>1, MedianBelowP99
  <2>4. Total(Joined) <= n * AbsErrors[n]
    <3>1. n \in 1..n
      BY <2>2
    <3>2. AbsErrors[n] \in Nat
      BY <2>1, <3>1 DEF SortedSample
    <3>3. \A k \in Joined : slots[k] > 0 => Errors[k] <= AbsErrors[n]
      BY <2>1, <2>2, ValuesTyped, LastIsLargest DEF AbsErrors
    <3>4. SumOver(Errors, Joined) <= Count(Joined) * AbsErrors[n]
      BY <2>1, <3>2, <3>3, ValuesTyped, MeanBelowLargest
    <3> QED
      BY <2>2, <3>4 DEF Total
  <2>5. Total(Joined) * Total(Joined) <= n * Squares
    <3>1. [k \in Joined |-> Errors[k] * Errors[k]] = sq
      BY ValuesTyped
    <3>2. SumOver(Errors, Joined) * SumOver(Errors, Joined)
             <= Count(Joined) * SumOver([k \in Joined |-> Errors[k] * Errors[k]], Joined)
      BY <2>1, ValuesTyped, MeanBelowRootMeanSquare
    <3>3. Squares = SumOver([k \in Joined |-> Errors[k] * Errors[k]], Joined)
      BY <3>1 DEF Squares
    <3> QED
      BY <2>2, <3>2, <3>3 DEF Total
  <2>6. bias <= Total(Joined) /\ -bias <= Total(Joined)
    BY <2>1, BiasBelowTotal
  <2> QED
    BY <2>2, <2>3, <2>4, <2>5, <2>6
<1> QED
  BY <1>1, TypeCorrect, PTL
=============================================================================
