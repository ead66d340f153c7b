--------------------------- MODULE LRUCacheProofs ---------------------------
(***************************************************************************)
(* Proofs about LRUCache, for every capacity, every set of keys, values    *)
(* and ttls, and every way the wall clock may be stepped.                  *)
(*                                                                         *)
(* The inductive invariant is OrderInv: the types together with UseOrder.  *)
(* UseOrder is what makes keys distinct (no key precedes itself), which in *)
(* turn is what keeps it true when an entry moves to the end.              *)
(***************************************************************************)
EXTENDS LRUCache, SequenceTheorems, FiniteSetTheorems, TLAPS

OrderInv == TypeOK /\ UseOrder

-----------------------------------------------------------------------------
(* Sequences *)

\* Removing the i-th element closes the gap and keeps the order of the rest.
LEMMA RemoveAtProperties ==
    ASSUME NEW S, NEW s \in Seq(S), NEW i \in 1..Len(s)
    PROVE  /\ RemoveAt(s, i) \in Seq(S)
           /\ Len(RemoveAt(s, i)) = Len(s) - 1
           /\ \A j \in 1..(Len(s) - 1) :
                 RemoveAt(s, i)[j] = IF j < i THEN s[j] ELSE s[j + 1]
<1> DEFINE l == SubSeq(s, 1, i - 1)
           r == SubSeq(s, i + 1, Len(s))
<1>0. Len(s) \in Nat /\ \A j \in 1..Len(s) : s[j] \in S
  BY ElementOfSeq, LenProperties
<1>1. /\ l \in Seq(S)
      /\ Len(l) = i - 1
      /\ \A j \in 1..(i - 1) : l[j] = s[j]
  <2>1. \A j \in 1..(i - 1) : s[j] \in S
    BY <1>0
  <2> QED
    BY <1>0, <2>1, SubSeqProperties
<1>2. /\ r \in Seq(S)
      /\ Len(r) = Len(s) - i
      /\ \A j \in 1..(Len(s) - i) : r[j] = s[i + j]
  <2>1. \A j \in (i + 1)..Len(s) : s[j] \in S
    BY <1>0
  <2>2. /\ r \in Seq(S)
        /\ Len(r) = IF i + 1 <= Len(s) THEN Len(s) - (i + 1) + 1 ELSE 0
        /\ \A j \in 1..(Len(s) - (i + 1) + 1) : r[j] = s[(i + 1) + j - 1]
    BY <1>0, <2>1, SubSeqProperties
  <2> QED
    BY <1>0, <2>2
<1>3. RemoveAt(s, i) = l \o r
  BY DEF RemoveAt
<1>4. /\ l \o r \in Seq(S)
      /\ Len(l \o r) = Len(l) + Len(r)
      /\ \A j \in 1..(Len(l) + Len(r)) :
            (l \o r)[j] = IF j <= Len(l) THEN l[j] ELSE r[j - Len(l)]
  BY <1>1, <1>2, ConcatProperties
<1> HIDE DEF l, r
<1> QED
  BY <1>0, <1>1, <1>2, <1>3, <1>4

\* No key is cached twice.
LEMMA DistinctKeys ==
    ASSUME OrderInv, NEW i \in DOMAIN cache, NEW j \in DOMAIN cache, i # j
    PROVE  cache[i].key # cache[j].key
<1>1. DOMAIN cache = 1..Len(cache) /\ Len(cache) \in Nat
  BY LenProperties DEF OrderInv, TypeOK
<1>2. \A a, b \in DOMAIN cache : a < b => cache[a].key # cache[b].key
  BY DEF OrderInv, TypeOK, UseOrder
<1> QED
  BY <1>1, <1>2

\* A use of k: the other cached keys keep their order and k comes after them.
LEMMA UseAtEnd ==
    ASSUME OrderInv,
           NEW k \in Keys, NEW e \in Entries, e.key = k,
           NEW s \in Seq(Entries), NEW f \in [1..Len(s) -> DOMAIN cache],
           \A a, b \in 1..Len(s) : a < b => f[a] < f[b],
           \A a \in 1..Len(s) : s[a] = cache[f[a]] /\ cache[f[a]].key # k
    PROVE  \A a, b \in DOMAIN Append(s, e) :
              a < b => <<Append(s, e)[a].key, Append(s, e)[b].key>> \in Used(k)
<1> SUFFICES ASSUME NEW a \in DOMAIN Append(s, e), NEW b \in DOMAIN Append(s, e), a < b
             PROVE  <<Append(s, e)[a].key, Append(s, e)[b].key>> \in Used(k)
  OBVIOUS
<1>1. Len(s) \in Nat /\ DOMAIN Append(s, e) = 1..(Len(s) + 1)
  BY AppendProperties, LenProperties
<1>2. /\ \A j \in 1..Len(s) : Append(s, e)[j] = s[j]
      /\ Append(s, e)[Len(s) + 1] = e
  BY AppendProperties
<1>3. a \in 1..Len(s)
  BY <1>1
<1>4. cache[f[a]].key \in CachedKeys \ {k} /\ Append(s, e)[a].key = cache[f[a]].key
  BY <1>2, <1>3 DEF CachedKeys
<1>5. CASE b = Len(s) + 1
  BY <1>2, <1>4, <1>5 DEF Used
<1>6. CASE b \in 1..Len(s)
  <2>1. cache[f[b]].key \in CachedKeys \ {k} /\ Append(s, e)[b].key = cache[f[b]].key
    BY <1>2, <1>6 DEF CachedKeys
  <2>2. <<cache[f[a]].key, cache[f[b]].key>> \in before
    BY <1>3, <1>6 DEF OrderInv, UseOrder
  <2> QED
    BY <1>4, <2>1, <2>2 DEF Used
<1>7. b = Len(s) + 1 \/ b \in 1..Len(s)
  BY <1>1
<1> QED
  BY <1>5, <1>6, <1>7

\* Removing entry i leaves a sequence that embeds into the cache without it.
LEMMA RemoveEmbeds ==
    ASSUME OrderInv, NEW i \in DOMAIN cache
    PROVE  /\ RemoveAt(cache, i) \in Seq(Entries)
           /\ Len(RemoveAt(cache, i)) = Len(cache) - 1
           /\ \E f \in [1..Len(RemoveAt(cache, i)) -> DOMAIN cache] :
                /\ \A a, b \in 1..Len(RemoveAt(cache, i)) : a < b => f[a] < f[b]
                /\ \A a \in 1..Len(RemoveAt(cache, i)) :
                      /\ RemoveAt(cache, i)[a] = cache[f[a]]
                      /\ cache[f[a]].key # cache[i].key
<1> DEFINE s == RemoveAt(cache, i)
           f == [a \in 1..Len(s) |-> IF a < i THEN a ELSE a + 1]
<1>1. cache \in Seq(Entries) /\ DOMAIN cache = 1..Len(cache) /\ Len(cache) \in Nat
  BY LenProperties DEF OrderInv, TypeOK
<1>2. /\ s \in Seq(Entries)
      /\ Len(s) = Len(cache) - 1
      /\ \A j \in 1..(Len(cache) - 1) : s[j] = IF j < i THEN cache[j] ELSE cache[j + 1]
  BY <1>1, RemoveAtProperties
<1> HIDE DEF s
<1>3. f \in [1..Len(s) -> DOMAIN cache]
  BY <1>1, <1>2
<1>4. \A a, b \in 1..Len(s) : a < b => f[a] < f[b]
  BY <1>1, <1>2
<1>5. \A a \in 1..Len(s) : s[a] = cache[f[a]] /\ f[a] # i
  BY <1>1, <1>2
<1>6. \A a \in 1..Len(s) : cache[f[a]].key # cache[i].key
  BY <1>3, <1>5, DistinctKeys
<1> HIDE DEF f
<1>7. \E g \in [1..Len(s) -> DOMAIN cache] :
         /\ \A a, b \in 1..Len(s) : a < b => g[a] < g[b]
         /\ \A a \in 1..Len(s) : s[a] = cache[g[a]] /\ cache[g[a]].key # cache[i].key
  BY <1>3, <1>4, <1>5, <1>6
<1> QED
  BY <1>2, <1>7 DEF s

\* The oldest entry gone, the rest embed into the cache one place on.
LEMMA TailEmbeds ==
    ASSUME OrderInv, cache # << >>
    PROVE  /\ Tail(cache) \in Seq(Entries)
           /\ Len(Tail(cache)) = Len(cache) - 1
           /\ \A a \in 1..(Len(cache) - 1) : Tail(cache)[a] = cache[a + 1]
BY HeadTailProperties DEF OrderInv, TypeOK

-----------------------------------------------------------------------------
(* Steps *)

LEMMA TypedEntries ==
    ASSUME TypeOK
    PROVE  /\ cache \in Seq(Entries)
           /\ Len(cache) \in Nat
           /\ DOMAIN cache = 1..Len(cache)
           /\ CachedKeys \subseteq Keys
           /\ \A i \in DOMAIN cache : cache[i] \in Entries /\ cache[i].key \in Keys
<1>1. cache \in Seq(Entries) /\ Len(cache) \in Nat /\ DOMAIN cache = 1..Len(cache)
  BY LenProperties DEF TypeOK
<1>2. \A i \in DOMAIN cache : cache[i] \in Entries
  BY <1>1, ElementOfSeq
<1> QED
  BY <1>1, <1>2 DEF CachedKeys, Entries

LEMMA UsedTyped ==
    ASSUME TypeOK, NEW k \in Keys
    PROVE  Used(k) \subseteq {p \in Keys \X Keys : p[1] # p[2]}
BY TypedEntries DEF Used, TypeOK

LEMMA NewEntryTyped ==
    ASSUME TypeOK, NEW k \in Keys, NEW v \in Values, NEW ttl \in Ttls
    PROVE  NewEntry(k, v, ttl) \in Entries /\ NewEntry(k, v, ttl).key = k
<1>1. EffectiveTtl(ttl) \in Nat /\ PromisedTtl(ttl) \in Nat
  BY TtlAssumption DEF EffectiveTtl, PromisedTtl
<1> QED
  BY <1>1 DEF TypeOK, NewEntry, Entries

\* Entry i, changed or not, moved to the most recent end.
LEMMA MoveToEndStep ==
    ASSUME OrderInv, NEW i \in DOMAIN cache, NEW e \in Entries, e.key = cache[i].key,
           cache' = MovedToEnd(i, e), before' = Used(cache[i].key)
    PROVE  /\ cache' \in Seq(Entries)
           /\ Len(cache') <= MaxSize
           /\ UseOrder'
<1>0. cache[i].key \in Keys
  BY TypedEntries DEF OrderInv
<1> DEFINE s == RemoveAt(cache, i)
<1>1. PICK f \in [1..Len(s) -> DOMAIN cache] :
        /\ \A a, b \in 1..Len(s) : a < b => f[a] < f[b]
        /\ \A a \in 1..Len(s) : s[a] = cache[f[a]] /\ cache[f[a]].key # cache[i].key
  BY RemoveEmbeds
<1>2. s \in Seq(Entries) /\ Len(s) = Len(cache) - 1
  BY RemoveEmbeds
<1>3. cache' = Append(s, e)
  BY DEF MovedToEnd
<1> HIDE DEF s
<1>4. \A a, b \in DOMAIN Append(s, e) :
         a < b => <<Append(s, e)[a].key, Append(s, e)[b].key>> \in Used(cache[i].key)
  BY <1>0, <1>1, <1>2, UseAtEnd
<1>5. UseOrder'
  BY <1>3, <1>4 DEF UseOrder
<1>6. Append(s, e) \in Seq(Entries) /\ Len(Append(s, e)) = Len(s) + 1
  BY <1>2, AppendProperties
<1>7. Len(cache') <= MaxSize
  BY <1>2, <1>3, <1>6, TypedEntries, SizeAssumption DEF OrderInv, TypeOK
<1> QED
  BY <1>3, <1>5, <1>6, <1>7

\* A set of a key that is not cached, with or without an eviction.
LEMMA NewKeyStep ==
    ASSUME OrderInv, NEW k \in Keys, NEW e \in Entries, e.key = k, k \notin CachedKeys,
           \/ Full /\ cache' = Append(OldestPopped, e)
           \/ ~Full /\ cache' = Append(cache, e),
           before' = Used(k)
    PROVE  /\ cache' \in Seq(Entries)
           /\ Len(cache') <= MaxSize
           /\ UseOrder'
<1>0. \A i \in DOMAIN cache : cache[i].key # k
  BY DEF CachedKeys
<1>1. /\ cache \in Seq(Entries) /\ Len(cache) \in Nat /\ DOMAIN cache = 1..Len(cache)
      /\ Len(cache) <= MaxSize
  BY TypedEntries DEF OrderInv, TypeOK
<1>2. CASE Full /\ cache' = Append(OldestPopped, e)
  <2> DEFINE s == Tail(cache)
             f == [a \in 1..Len(s) |-> a + 1]
  <2>1. cache # << >>
    <3>1. Len(cache) > 0
      BY <1>1, <1>2, SizeAssumption DEF Full
    <3> QED
      BY <1>1, <3>1, EmptySeq
  <2>2. s \in Seq(Entries) /\ Len(s) = Len(cache) - 1
        /\ \A a \in 1..(Len(cache) - 1) : s[a] = cache[a + 1]
    BY <2>1, TailEmbeds
  <2>3. cache' = Append(s, e)
    BY <1>2 DEF OldestPopped
  <2> HIDE DEF s
  <2>4. /\ f \in [1..Len(s) -> DOMAIN cache]
        /\ \A a, b \in 1..Len(s) : a < b => f[a] < f[b]
        /\ \A a \in 1..Len(s) : s[a] = cache[f[a]] /\ cache[f[a]].key # k
    <3>1. f \in [1..Len(s) -> DOMAIN cache]
      BY <1>1, <2>2
    <3>2. \A a, b \in 1..Len(s) : a < b => f[a] < f[b]
      BY <1>1, <2>2
    <3>3. \A a \in 1..Len(s) : s[a] = cache[f[a]]
      BY <1>1, <2>2
    <3> QED
      BY <1>0, <3>1, <3>2, <3>3
  <2> HIDE DEF f
  <2>5. \A a, b \in DOMAIN Append(s, e) :
           a < b => <<Append(s, e)[a].key, Append(s, e)[b].key>> \in Used(k)
    BY <2>2, <2>4, UseAtEnd
  <2>6. UseOrder'
    BY <2>3, <2>5 DEF UseOrder
  <2>7. Append(s, e) \in Seq(Entries) /\ Len(Append(s, e)) = Len(s) + 1
    BY <2>2, AppendProperties
  <2>8. Len(cache') <= MaxSize
    BY <1>1, <2>2, <2>3, <2>7, SizeAssumption
  <2> QED
    BY <2>3, <2>6, <2>7, <2>8
<1>3. CASE ~Full /\ cache' = Append(cache, e)
  <2> DEFINE f == [a \in 1..Len(cache) |-> a]
  <2>1. /\ f \in [1..Len(cache) -> DOMAIN cache]
        /\ \A a, b \in 1..Len(cache) : a < b => f[a] < f[b]
        /\ \A a \in 1..Len(cache) : cache[a] = cache[f[a]] /\ cache[f[a]].key # k
    BY <1>0, <1>1
  <2> HIDE DEF f
  <2>2. \A a, b \in DOMAIN Append(cache, e) :
           a < b => <<Append(cache, e)[a].key, Append(cache, e)[b].key>> \in Used(k)
    BY <1>1, <2>1, UseAtEnd
  <2>3. UseOrder'
    BY <1>3, <2>2 DEF UseOrder
  <2>4. Append(cache, e) \in Seq(Entries) /\ Len(Append(cache, e)) = Len(cache) + 1
    BY <1>1, AppendProperties
  <2>5. Len(cache') <= MaxSize
    BY <1>1, <1>3, <2>4, SizeAssumption DEF Full
  <2> QED
    BY <1>3, <2>3, <2>4, <2>5
<1> QED
  BY <1>2, <1>3

\* Any step that only drops entries and does not use one.
LEMMA DropStep ==
    ASSUME OrderInv, UNCHANGED before,
           NEW n \in 0..Len(cache), NEW f \in [1..n -> DOMAIN cache],
           \A a, b \in 1..n : a < b => f[a] < f[b],
           cache' \in Seq(Entries), Len(cache') = n,
           \A a \in 1..n : cache'[a] = cache[f[a]]
    PROVE  Len(cache') <= MaxSize /\ UseOrder'
<1>1. Len(cache) \in Nat /\ Len(cache) <= MaxSize
  BY TypedEntries DEF OrderInv, TypeOK
<1>2. DOMAIN cache' = 1..n
  BY LenProperties
<1>3. \A a, b \in 1..n : a < b => <<cache[f[a]].key, cache[f[b]].key>> \in before
  BY DEF OrderInv, UseOrder
<1> QED
  BY <1>1, <1>2, <1>3, SizeAssumption DEF UseOrder

-----------------------------------------------------------------------------
(* The invariant *)

LEMMA InitOrder == Init => OrderInv
<1> SUFFICES ASSUME Init PROVE OrderInv
  OBVIOUS
<1>1. cache \in Seq(Entries) /\ Len(cache) = 0 /\ DOMAIN cache = {}
  BY EmptySeq DEF Init
<1> QED
  BY <1>1, SizeAssumption DEF Init, OrderInv, TypeOK, UseOrder, Results

LEMMA NextOrder == OrderInv /\ [Next]_vars => OrderInv'
<1> SUFFICES ASSUME OrderInv, [Next]_vars
             PROVE  OrderInv'
  OBVIOUS
<1>0. TypeOK
  BY DEF OrderInv
<1>1. ASSUME NEW k \in Keys, MissAbsent(k)
      PROVE  OrderInv'
  BY <1>0, <1>1 DEF MissAbsent, OrderInv, TypeOK, UseOrder, Results
<1>2. ASSUME NEW k \in Keys, MissExpired(k)
      PROVE  OrderInv'
  <2>1. PICK i \in DOMAIN cache : cache' = RemoveAt(cache, i)
    BY <1>2 DEF MissExpired
  <2>2. PICK f \in [1..Len(cache') -> DOMAIN cache] :
          /\ \A a, b \in 1..Len(cache') : a < b => f[a] < f[b]
          /\ \A a \in 1..Len(cache') : cache'[a] = cache[f[a]]
    <3> DEFINE s == RemoveAt(cache, i)
    <3>1. \E f \in [1..Len(s) -> DOMAIN cache] :
            /\ \A a, b \in 1..Len(s) : a < b => f[a] < f[b]
            /\ \A a \in 1..Len(s) : s[a] = cache[f[a]] /\ cache[f[a]].key # cache[i].key
      BY RemoveEmbeds
    <3>2. cache' = s
      BY <2>1
    <3> HIDE DEF s
    <3> QED
      BY <3>1, <3>2
  <2>3. cache' \in Seq(Entries) /\ Len(cache') \in 0..Len(cache)
    <3>1. cache' \in Seq(Entries) /\ Len(cache') = Len(cache) - 1
      BY <2>1, RemoveEmbeds
    <3> QED
      BY <1>0, <2>1, <3>1, TypedEntries
  <2>4. Len(cache') <= MaxSize /\ UseOrder'
    BY <1>2, <2>2, <2>3, DropStep DEF MissExpired
  <2> QED
    BY <1>0, <1>2, <2>3, <2>4 DEF MissExpired, OrderInv, TypeOK, Results
<1>3. ASSUME NEW k \in Keys, Hit(k)
      PROVE  OrderInv'
  <2>1. PICK i \in DOMAIN cache :
          /\ cache[i].key = k
          /\ cache' = MovedToEnd(i, cache[i])
          /\ result' = [op |-> "get", key |-> k, value |-> cache[i].value]
    BY <1>3 DEF Hit
  <2>2. cache[i] \in Entries /\ before' = Used(k)
    BY <1>0, <1>3, TypedEntries DEF Hit
  <2>3. cache' \in Seq(Entries) /\ Len(cache') <= MaxSize /\ UseOrder'
    BY <2>1, <2>2, MoveToEndStep
  <2>4. result' \in Results
    BY <2>1, <2>2 DEF Results, Entries
  <2> QED
    BY <1>0, <1>3, <2>2, <2>3, <2>4, UsedTyped DEF Hit, OrderInv, TypeOK
<1>4. ASSUME NEW k \in Keys, NEW v \in Values, NEW ttl \in Ttls, Set(k, v, ttl)
      PROVE  OrderInv'
  <2> DEFINE e == NewEntry(k, v, ttl)
  <2>1. e \in Entries /\ e.key = k
    BY <1>0, NewEntryTyped
  <2>2. /\ \/ \E i \in DOMAIN cache : cache[i].key = k /\ cache' = MovedToEnd(i, e)
           \/ k \notin CachedKeys /\ Full /\ cache' = Append(OldestPopped, e)
           \/ k \notin CachedKeys /\ ~Full /\ cache' = Append(cache, e)
        /\ before' = Used(k)
    BY <1>4 DEF Set
  <2> HIDE DEF e
  <2>3. cache' \in Seq(Entries) /\ Len(cache') <= MaxSize /\ UseOrder'
    BY <2>1, <2>2, MoveToEndStep, NewKeyStep
  <2> QED
    BY <1>0, <1>4, <2>2, <2>3, UsedTyped DEF Set, OrderInv, TypeOK, Results
<1>5. ASSUME NEW p \in KeyPrefixes, InvalidatePrefix(p)
      PROVE  OrderInv'
  <2> DEFINE n == Cardinality(Survivors(p))
  <2>1. n \in 0..Len(cache)
    <3>1. IsFiniteSet(1..Len(cache)) /\ Cardinality(1..Len(cache)) = Len(cache)
      BY <1>0, TypedEntries, FS_Interval
    <3>2. Survivors(p) \subseteq 1..Len(cache)
      BY <1>0, TypedEntries DEF Survivors
    <3> QED
      BY <1>0, <3>1, <3>2, TypedEntries, FS_Subset, FS_CardinalityType
  <2>2. PICK f \in [1..n -> Survivors(p)] :
          /\ \A a, b \in 1..n : a < b => f[a] < f[b]
          /\ cache' = [a \in 1..n |-> cache[f[a]]]
    BY <1>5 DEF InvalidatePrefix
  <2> HIDE DEF n
  <2>3. f \in [1..n -> DOMAIN cache]
    BY <2>2 DEF Survivors
  <2>4. \A a \in 1..n : cache[f[a]] \in Entries
    BY <1>0, <2>3, TypedEntries
  <2>5. n \in Nat
    BY <1>0, <2>1, TypedEntries
  <2>6. cache' \in Seq(Entries) /\ Len(cache') = n
    BY <2>2, <2>4, <2>5, IsASeq, LenProperties
  <2>7. Len(cache') <= MaxSize /\ UseOrder'
    BY <1>5, <2>1, <2>2, <2>3, <2>6, DropStep DEF InvalidatePrefix
  <2>8. result' \in Results
    <3>1. Len(cache) - n \in Nat
      BY <1>0, <2>1, TypedEntries
    <3> QED
      BY <1>5, <3>1 DEF InvalidatePrefix, Results, n
  <2> QED
    BY <1>0, <1>5, <2>6, <2>7, <2>8 DEF InvalidatePrefix, OrderInv, TypeOK
<1>6. CASE InvalidateAll
  <2>1. cache' \in Seq(Entries) /\ Len(cache') = 0 /\ DOMAIN cache' = {}
    BY <1>6, EmptySeq DEF InvalidateAll
  <2>2. UseOrder' /\ Len(cache') <= MaxSize
    BY <2>1, SizeAssumption DEF UseOrder
  <2>3. result' \in Results
    BY <1>0, <1>6, TypedEntries DEF InvalidateAll, Results
  <2> QED
    BY <1>0, <1>6, <2>1, <2>2, <2>3 DEF InvalidateAll, OrderInv, TypeOK
<1>7. CASE Tick
  BY <1>0, <1>7 DEF Tick, OrderInv, TypeOK, UseOrder, Results
<1>8. ASSUME NEW d \in Jumps, ClockJump(d)
      PROVE  OrderInv'
  <2>1. clock' \in Nat
    BY <1>8, ClockAssumption DEF ClockJump
  <2> QED
    BY <1>0, <1>8, <2>1 DEF ClockJump, OrderInv, TypeOK, UseOrder, Results
<1>9. CASE UNCHANGED vars
  BY <1>9 DEF vars, OrderInv, TypeOK, UseOrder
<1> QED
  BY <1>1, <1>2, <1>3, <1>4, <1>5, <1>6, <1>7, <1>8, <1>9 DEF Next

LEMMA SpecOrder == Spec => []OrderInv
BY InitOrder, NextOrder, PTL DEF Spec

\* Every reachable state is well typed and holds at most MaxSize entries.
THEOREM TypeCorrect == Spec => []TypeOK
<1>1. OrderInv => TypeOK
  BY DEF OrderInv
<1> QED
  BY <1>1, SpecOrder, PTL

\* The OrderedDict's order is the order of last use, in every reachable state.
THEOREM OrderIsUseOrder == Spec => []UseOrder
<1>1. OrderInv => UseOrder
  BY DEF OrderInv
<1> QED
  BY <1>1, SpecOrder, PTL

-----------------------------------------------------------------------------
(* Time to live *)

\* An entry outlives its deadline on the wall clock by no more than the wall
\* clock has run ahead of true time.
ClockAhead ==
    \A i \in DOMAIN cache : cache[i].expiry - cache[i].deadline <= clock - elapsed

TtlInv == OrderInv /\ ClockAhead /\ ServedWithinTtl

\* The entries after a step are entries of before it, or stamped by it.
LEMMA KeptOrStamped ==
    ASSUME 0 \notin Ttls, OrderInv, Next, NEW j \in DOMAIN cache'
    PROVE  \/ \E i \in DOMAIN cache : cache'[j] = cache[i]
           \/ cache'[j].expiry - cache'[j].deadline = clock - elapsed
<1>0. TypeOK
  BY DEF OrderInv
<1>1. ASSUME UNCHANGED cache
      PROVE  \E i \in DOMAIN cache : cache'[j] = cache[i]
  BY <1>1
<1>2. ASSUME NEW i \in DOMAIN cache, cache' = RemoveAt(cache, i)
      PROVE  \E a \in DOMAIN cache : cache'[j] = cache[a]
  <2> DEFINE s == RemoveAt(cache, i)
  <2>1. \E f \in [1..Len(s) -> DOMAIN cache] :
          /\ \A a, b \in 1..Len(s) : a < b => f[a] < f[b]
          /\ \A a \in 1..Len(s) : s[a] = cache[f[a]] /\ cache[f[a]].key # cache[i].key
    BY RemoveEmbeds
  <2>2. DOMAIN s = 1..Len(s)
    BY RemoveEmbeds, LenProperties
  <2>3. cache' = s
    BY <1>2
  <2> HIDE DEF s
  <2> QED
    BY <2>1, <2>2, <2>3
<1>3. ASSUME NEW i \in DOMAIN cache, NEW e \in Entries, cache' = MovedToEnd(i, e)
      PROVE  cache'[j] = e \/ \E a \in DOMAIN cache : cache'[j] = cache[a]
  <2> DEFINE s == RemoveAt(cache, i)
  <2>1. \E f \in [1..Len(s) -> DOMAIN cache] :
          /\ \A a, b \in 1..Len(s) : a < b => f[a] < f[b]
          /\ \A a \in 1..Len(s) : s[a] = cache[f[a]] /\ cache[f[a]].key # cache[i].key
    BY RemoveEmbeds
  <2>2. s \in Seq(Entries)
    BY RemoveEmbeds
  <2>3. cache' = Append(s, e)
    BY <1>3 DEF MovedToEnd
  <2> HIDE DEF s
  <2>4. /\ DOMAIN Append(s, e) = 1..(Len(s) + 1)
        /\ \A a \in 1..Len(s) : Append(s, e)[a] = s[a]
        /\ Append(s, e)[Len(s) + 1] = e
        /\ Len(s) \in Nat
    BY <2>2, AppendProperties, LenProperties
  <2>5. j = Len(s) + 1 \/ j \in 1..Len(s)
    BY <2>3, <2>4
  <2> QED
    BY <2>1, <2>3, <2>4, <2>5
<1>4. ASSUME NEW k \in Keys, Hit(k)
      PROVE  \E i \in DOMAIN cache : cache'[j] = cache[i]
  <2>1. PICK i \in DOMAIN cache : cache' = MovedToEnd(i, cache[i])
    BY <1>4 DEF Hit
  <2>2. cache[i] \in Entries
    BY <1>0, TypedEntries
  <2> QED
    BY <1>3, <2>1, <2>2
<1>5. ASSUME NEW k \in Keys, NEW v \in Values, NEW ttl \in Ttls, Set(k, v, ttl)
      PROVE  \/ \E i \in DOMAIN cache : cache'[j] = cache[i]
             \/ cache'[j].expiry - cache'[j].deadline = clock - elapsed
  <2> DEFINE e == NewEntry(k, v, ttl)
  <2>1. e \in Entries
    BY <1>0, NewEntryTyped
  <2>2. e.expiry - e.deadline = clock - elapsed
    <3>1. EffectiveTtl(ttl) = PromisedTtl(ttl) /\ EffectiveTtl(ttl) \in Nat
      BY TtlAssumption DEF EffectiveTtl, PromisedTtl
    <3> QED
      BY <1>0, <3>1 DEF NewEntry, TypeOK
  <2>3. \/ \E i \in DOMAIN cache : cache' = MovedToEnd(i, e)
        \/ Full /\ cache' = Append(Tail(cache), e)
        \/ cache' = Append(cache, e)
    BY <1>5 DEF Set, OldestPopped
  <2> HIDE DEF e
  <2>4. cache'[j] = e \/ \E i \in DOMAIN cache : cache'[j] = cache[i]
    <3>1. ASSUME NEW s \in Seq(Entries), cache' = Append(s, e)
          PROVE  cache'[j] = e \/ \E a \in DOMAIN s : cache'[j] = s[a]
      <4>1. /\ DOMAIN Append(s, e) = 1..(Len(s) + 1)
            /\ \A a \in 1..Len(s) : Append(s, e)[a] = s[a]
            /\ Append(s, e)[Len(s) + 1] = e
            /\ Len(s) \in Nat /\ DOMAIN s = 1..Len(s)
        BY <2>1, AppendProperties, LenProperties
      <4>2. j = Len(s) + 1 \/ j \in 1..Len(s)
        BY <3>1, <4>1
      <4> QED
        BY <3>1, <4>1, <4>2
    <3>2. CASE Full /\ cache' = Append(Tail(cache), e)
      <4>1. cache # << >>
        <5>1. Len(cache) > 0
          BY <1>0, <3>2, TypedEntries, SizeAssumption DEF Full
        <5> QED
          BY <5>1, EmptySeq
      <4>2. /\ Tail(cache) \in Seq(Entries)
            /\ Len(Tail(cache)) = Len(cache) - 1
            /\ \A a \in 1..(Len(cache) - 1) : Tail(cache)[a] = cache[a + 1]
        BY <4>1, TailEmbeds
      <4>3. cache'[j] = e \/ \E a \in DOMAIN Tail(cache) : cache'[j] = Tail(cache)[a]
        BY <3>1, <3>2, <4>2
      <4>4. DOMAIN Tail(cache) = 1..(Len(cache) - 1)
        BY <4>2, LenProperties
      <4>5. \A a \in 1..(Len(cache) - 1) : a + 1 \in DOMAIN cache
        BY <1>0, TypedEntries
      <4> QED
        BY <4>2, <4>3, <4>4, <4>5
    <3> QED
      BY <1>0, <1>3, <2>1, <2>3, <3>1, <3>2, TypedEntries
  <2> QED
    BY <2>2, <2>4
<1>6. ASSUME NEW p \in KeyPrefixes, InvalidatePrefix(p)
      PROVE  \E i \in DOMAIN cache : cache'[j] = cache[i]
  BY <1>6 DEF InvalidatePrefix, Survivors
<1>7. ~InvalidateAll
  BY EmptySeq DEF InvalidateAll
<1> QED
  BY <1>1, <1>2, <1>4, <1>5, <1>6, <1>7
     DEF Next, MissAbsent, MissExpired, Tick, ClockJump

\* Neither clock nor elapsed loses ground: the wall clock is never stepped back.
LEMMA ClockGains ==
    ASSUME TypeOK, Next, Jumps \subseteq Nat
    PROVE  clock - elapsed <= clock' - elapsed' /\ clock' \in Nat /\ elapsed' \in Nat
<1>1. CASE UNCHANGED <<clock, elapsed>>
  BY <1>1 DEF TypeOK
<1>2. CASE Tick
  BY <1>2 DEF TypeOK, Tick
<1>3. ASSUME NEW d \in Jumps, ClockJump(d)
      PROVE  clock - elapsed <= clock' - elapsed' /\ clock' \in Nat /\ elapsed' \in Nat
  <2>1. d \in Nat
    OBVIOUS
  <2> QED
    BY <1>3, <2>1 DEF TypeOK, ClockJump
<1> QED
  BY <1>1, <1>2, <1>3
     DEF Next, MissAbsent, MissExpired, Hit, Set, InvalidatePrefix, InvalidateAll

LEMMA NextTtl ==
    ASSUME Jumps \subseteq Nat, 0 \notin Ttls
    PROVE  TtlInv /\ [Next]_vars => TtlInv'
<1> SUFFICES ASSUME TtlInv, [Next]_vars
             PROVE  TtlInv'
  OBVIOUS
<1>0. OrderInv /\ TypeOK /\ ClockAhead /\ ServedWithinTtl
  BY DEF TtlInv, OrderInv
<1>1. OrderInv'
  BY <1>0, NextOrder
<1>2. CASE UNCHANGED vars
  BY <1>0, <1>1, <1>2 DEF vars, TtlInv, ClockAhead, ServedWithinTtl
<1>3. CASE Next
  <2>1. ClockAhead'
    <3> SUFFICES ASSUME NEW j \in DOMAIN cache'
                 PROVE  cache'[j].expiry - cache'[j].deadline <= clock' - elapsed'
      BY DEF ClockAhead
    <3>1. clock - elapsed <= clock' - elapsed' /\ clock' \in Nat /\ elapsed' \in Nat
      BY <1>0, <1>3, ClockGains
    <3>2. cache'[j] \in Entries
      <4>1. cache' \in Seq(Entries)
        BY <1>1 DEF OrderInv, TypeOK
      <4> QED
        BY <4>1, ElementOfSeq, LenProperties
    <3>3. cache'[j].expiry - cache'[j].deadline <= clock - elapsed
      <4>1. cache'[j].expiry \in Int /\ cache'[j].deadline \in Int
            /\ clock \in Int /\ elapsed \in Int
        BY <1>0, <3>2 DEF Entries, TypeOK
      <4> QED
        BY <1>0, <1>3, <4>1, KeptOrStamped DEF ClockAhead
    <3>4. cache'[j].expiry \in Int /\ cache'[j].deadline \in Int
          /\ clock \in Int /\ elapsed \in Int
      BY <1>0, <3>2 DEF Entries, TypeOK
    <3>5. \A a, b, c \in Int : a <= b /\ b <= c => a <= c
      OBVIOUS
    <3>6. /\ cache'[j].expiry - cache'[j].deadline \in Int
          /\ clock - elapsed \in Int
          /\ clock' - elapsed' \in Int
      BY <3>1, <3>4
    <3> QED
      BY <3>1, <3>3, <3>5, <3>6
  <2>2. ServedWithinTtl'
    <3>1. ASSUME NEW k \in Keys, Hit(k)
          PROVE  ServedWithinTtl'
      <4>1. PICK i \in DOMAIN cache :
              /\ cache[i].key = k
              /\ clock <= cache[i].expiry
              /\ cache' = MovedToEnd(i, cache[i])
              /\ result' = [op |-> "get", key |-> k, value |-> cache[i].value]
        BY <3>1 DEF Hit, Fresh
      <4>2. cache[i] \in Entries
        BY <1>0, TypedEntries
      <4>3. elapsed <= cache[i].deadline
        <5>1. cache[i].expiry \in Int /\ cache[i].deadline \in Int
              /\ clock \in Int /\ elapsed \in Int
          BY <1>0, <4>2 DEF Entries, TypeOK
        <5>2. cache[i].expiry - cache[i].deadline <= clock - elapsed
          BY <1>0 DEF ClockAhead
        <5> QED
          BY <4>1, <5>1, <5>2
      <4> DEFINE s == RemoveAt(cache, i)
                 n == Len(s) + 1
      <4>4. s \in Seq(Entries)
        BY <1>0, RemoveEmbeds
      <4>5. cache' = Append(s, cache[i])
        BY <4>1 DEF MovedToEnd
      <4> HIDE DEF s
      <4>6. n \in DOMAIN cache' /\ cache'[n] = cache[i]
        BY <4>2, <4>4, <4>5, AppendProperties, LenProperties
      <4>7. elapsed' = elapsed
        BY <3>1 DEF Hit
      <4> QED
        BY <4>1, <4>3, <4>6, <4>7 DEF ServedWithinTtl
    <3>2. ASSUME NEW k \in Keys, MissAbsent(k) \/ MissExpired(k)
          PROVE  ServedWithinTtl'
      BY <3>2 DEF MissAbsent, MissExpired, ServedWithinTtl
    <3>3. CASE result'.op # "get"
      BY <3>3 DEF ServedWithinTtl
    <3> QED
      BY <1>3, <3>1, <3>2, <3>3
         DEF Next, Set, InvalidatePrefix, InvalidateAll, Tick, ClockJump, NoResult
  <2> QED
    BY <1>1, <2>1, <2>2 DEF TtlInv
<1> QED
  BY <1>2, <1>3

\* As long as nobody steps the wall clock back, and no caller states a ttl of
\* zero, which set() takes for none, no answer is served from the cache later
\* after it was stored than the ttl its caller stated.  Both assumptions are needed.
THEOREM NeverServedLate ==
    ASSUME Jumps \subseteq Nat, 0 \notin Ttls
    PROVE  Spec => []ServedWithinTtl
<1>1. Init => TtlInv
  <2> SUFFICES ASSUME Init PROVE TtlInv
    OBVIOUS
  <2>1. DOMAIN cache = {}
    BY EmptySeq DEF Init
  <2> QED
    BY <2>1, InitOrder DEF Init, TtlInv, ClockAhead, ServedWithinTtl, NoResult
<1>2. TtlInv /\ [Next]_vars => TtlInv'
  BY NextTtl
<1>3. TtlInv => ServedWithinTtl
  BY DEF TtlInv
<1> QED
  BY <1>1, <1>2, <1>3, PTL DEF Spec

-----------------------------------------------------------------------------
(* Eviction *)

\* Only the entry whose last use is the oldest is ever evicted by a set().
THEOREM OnlyOldestEvicted == Spec => EvictsOnlyLeastRecentlyUsed
<1> DEFINE Lost(i) == cache[i].key \notin {cache'[j].key : j \in DOMAIN cache'}
           Evicts == result'.op = "set" =>
                        \A i \in DOMAIN cache :
                            Lost(i) =>
                                \A j \in DOMAIN cache :
                                    j # i => <<cache[i].key, cache[j].key>> \in before
<1>1. OrderInv /\ [Next]_vars => [Evicts]_vars
  <2> SUFFICES ASSUME OrderInv, Next, result'.op = "set",
                      NEW i \in DOMAIN cache, Lost(i),
                      NEW j \in DOMAIN cache, j # i
               PROVE  <<cache[i].key, cache[j].key>> \in before
    OBVIOUS
  <2>1. PICK k \in Keys, v \in Values, ttl \in Ttls : Set(k, v, ttl)
    BY DEF Next, MissAbsent, MissExpired, Hit, InvalidatePrefix, InvalidateAll,
           Tick, ClockJump, NoResult
  <2>2. TypeOK /\ cache \in Seq(Entries) /\ Len(cache) \in Nat /\ DOMAIN cache = 1..Len(cache)
    BY TypedEntries DEF OrderInv
  <2> DEFINE e == NewEntry(k, v, ttl)
  <2>3. e \in Entries /\ e.key = k
    BY <2>2, NewEntryTyped
  <2> HIDE DEF e
  <2>4. ASSUME NEW s \in Seq(Entries), cache' = Append(s, e)
        PROVE  /\ \A a \in 1..Len(s) : s[a].key \in {cache'[b].key : b \in DOMAIN cache'}
               /\ k \in {cache'[b].key : b \in DOMAIN cache'}
    <3>1. /\ DOMAIN Append(s, e) = 1..(Len(s) + 1) /\ Len(s) \in Nat
          /\ \A a \in 1..Len(s) : Append(s, e)[a] = s[a]
          /\ Append(s, e)[Len(s) + 1] = e
      BY <2>3, AppendProperties, LenProperties
    <3> QED
      BY <2>3, <2>4, <3>1
  <2>5. CASE k \notin CachedKeys /\ Full /\ cache' = Append(OldestPopped, e)
    <3>1. cache # << >>
      BY <2>2, EmptySeq
    <3>2. /\ Tail(cache) \in Seq(Entries)
          /\ Len(Tail(cache)) = Len(cache) - 1
          /\ \A a \in 1..(Len(cache) - 1) : Tail(cache)[a] = cache[a + 1]
      BY <3>1, TailEmbeds
    <3>3. \A a \in 1..(Len(cache) - 1) :
             cache[a + 1].key \in {cache'[b].key : b \in DOMAIN cache'}
      BY <2>4, <2>5, <3>2 DEF OldestPopped
    <3>4. i = 1
      <4>1. CASE i # 1
        <5>1. i - 1 \in 1..(Len(cache) - 1) /\ (i - 1) + 1 = i
          BY <2>2, <4>1
        <5> QED
          BY <3>3, <5>1
      <4> QED
        BY <4>1
    <3>5. i < j
      BY <2>2, <3>4
    <3> QED
      BY <3>5 DEF OrderInv, UseOrder
  <2>6. CASE k \notin CachedKeys /\ ~Full /\ cache' = Append(cache, e)
    BY <2>2, <2>4, <2>6
  <2>7. ASSUME NEW m \in DOMAIN cache, cache[m].key = k, cache' = MovedToEnd(m, e)
        PROVE  FALSE
    <3> DEFINE s == RemoveAt(cache, m)
    <3>1. /\ s \in Seq(Entries) /\ Len(s) = Len(cache) - 1
          /\ \A a \in 1..(Len(cache) - 1) : s[a] = IF a < m THEN cache[a] ELSE cache[a + 1]
      BY <2>2, RemoveAtProperties
    <3>2. cache' = Append(s, e)
      BY <2>7 DEF MovedToEnd
    <3> HIDE DEF s
    <3>3. /\ \A a \in 1..Len(s) : s[a].key \in {cache'[b].key : b \in DOMAIN cache'}
          /\ k \in {cache'[b].key : b \in DOMAIN cache'}
      BY <2>4, <3>1, <3>2
    <3>4. i # m
      BY <2>7, <3>3
    <3>5. \E a \in 1..Len(s) : s[a] = cache[i]
      <4>1. CASE i < m
        <5>1. i \in 1..(Len(cache) - 1) /\ s[i] = cache[i]
          BY <2>2, <3>1, <4>1
        <5> QED
          BY <3>1, <5>1
      <4>2. CASE i > m
        <5>1. i - 1 \in 1..(Len(cache) - 1) /\ s[i - 1] = cache[i]
          BY <2>2, <3>1, <4>2
        <5> QED
          BY <3>1, <5>1
      <4> QED
        BY <2>2, <3>4, <4>1, <4>2
    <3> QED
      BY <3>3, <3>5
  <2> QED
    BY <2>1, <2>5, <2>6, <2>7 DEF Set, e
<1> QED
  BY <1>1, SpecOrder, PTL DEF Spec, EvictsOnlyLeastRecentlyUsed

-----------------------------------------------------------------------------
(* The contract *)

\* The wall clock never falls behind true time, so no entry is due on it before
\* its deadline.
Punctual ==
    /\ elapsed <= clock
    /\ \A i \in DOMAIN cache : cache[i].deadline <= cache[i].expiry

RefInv == TtlInv /\ Punctual

LEMMA NextPunctual ==
    ASSUME Jumps \subseteq Nat, 0 \notin Ttls
    PROVE  OrderInv /\ Punctual /\ [Next]_vars => Punctual'
<1> SUFFICES ASSUME OrderInv, Punctual, [Next]_vars
             PROVE  Punctual'
  OBVIOUS
<1>1. CASE UNCHANGED vars
  BY <1>1 DEF vars, Punctual
<1>2. CASE Next
  <2>1. clock \in Nat /\ elapsed \in Nat /\ clock' \in Nat /\ elapsed' \in Nat
        /\ clock - elapsed <= clock' - elapsed'
    BY <1>2, ClockGains DEF OrderInv, TypeOK
  <2>2. elapsed' <= clock'
    BY <2>1 DEF Punctual
  <2>3. ASSUME NEW j \in DOMAIN cache' PROVE cache'[j].deadline <= cache'[j].expiry
    <3>1. cache'[j] \in Entries
      <4>1. cache' \in Seq(Entries)
        BY NextOrder DEF OrderInv, TypeOK
      <4> QED
        BY <4>1, ElementOfSeq, LenProperties
    <3>2. cache'[j].expiry \in Int /\ cache'[j].deadline \in Int
      BY <3>1 DEF Entries
    <3>3. CASE \E i \in DOMAIN cache : cache'[j] = cache[i]
      BY <3>3 DEF Punctual
    <3>4. CASE cache'[j].expiry - cache'[j].deadline = clock - elapsed
      BY <2>1, <3>2, <3>4 DEF Punctual
    <3> QED
      BY <1>2, <3>3, <3>4, KeptOrStamped
  <2> QED
    BY <2>2, <2>3 DEF Punctual
<1> QED
  BY <1>1, <1>2

\* The store, told by the entries held in whatever order.
Held == {cache[i] : i \in DOMAIN cache}
Good(e) == [value |-> e.value, due |-> e.deadline]
StoreTold ==
    /\ \A e, o \in Held : e.key = o.key => e = o
    /\ DOMAIN Stored = {e.key : e \in Held}
    /\ Stored = [k \in DOMAIN Stored |-> Stored[k]]
    /\ \A e \in Held : Stored[e.key] = Good(e)

LEMMA StoreIsTold == OrderInv => StoreTold
<1> SUFFICES ASSUME OrderInv PROVE StoreTold
  OBVIOUS
<1>1. \A i, j \in DOMAIN cache : cache[i].key = cache[j].key => i = j
  BY DistinctKeys
<1>2. ASSUME NEW i \in DOMAIN cache
      PROVE  cache[i].key \in CachedKeys /\ Stored[cache[i].key] = Good(cache[i])
  <2>1. EntryOf(cache[i].key) = cache[i]
    BY <1>1 DEF EntryOf
  <2>2. cache[i].key \in CachedKeys
    BY DEF CachedKeys
  <2> QED
    BY <2>1, <2>2 DEF Stored, Good
<1>3. DOMAIN Stored = CachedKeys /\ Stored = [k \in DOMAIN Stored |-> Stored[k]]
  BY DEF Stored
<1>4. CachedKeys = {e.key : e \in Held}
  BY DEF CachedKeys, Held
<1> QED
  BY <1>1, <1>2, <1>3, <1>4 DEF StoreTold, Held

LEMMA StoreIsToldNext == OrderInv' => StoreTold'
BY StoreIsTold, PTL

\* A step whose entries are known and whose store is g maps to g.
LEMMA NextStore ==
    ASSUME OrderInv', NEW g, g = [k \in DOMAIN g |-> g[k]],
           DOMAIN g = {e.key : e \in Held'},
           \A e \in Held' : g[e.key] = Good(e)
    PROVE  Stored' = g
<1>1. StoreTold'
  BY StoreIsToldNext
<1>2. DOMAIN Stored' = DOMAIN g
  BY <1>1 DEF StoreTold
<1>3. ASSUME NEW k \in DOMAIN g PROVE Stored'[k] = g[k]
  <2>1. PICK e \in Held' : k = e.key
    OBVIOUS
  <2>2. Stored'[e.key] = Good(e)
    BY <1>1 DEF StoreTold, Good
  <2> QED
    BY <2>1, <2>2
<1>4. Stored' = [k \in DOMAIN Stored' |-> Stored'[k]]
  BY <1>1 DEF StoreTold
<1> QED
  BY <1>2, <1>3, <1>4

\* The entries left when entry i is removed, and those after one is appended.
LEMMA HeldRemoved ==
    ASSUME OrderInv, NEW i \in DOMAIN cache
    PROVE  LET s == RemoveAt(cache, i) IN
           s \in Seq(Entries) /\ {s[a] : a \in 1..Len(s)} = Held \ {cache[i]}
<1> DEFINE s == RemoveAt(cache, i)
<1>0. cache \in Seq(Entries) /\ Len(cache) \in Nat /\ DOMAIN cache = 1..Len(cache)
  BY TypedEntries DEF OrderInv
<1>1. /\ s \in Seq(Entries) /\ Len(s) = Len(cache) - 1
      /\ \A a \in 1..(Len(cache) - 1) : s[a] = IF a < i THEN cache[a] ELSE cache[a + 1]
  BY <1>0, RemoveAtProperties
<1> HIDE DEF s
<1>2. \A j \in DOMAIN cache : j # i => cache[j] # cache[i]
  BY DistinctKeys
<1>3. ASSUME NEW a \in 1..Len(s) PROVE s[a] \in Held \ {cache[i]}
  <2>1. PICK j \in DOMAIN cache : j # i /\ s[a] = cache[j]
    <3>1. CASE a < i
      BY <1>0, <1>1, <3>1
    <3>2. CASE ~(a < i)
      <4>1. a + 1 \in DOMAIN cache /\ a + 1 # i /\ s[a] = cache[a + 1]
        BY <1>0, <1>1, <3>2
      <4> QED
        BY <4>1
    <3> QED
      BY <3>1, <3>2
  <2> QED
    BY <1>2, <2>1 DEF Held
<1>4. ASSUME NEW j \in DOMAIN cache, j # i PROVE \E a \in 1..Len(s) : s[a] = cache[j]
  <2>1. CASE j < i
    <3>1. j \in 1..Len(s) /\ s[j] = cache[j]
      BY <1>0, <1>1, <2>1
    <3> QED
      BY <3>1
  <2>2. CASE j > i
    <3>1. j - 1 \in 1..Len(s) /\ s[j - 1] = cache[j]
      BY <1>0, <1>1, <2>2
    <3> QED
      BY <3>1
  <2> QED
    BY <1>0, <1>4, <2>1, <2>2
<1>5. {s[a] : a \in 1..Len(s)} = Held \ {cache[i]}
  BY <1>3, <1>4 DEF Held
<1> QED
  BY <1>1, <1>5 DEF s

LEMMA HeldAppended ==
    ASSUME NEW s \in Seq(Entries), NEW e \in Entries, cache' = Append(s, e)
    PROVE  Held' = {s[a] : a \in 1..Len(s)} \cup {e}
<1>1. /\ DOMAIN Append(s, e) = 1..(Len(s) + 1) /\ Len(s) \in Nat
      /\ \A a \in 1..Len(s) : Append(s, e)[a] = s[a]
      /\ Append(s, e)[Len(s) + 1] = e
  BY AppendProperties, LenProperties
<1>2. 1..(Len(s) + 1) = 1..Len(s) \cup {Len(s) + 1}
  BY <1>1
<1> QED
  BY <1>1, <1>2 DEF Held

\* As many keys as entries, among any of them.
LEMMA KeysCount ==
    ASSUME OrderInv, NEW P \in SUBSET DOMAIN cache
    PROVE  /\ IsFiniteSet(P)
           /\ Cardinality({cache[i].key : i \in P}) = Cardinality(P)
<1> DEFINE T == {cache[i].key : i \in P}
           f == [i \in P |-> cache[i].key]
<1>1. IsFiniteSet(P)
  <2>1. DOMAIN cache = 1..Len(cache) /\ Len(cache) \in Nat
    BY TypedEntries DEF OrderInv
  <2>2. 1 \in Int /\ Len(cache) \in Int
    BY <2>1
  <2>3. IsFiniteSet(1..Len(cache))
    BY <2>2, FS_Interval
  <2> QED
    BY <2>1, <2>3, FS_Subset
<1>2. f \in Bijection(P, T)
  <2>1. f \in [P -> T]
    OBVIOUS
  <2>2. ASSUME NEW i \in P, NEW j \in P, f[i] = f[j] PROVE i = j
    <3>1. cache[i].key = cache[j].key /\ i \in DOMAIN cache /\ j \in DOMAIN cache
      BY <2>2
    <3> QED
      BY <3>1, DistinctKeys
  <2>3. \A t \in T : \E i \in P : f[i] = t
    OBVIOUS
  <2> HIDE DEF f, T
  <2>4. f \in Injection(P, T)
    BY <2>1, <2>2 DEF Injection, IsInjective
  <2>5. f \in Surjection(P, T)
    BY <2>1, <2>3 DEF Surjection
  <2> QED
    BY <2>4, <2>5 DEF Bijection
<1>3. ExistsBijection(P, T)
  BY <1>2 DEF ExistsBijection
<1> QED
  BY <1>1, <1>3, FS_Bijection

(* Each operation maps to one of the contract's, or to a stutter. *)

LEMMA MissAbsentMaps ==
    ASSUME OrderInv, NEW k \in Keys, MissAbsent(k)
    PROVE  Contract!NotFound(k)
<1>1. StoreTold
  BY StoreIsTold
<1>2. DOMAIN Stored = CachedKeys /\ Stored' = Stored
  BY DEF MissAbsent, Stored, CachedKeys, EntryOf
<1>3. Stored = [x \in DOMAIN Stored \ {k} |-> Stored[x]]
  BY <1>1, <1>2 DEF StoreTold, MissAbsent
<1> QED
  BY <1>2, <1>3 DEF Contract!NotFound, Contract!Restricted, MissAbsent

\* On a clock that has kept step, an entry found expired is past its deadline.
LEMMA ExpiredIsDue ==
    ASSUME RefInv, NEW i \in DOMAIN cache, ~Fresh(cache[i]), clock = elapsed
    PROVE  elapsed > cache[i].deadline
<1>1. cache[i].expiry \in Int /\ cache[i].deadline \in Int /\ clock \in Int
  BY TypedEntries DEF RefInv, TtlInv, OrderInv, TypeOK, Entries
<1> QED
  BY <1>1 DEF Fresh, RefInv, Punctual

LEMMA MissExpiredMaps ==
    ASSUME RefInv, OrderInv', NEW k \in Keys, MissExpired(k)
    PROVE  Contract!NotFound(k)
<1>0. OrderInv /\ StoreTold
  BY StoreIsTold DEF RefInv, TtlInv
<1>1. PICK i \in DOMAIN cache :
        cache[i].key = k /\ ~Fresh(cache[i]) /\ cache' = RemoveAt(cache, i)
  BY DEF MissExpired
<1>2. Held' = Held \ {cache[i]}
  <2>1. cache' \in Seq(Entries) /\ Held \ {cache[i]} = {cache'[a] : a \in 1..Len(cache')}
    BY <1>0, <1>1, HeldRemoved
  <2> QED
    BY <2>1, LenProperties DEF Held
<1>3. cache[i] \in Held
  BY DEF Held
<1>4. Stored' = [x \in DOMAIN Stored \ {k} |-> Stored[x]]
  <2> DEFINE g == [x \in DOMAIN Stored \ {k} |-> Stored[x]]
  <2>1. DOMAIN g = {e.key : e \in Held'}
    BY <1>0, <1>1, <1>2, <1>3 DEF StoreTold
  <2>2. \A e \in Held' : g[e.key] = Good(e)
    BY <1>0, <1>1, <1>2, <1>3 DEF StoreTold, Good
  <2>3. g = [x \in DOMAIN g |-> g[x]]
    OBVIOUS
  <2> HIDE DEF g
  <2>4. Stored' = g
    BY <2>1, <2>2, <2>3, NextStore
  <2> QED
    BY <2>4 DEF g
<1>5. clock = elapsed => elapsed > Stored[k].due
  <2>1. Stored[k] = Good(cache[i])
    BY <1>0, <1>1, <1>3 DEF StoreTold, Good
  <2>2. Stored[k].due = cache[i].deadline
    BY <2>1 DEF Good
  <2> QED
    BY <1>1, <2>2, ExpiredIsDue
<1> QED
  BY <1>4, <1>5 DEF Contract!NotFound, Contract!Restricted, MissExpired

LEMMA HitMaps ==
    ASSUME RefInv, OrderInv', NEW k \in Keys, Hit(k)
    PROVE  Contract!Found(k)
<1>0. OrderInv /\ TypeOK /\ StoreTold
  BY StoreIsTold DEF RefInv, TtlInv, OrderInv
<1>1. PICK i \in DOMAIN cache :
        /\ cache[i].key = k
        /\ Fresh(cache[i])
        /\ cache' = MovedToEnd(i, cache[i])
        /\ result' = [op |-> "get", key |-> k, value |-> cache[i].value]
  BY DEF Hit
<1>2. cache[i] \in Entries /\ cache[i] \in Held
  BY <1>0, TypedEntries DEF Held
<1>3. Held' = Held
  <2> DEFINE s == RemoveAt(cache, i)
  <2>1. s \in Seq(Entries) /\ {s[a] : a \in 1..Len(s)} = Held \ {cache[i]}
    BY <1>0, HeldRemoved
  <2>2. cache' = Append(s, cache[i])
    BY <1>1 DEF MovedToEnd
  <2> HIDE DEF s
  <2>3. Held' = {s[a] : a \in 1..Len(s)} \cup {cache[i]}
    BY <1>2, <2>1, <2>2, HeldAppended
  <2> QED
    BY <1>2, <2>1, <2>3
<1>4. Stored' = Stored
  <2>1. /\ Stored = [x \in DOMAIN Stored |-> Stored[x]]
        /\ DOMAIN Stored = {e.key : e \in Held'}
        /\ \A e \in Held' : Stored[e.key] = Good(e)
    BY <1>0, <1>3 DEF StoreTold, Good
  <2> QED
    BY <2>1, NextStore
<1>5. Stored[k] = Good(cache[i]) /\ k \in DOMAIN Stored
  BY <1>0, <1>1, <1>2 DEF StoreTold, Good
<1>6. Stored[k].due = cache[i].deadline /\ Stored[k].value = cache[i].value
  BY <1>5 DEF Good
<1>7. elapsed <= cache[i].deadline
  <2>1. /\ cache[i].expiry \in Int /\ cache[i].deadline \in Int
        /\ clock \in Int /\ elapsed \in Int
    BY <1>0, <1>2 DEF TypeOK, Entries
  <2>2. cache[i].expiry - cache[i].deadline <= clock - elapsed
    BY DEF RefInv, TtlInv, ClockAhead
  <2>3. clock <= cache[i].expiry
    BY <1>1 DEF Fresh
  <2> QED
    BY <2>1, <2>2, <2>3
<1> QED
  BY <1>1, <1>4, <1>5, <1>6, <1>7 DEF Contract!Found, Hit

\* A put that costs the entries V, beside whatever was held for its key.
Beside(V, k) == {o \in Held \ V : o.key # k}
Stocked(victims, k, v, life) ==
    [x \in (DOMAIN Stored \ victims) \cup {k} |->
        IF x = k THEN [value |-> v, due |-> elapsed + life] ELSE Stored[x]]

LEMMA PutStore ==
    ASSUME OrderInv, OrderInv', NEW k \in Keys, NEW v \in Values, NEW ttl \in Ttls,
           NEW V \in SUBSET Held, \A o \in V : o.key # k,
           NEW victims, victims = {o.key : o \in V},
           Held' = Beside(V, k) \cup {NewEntry(k, v, ttl)}
    PROVE  /\ victims \in SUBSET (DOMAIN Stored \ {k})
           /\ Stored' = Stocked(victims, k, v, PromisedTtl(ttl))
<1> DEFINE e == NewEntry(k, v, ttl)
           due == elapsed + PromisedTtl(ttl)
           g == [x \in (DOMAIN Stored \ victims) \cup {k} |->
                    IF x = k THEN [value |-> v, due |-> due] ELSE Stored[x]]
<1>0. StoreTold
  BY StoreIsTold
<1>1. e.key = k /\ e.value = v /\ e.deadline = due
  BY DEF NewEntry
<1>2. Good(e) = [value |-> v, due |-> due]
  BY <1>1 DEF Good
<1>3. \A o \in Held : o.key \in victims <=> o \in V
  BY <1>0 DEF StoreTold
<1>4. victims \in SUBSET (DOMAIN Stored \ {k})
  BY <1>0 DEF StoreTold
<1>5. Held' = {o \in Held \ V : o.key # k} \cup {e}
  BY DEF Beside
<1> HIDE DEF e, due
<1>6. DOMAIN g = {o.key : o \in Held'}
  <2>1. DOMAIN g = (DOMAIN Stored \ victims) \cup {k}
    OBVIOUS
  <2>2. DOMAIN Stored = {o.key : o \in Held}
    BY <1>0 DEF StoreTold
  <2>3. ASSUME NEW x \in (DOMAIN Stored \ victims) \cup {k} PROVE \E o \in Held' : x = o.key
    <3>1. CASE x = k
      BY <1>1, <1>5, <3>1
    <3>2. CASE x # k
      <4>1. PICK o \in Held : x = o.key
        BY <2>2, <3>2
      <4>2. o \in Held \ V /\ o.key # k
        BY <1>3, <2>3, <3>2, <4>1
      <4> QED
        BY <1>5, <4>1, <4>2
    <3> QED
      BY <3>1, <3>2
  <2>4. ASSUME NEW o \in Held' PROVE o.key \in (DOMAIN Stored \ victims) \cup {k}
    BY <1>1, <1>3, <1>5, <2>2
  <2> QED
    BY <2>1, <2>3, <2>4
<1>7. ASSUME NEW o \in Held' PROVE g[o.key] = Good(o)
  <2>1. CASE o = e
    BY <1>1, <1>2, <2>1
  <2>2. CASE o \in Held \ V /\ o.key # k
    <3>1. o.key \in DOMAIN Stored \ victims /\ Stored[o.key] = Good(o)
      BY <1>0, <1>3, <2>2 DEF StoreTold, Good
    <3> QED
      BY <2>2, <3>1
  <2> QED
    BY <1>5, <2>1, <2>2
<1>8. g = [x \in DOMAIN g |-> g[x]]
  OBVIOUS
<1> HIDE DEF g
<1>9. Stored' = g
  BY <1>6, <1>7, <1>8, NextStore
<1> QED
  BY <1>4, <1>9 DEF g, due, Stocked

\* The contract counts as the proofs do.
LEMMA SameCardinality == \A S : Contract!Cardinality(S) = Cardinality(S)
BY DEF Contract!Cardinality, Cardinality

LEMMA SetMaps ==
    ASSUME RefInv, OrderInv', NEW k \in Keys, NEW v \in Values, NEW ttl \in Ttls,
           Set(k, v, ttl)
    PROVE  Contract!Put(k, v, PromisedTtl(ttl))
<1> DEFINE e == NewEntry(k, v, ttl)
           puts(victims) == Stored' = Stocked(victims, k, v, PromisedTtl(ttl))
<1>0. OrderInv /\ TypeOK /\ StoreTold
  BY StoreIsTold DEF RefInv, TtlInv, OrderInv
<1>1. /\ cache \in Seq(Entries) /\ Len(cache) \in Nat /\ DOMAIN cache = 1..Len(cache)
      /\ DOMAIN Stored = CachedKeys
  BY <1>0, TypedEntries DEF Stored
<1>2. e \in Entries
  BY <1>0, NewEntryTyped
<1>3. \A o \in Held : o.key \in CachedKeys
  BY DEF Held, CachedKeys
<1>4. IsFiniteSet({}) /\ Cardinality({}) = 0
  BY FS_EmptySet
<1>5. ASSUME NEW V \in SUBSET Held, \A o \in V : o.key # k,
             NEW victims, victims = {o.key : o \in V},
             Held' = Beside(V, k) \cup {e}
      PROVE  puts(victims) /\ victims \in SUBSET (DOMAIN Stored \ {k})
  BY <1>0, <1>5, PutStore
<1>6. \E victims \in SUBSET (DOMAIN Stored \ {k}) :
         /\ Cardinality(victims) <= 1
         /\ victims # {} => k \notin DOMAIN Stored /\ Cardinality(DOMAIN Stored) >= MaxSize
         /\ puts(victims)
  <2>1. ASSUME NEW i \in DOMAIN cache, cache[i].key = k, cache' = MovedToEnd(i, e)
        PROVE  puts({})
    <3> DEFINE s == RemoveAt(cache, i)
    <3>1. s \in Seq(Entries) /\ {s[a] : a \in 1..Len(s)} = Held \ {cache[i]}
      BY <1>0, HeldRemoved
    <3>2. cache' = Append(s, e)
      BY <2>1 DEF MovedToEnd
    <3> HIDE DEF s, e, puts
    <3>3. Held' = (Held \ {cache[i]}) \cup {e}
      BY <1>2, <3>1, <3>2, HeldAppended
    <3>4. Held \ {cache[i]} = {o \in Held \ {} : o.key # k}
      BY <1>0, <2>1 DEF StoreTold, Held
    <3>5. Held' = Beside({}, k) \cup {e}
      BY <3>3, <3>4 DEF Beside
    <3>6. {o.key : o \in {}} = {} /\ {} \in SUBSET Held
      OBVIOUS
    <3> QED
      BY <1>5, <3>5, <3>6
  <2>2. ASSUME k \notin CachedKeys, Full, cache' = Append(OldestPopped, e)
        PROVE  /\ cache[1] \in Held
               /\ puts({cache[1].key})
               /\ {cache[1].key} \in SUBSET (DOMAIN Stored \ {k})
    <3>1. cache # << >> /\ 1 \in DOMAIN cache
      BY <1>1, <2>2, SizeAssumption, EmptySeq DEF Full
    <3>2. /\ Tail(cache) \in Seq(Entries)
          /\ Len(Tail(cache)) = Len(cache) - 1
          /\ \A a \in 1..(Len(cache) - 1) : Tail(cache)[a] = cache[a + 1]
      BY <1>0, <3>1, TailEmbeds
    <3> DEFINE s == Tail(cache)
    <3>3. {s[a] : a \in 1..Len(s)} = Held \ {cache[1]}
      <4>1. \A j \in DOMAIN cache : j # 1 => cache[j] # cache[1]
        BY <1>0, <3>1, DistinctKeys
      <4>2. ASSUME NEW a \in 1..Len(s) PROVE s[a] \in Held \ {cache[1]}
        <5>1. a + 1 \in DOMAIN cache /\ a + 1 # 1 /\ s[a] = cache[a + 1]
          BY <1>1, <3>2
        <5> QED
          BY <4>1, <5>1 DEF Held
      <4>3. ASSUME NEW j \in DOMAIN cache, j # 1 PROVE \E a \in 1..Len(s) : s[a] = cache[j]
        <5>1. j - 1 \in 1..Len(s) /\ s[j - 1] = cache[(j - 1) + 1] /\ (j - 1) + 1 = j
          BY <1>1, <3>2, <4>3
        <5> QED
          BY <5>1
      <4> QED
        BY <4>2, <4>3 DEF Held
    <3> HIDE DEF e, puts
    <3>4. Held' = (Held \ {cache[1]}) \cup {e}
      BY <1>2, <2>2, <3>2, <3>3, HeldAppended DEF OldestPopped
    <3>5. cache[1] \in Held /\ cache[1].key # k
      BY <1>3, <2>2, <3>1 DEF Held
    <3>6. \A o \in Held : o.key # k
      BY <1>3, <2>2
    <3>7. Held' = Beside({cache[1]}, k) \cup {e}
      BY <3>4, <3>6 DEF Beside
    <3>8. {o.key : o \in {cache[1]}} = {cache[1].key} /\ {cache[1]} \in SUBSET Held
      BY <3>5
    <3>9. \A o \in {cache[1]} : o.key # k
      BY <3>5
    <3> QED
      BY <1>5, <3>5, <3>7, <3>8, <3>9
  <2>3. ASSUME k \notin CachedKeys, cache' = Append(cache, e)
        PROVE  puts({})
    <3> HIDE DEF e, puts
    <3>1. Held' = Held \cup {e}
      BY <1>1, <1>2, <2>3, HeldAppended DEF Held
    <3>2. Held' = Beside({}, k) \cup {e}
      BY <1>3, <2>3, <3>1 DEF Beside
    <3>3. {o.key : o \in {}} = {} /\ {} \in SUBSET Held
      OBVIOUS
    <3> QED
      BY <1>5, <3>2, <3>3
  <2>4. \/ \E i \in DOMAIN cache : cache[i].key = k /\ cache' = MovedToEnd(i, e)
        \/ k \notin CachedKeys /\ Full /\ cache' = Append(OldestPopped, e)
        \/ k \notin CachedKeys /\ ~Full /\ cache' = Append(cache, e)
    BY DEF Set
  <2>5. Full => Cardinality(DOMAIN Stored) >= MaxSize
    <3>1. CachedKeys = {cache[i].key : i \in DOMAIN cache}
      BY DEF CachedKeys
    <3>2. Cardinality(CachedKeys) = Cardinality(DOMAIN cache)
      BY <1>0, <3>1, KeysCount
    <3>3. Cardinality(1..Len(cache)) = Len(cache)
      <4>1. 1 \in Int /\ Len(cache) \in Int
        BY <1>1
      <4>2. Cardinality(1..Len(cache)) = IF 1 > Len(cache) THEN 0 ELSE Len(cache) - 1 + 1
        BY <4>1, FS_Interval
      <4> QED
        BY <1>1, <4>2
    <3> QED
      BY <1>1, <3>2, <3>3 DEF Full
  <2>6. Cardinality({cache[1].key}) = 1
    BY FS_Singleton
  <2> HIDE DEF e, puts
  <2>7. CASE puts({})
    <3>1. {} \in SUBSET (DOMAIN Stored \ {k}) /\ Cardinality({}) <= 1
      BY <1>4
    <3> QED
      BY <2>7, <3>1
  <2>8. CASE k \notin CachedKeys /\ Full /\ cache' = Append(OldestPopped, e)
    <3>1. /\ {cache[1].key} \in SUBSET (DOMAIN Stored \ {k})
          /\ Cardinality({cache[1].key}) <= 1
          /\ k \notin DOMAIN Stored /\ Cardinality(DOMAIN Stored) >= MaxSize
          /\ puts({cache[1].key})
      BY <1>1, <2>2, <2>5, <2>6, <2>8
    <3> QED
      BY <3>1
  <2> QED
    BY <2>1, <2>3, <2>4, <2>7, <2>8
<1> QED
  BY <1>6, SameCardinality DEF Contract!Put, Set, Stocked

\* An invalidation that drops the entries p names, those at the positions P.
LEMMA DropMaps ==
    ASSUME OrderInv, OrderInv', NEW p \in KeyPrefixes \cup {None},
           NEW P \in SUBSET DOMAIN cache,
           P = {i \in DOMAIN cache : cache[i].key \in Contract!Named(p)},
           Held' = {o \in Held : o.key \notin Contract!Named(p)}
    PROVE  /\ Stored' = Contract!Restricted(DOMAIN Stored \ Contract!Named(p))
           /\ Cardinality(P) = Contract!Cardinality(DOMAIN Stored \cap Contract!Named(p))
<1> DEFINE N == Contract!Named(p)
           g == [k \in DOMAIN Stored \ N |-> Stored[k]]
<1> HIDE DEF N
<1>0. StoreTold
  BY StoreIsTold
<1>1. Stored' = g
  <2>1. DOMAIN g = {o.key : o \in Held'}
    BY <1>0 DEF StoreTold, N
  <2>2. \A o \in Held' : g[o.key] = Good(o)
    BY <1>0 DEF StoreTold, Good, N
  <2>3. g = [k \in DOMAIN g |-> g[k]]
    OBVIOUS
  <2> HIDE DEF g
  <2> QED
    BY <2>1, <2>2, <2>3, NextStore
<1>2. DOMAIN Stored \cap N = {cache[i].key : i \in P}
  BY DEF Stored, CachedKeys, N
<1>3. Cardinality({cache[i].key : i \in P}) = Cardinality(P)
  BY KeysCount
<1>4. Cardinality(DOMAIN Stored \cap N) = Cardinality(P)
  BY <1>2, <1>3
<1> QED
  BY <1>1, <1>4, SameCardinality DEF g, N, Contract!Restricted

LEMMA InvalidatePrefixMaps ==
    ASSUME RefInv, OrderInv', NEW p \in KeyPrefixes, InvalidatePrefix(p)
    PROVE  Contract!Drop(p)
<1> DEFINE n == Cardinality(Survivors(p))
           P == DOMAIN cache \ Survivors(p)
<1>0. OrderInv /\ TypeOK /\ p # None
  BY ValueAssumption DEF RefInv, TtlInv, OrderInv
<1>1. /\ cache \in Seq(Entries) /\ Len(cache) \in Nat /\ DOMAIN cache = 1..Len(cache)
      /\ \A i \in DOMAIN cache : cache[i].key \in Keys
  BY <1>0, TypedEntries
<1>2. \A k \in Keys : k \in Contract!Named(p) <=> k[1] = p
  BY <1>0 DEF Contract!Named, Keys
<1>3. Survivors(p) \in SUBSET DOMAIN cache
  BY DEF Survivors
<1>4. P = {i \in DOMAIN cache : cache[i].key \in Contract!Named(p)}
  BY <1>1, <1>2 DEF Survivors
<1>5. Held' = {o \in Held : o.key \notin Contract!Named(p)}
  <2>1. PICK f \in [1..n -> Survivors(p)] :
          /\ \A i \in Survivors(p) : \E a \in 1..n : f[a] = i
          /\ cache' = [a \in 1..n |-> cache[f[a]]]
    BY DEF InvalidatePrefix
  <2>2. Held' = {cache[f[a]] : a \in 1..n}
    BY <2>1 DEF Held
  <2>3. {cache[f[a]] : a \in 1..n} = {cache[i] : i \in Survivors(p)}
    BY <2>1
  <2>4. {cache[i] : i \in Survivors(p)} = {o \in Held : o.key \notin Contract!Named(p)}
    BY <1>1, <1>2 DEF Survivors, Held
  <2> QED
    BY <2>2, <2>3, <2>4
<1>6. Len(cache) - n = Cardinality(P)
  <2>1. IsFiniteSet(DOMAIN cache) /\ Cardinality(DOMAIN cache) = Len(cache)
    <3>1. 1 \in Int /\ Len(cache) \in Int
      BY <1>1
    <3>2. /\ IsFiniteSet(1..Len(cache))
          /\ Cardinality(1..Len(cache)) = IF 1 > Len(cache) THEN 0 ELSE Len(cache) - 1 + 1
      BY <3>1, FS_Interval
    <3> QED
      BY <1>1, <3>2
  <2>2. Cardinality(P) = Cardinality(DOMAIN cache) - Cardinality(DOMAIN cache \cap Survivors(p))
    BY <2>1, FS_Difference
  <2>3. DOMAIN cache \cap Survivors(p) = Survivors(p)
    BY <1>3
  <2> QED
    BY <2>1, <2>2, <2>3
<1>7. /\ Stored' = Contract!Restricted(DOMAIN Stored \ Contract!Named(p))
      /\ Cardinality(P) = Contract!Cardinality(DOMAIN Stored \cap Contract!Named(p))
  BY <1>0, <1>4, <1>5, DropMaps
<1> QED
  BY <1>6, <1>7 DEF Contract!Drop, InvalidatePrefix

LEMMA InvalidateAllMaps ==
    ASSUME RefInv, OrderInv', InvalidateAll
    PROVE  Contract!Drop(None)
<1>0. OrderInv /\ TypeOK
  BY DEF RefInv, TtlInv, OrderInv
<1>1. /\ Len(cache) \in Nat /\ DOMAIN cache = 1..Len(cache)
      /\ \A i \in DOMAIN cache : cache[i].key \in Keys
  BY <1>0, TypedEntries
<1>2. Contract!Named(None) = Keys
  BY DEF Contract!Named, Contract!Keys, Keys
<1>3. DOMAIN cache = {i \in DOMAIN cache : cache[i].key \in Contract!Named(None)}
  BY <1>1, <1>2
<1>4. Held' = {o \in Held : o.key \notin Contract!Named(None)}
  <2>1. DOMAIN cache' = {}
    BY EmptySeq DEF InvalidateAll
  <2>2. Held' = {}
    BY <2>1 DEF Held
  <2> QED
    BY <1>1, <1>2, <2>2 DEF Held
<1>5. Cardinality(DOMAIN cache) = Len(cache)
  <2>1. 1 \in Int /\ Len(cache) \in Int
    BY <1>1
  <2>2. Cardinality(1..Len(cache)) = IF 1 > Len(cache) THEN 0 ELSE Len(cache) - 1 + 1
    BY <2>1, FS_Interval
  <2> QED
    BY <1>1, <2>2
<1>6. None \in KeyPrefixes \cup {None} /\ DOMAIN cache \in SUBSET DOMAIN cache
  OBVIOUS
<1>7. /\ Stored' = Contract!Restricted(DOMAIN Stored \ Contract!Named(None))
      /\ Cardinality(DOMAIN cache)
            = Contract!Cardinality(DOMAIN Stored \cap Contract!Named(None))
  BY <1>0, <1>3, <1>4, <1>6, DropMaps
<1> QED
  BY <1>5, <1>7 DEF Contract!Drop, InvalidateAll

LEMMA TimeMaps ==
    ASSUME RefInv, Jumps \subseteq Nat, Tick \/ \E d \in Jumps : ClockJump(d)
    PROVE  Contract!Pass
<1>0. clock \in Nat /\ elapsed \in Nat /\ elapsed <= clock
  BY DEF RefInv, TtlInv, OrderInv, TypeOK, Punctual
<1>1. UNCHANGED cache /\ result' = NoResult
  BY DEF Tick, ClockJump
<1>2. Stored' = Stored
  BY <1>1 DEF Stored, CachedKeys, EntryOf
<1>3. elapsed' \in {elapsed, elapsed + 1}
  BY DEF Tick, ClockJump
<1>4. (clock = elapsed)' \in {FALSE, clock = elapsed}
  <2>1. CASE Tick
    <3>1. clock' = elapsed' <=> clock = elapsed
      BY <1>0, <2>1 DEF Tick
    <3> QED
      BY <3>1, Zenon
  <2>2. ASSUME NEW d \in Jumps, ClockJump(d)
        PROVE  (clock = elapsed)' \in {FALSE, clock = elapsed}
    <3>1. d \in Nat /\ clock' = clock + d /\ elapsed' = elapsed
      BY <2>2 DEF ClockJump
    <3>2. CASE d = 0
      BY <1>0, <3>1, <3>2
    <3>3. CASE d # 0
      <4>1. clock' # elapsed'
        BY <1>0, <3>1, <3>3
      <4> QED
        BY <4>1
    <3> QED
      BY <3>2, <3>3
  <2> QED
    BY <2>1, <2>2
<1> QED
  BY <1>1, <1>2, <1>3, <1>4 DEF Contract!Pass, NoResult

\* Where the wall clock is never set back and no ttl of zero is stated, the cache
\* keeps the contract of TtlStore: an answer is the latest one stored for that
\* very key and not past the ttl stated with it, an eviction costs one entry and only when the cache is full,
\* an invalidation drops exactly what it names, and on a steady clock a stored
\* entry is found until it is due.
THEOREM CacheIsTtlStore ==
    ASSUME Jumps \subseteq Nat, 0 \notin Ttls
    PROVE  Spec => ImplementsTtlStore
<1>1. Init => RefInv /\ Contract!Init
  <2> SUFFICES ASSUME Init PROVE RefInv /\ Contract!Init
    OBVIOUS
  <2>1. OrderInv
    BY InitOrder
  <2>2. DOMAIN cache = {}
    BY EmptySeq DEF Init
  <2>3. ClockAhead /\ Punctual /\ ServedWithinTtl
    BY <2>2 DEF Init, ClockAhead, Punctual, ServedWithinTtl, NoResult
  <2>4. Stored = << >>
    <3>1. CachedKeys = {}
      BY <2>2 DEF CachedKeys
    <3> QED
      BY <3>1 DEF Stored
  <2>5. clock = elapsed
    BY DEF Init
  <2> QED
    BY <2>1, <2>3, <2>4, <2>5 DEF Init, RefInv, TtlInv, Contract!Init, NoResult
<1>2. RefInv /\ [Next]_vars => RefInv'
  BY NextTtl, NextPunctual DEF RefInv, TtlInv
<1>3. RefInv /\ RefInv' /\ [Next]_vars => [Contract!Next]_(Contract!vars)
  <2> SUFFICES ASSUME RefInv, RefInv', [Next]_vars
               PROVE  Contract!Next \/ UNCHANGED Contract!vars
    OBVIOUS
  <2>0. OrderInv /\ OrderInv'
    BY DEF RefInv, TtlInv
  <2>1. ASSUME NEW k \in Keys, MissAbsent(k) PROVE Contract!Next
    BY <2>0, <2>1, MissAbsentMaps DEF Contract!Next, Contract!Keys, Keys
  <2>2. ASSUME NEW k \in Keys, MissExpired(k) PROVE Contract!Next
    BY <2>0, <2>2, MissExpiredMaps DEF Contract!Next, Contract!Keys, Keys
  <2>3. ASSUME NEW k \in Keys, Hit(k) PROVE Contract!Next
    BY <2>0, <2>3, HitMaps DEF Contract!Next, Contract!Keys, Keys
  <2>4. ASSUME NEW k \in Keys, NEW v \in Values, NEW ttl \in Ttls, Set(k, v, ttl)
        PROVE  Contract!Next
    BY <2>0, <2>4, SetMaps DEF Contract!Next, Contract!Keys, Keys
  <2>5. ASSUME NEW p \in KeyPrefixes, InvalidatePrefix(p) PROVE Contract!Next
    BY <2>0, <2>5, InvalidatePrefixMaps DEF Contract!Next
  <2>6. CASE InvalidateAll
    BY <2>0, <2>6, InvalidateAllMaps DEF Contract!Next
  <2>7. CASE Tick \/ \E d \in Jumps : ClockJump(d)
    BY <2>7, TimeMaps DEF Contract!Next
  <2>8. CASE UNCHANGED vars
    <3>1. UNCHANGED Stored
      BY <2>8 DEF vars, Stored, CachedKeys, EntryOf
    <3> QED
      BY <2>8, <3>1 DEF vars, Contract!vars
  <2> QED
    BY <2>1, <2>2, <2>3, <2>4, <2>5, <2>6, <2>7, <2>8 DEF Next
<1> QED
  BY <1>1, <1>2, <1>3, PTL DEF Spec, ImplementsTtlStore, Contract!Spec
=============================================================================
