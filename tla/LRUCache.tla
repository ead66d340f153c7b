------------------------------ MODULE LRUCache ------------------------------
(***************************************************************************)
(* backend/services/cache.py: the in-memory LRU cache with per-entry TTL   *)
(* that sits in front of DuckDB in every API router.                       *)
(*                                                                         *)
(* The OrderedDict is the sequence `cache`, least recently used first.     *)
(* A key is "prefix:digest" where digest is 12 hex digits of the MD5 of    *)
(* the parameters; it is the pair <<prefix, digest>> here.  Callers run to *)
(* completion (async handlers with no await in them), so each operation    *)
(* is one step.  `elapsed` and the `deadline` of an entry are history:     *)
(* they measure true time, which the code cannot see; the code reads the   *)
(* wall clock time.time(), the variable `clock`, which an operator or NTP  *)
(* may step by any of Jumps.                                               *)
(***************************************************************************)
EXTENDS Integers, FiniteSets, SequencesExt

CONSTANTS
    KeyPrefixes,     \* key prefixes: "generation", "forecast", "metrics", ...
    Digests,      \* the hashes of the query parameters in use
    Values,       \* cached answers
    None,         \* Python's None: "no value", and "no ttl given"
    MaxSize,      \* LRUCache(max_size=...)
    DefaultTtl,   \* LRUCache(default_ttl=...)
    Ttls,         \* the ttl arguments callers pass: None or a number
    Jumps,        \* by how much the wall clock may be stepped
    MaxClock,     \* bound: the wall clock and the elapsed time stay below
    MaxLookups    \* bound: the number of counted lookups

ASSUME SizeAssumption == MaxSize \in Nat \ {0}
ASSUME TtlAssumption ==
    /\ DefaultTtl \in Nat
    /\ Ttls \subseteq Nat \cup {None}
    /\ None \notin Nat
ASSUME ValueAssumption == None \notin Values \cup KeyPrefixes
ASSUME ClockAssumption == Jumps \subseteq Int /\ MaxClock \in Nat /\ MaxLookups \in Nat

VARIABLES
    cache,        \* self._cache, least recently used entry first
    hits,         \* self._hits
    misses,       \* self._misses
    clock,        \* time.time()
    elapsed,      \* history: true time since start
    before,       \* history: <<a, b>> when cached a's last use precedes b's
    result        \* what the operation that just ran returned

vars == <<cache, hits, misses, clock, elapsed, before, result>>

Keys == KeyPrefixes \X Digests
Entries == [key : Keys, value : Values, expiry : Int, deadline : Nat]
CachedKeys == {cache[i].key : i \in DOMAIN cache}
NoResult == [op |-> "none"]
Results ==
    {NoResult}
        \cup [op : {"get"}, key : Keys, value : Values \cup {None}]
        \cup [op : {"set"}, key : Keys]
        \cup [op : {"invalidate"}, prefix : KeyPrefixes \cup {None}, count : Nat]

\* A use of k makes it the most recent of the cached keys (history only; the
\* pairs of keys no longer cached are forgotten).
Used(k) ==
    LET others == CachedKeys \ {k} IN (before \cap (others \X others)) \cup (others \X {k})

\* time.time() > expiry is expired.  Faulty: never expired; an off-by-one.
FreshAlways(e) == e.expiry >= 0
FreshStrictly(e) == clock < e.expiry
Fresh(e) == clock <= e.expiry

\* "ttl or default": None and 0 both mean the default.
EffectiveTtl(ttl) == IF ttl \in {None, 0} THEN DefaultTtl ELSE ttl

\* "Time-to-live in seconds (uses default if None)": what set() promises, on
\* which only the deadlines rest (history).  It differs for 0.
PromisedTtl(ttl) == IF ttl = None THEN DefaultTtl ELSE ttl

NewEntry(k, v, ttl) ==
    [key |-> k, value |-> v,
     expiry |-> clock + EffectiveTtl(ttl), deadline |-> elapsed + PromisedTtl(ttl)]

\* Entry i becomes e and moves to the most recent end.
\* Faulty: the entry is replaced where it stands.
ReplacedInPlace(i, e) == [cache EXCEPT ![i] = e]
MovedToEnd(i, e) == Append(RemoveAt(cache, i), e)

\* popitem(last=False).  Faulty: popitem(), which takes the newest.
NewestPopped == Front(cache)
OldestPopped == Tail(cache)

\* Faulty: one entry too many.
FullByOneMore == Len(cache) > MaxSize
Full == Len(cache) >= MaxSize

Init ==
    /\ cache = << >>
    /\ hits = 0
    /\ misses = 0
    /\ clock = 0
    /\ elapsed = 0
    /\ before = {}
    /\ result = NoResult

MissAbsent(k) ==
    /\ k \notin CachedKeys
    /\ hits + misses < MaxLookups
    /\ misses' = misses + 1
    /\ result' = [op |-> "get", key |-> k, value |-> None]
    /\ UNCHANGED <<cache, hits, clock, elapsed, before>>

MissExpired(k) ==
    /\ hits + misses < MaxLookups
    /\ \E i \in DOMAIN cache :
        /\ cache[i].key = k
        /\ ~Fresh(cache[i])
        /\ cache' = RemoveAt(cache, i)
    /\ misses' = misses + 1
    /\ result' = [op |-> "get", key |-> k, value |-> None]
    /\ UNCHANGED <<hits, clock, elapsed, before>>

Hit(k) ==
    /\ hits + misses < MaxLookups
    /\ \E i \in DOMAIN cache :
        /\ cache[i].key = k
        /\ Fresh(cache[i])
        /\ cache' = MovedToEnd(i, cache[i])
        /\ result' = [op |-> "get", key |-> k, value |-> cache[i].value]
    /\ hits' = hits + 1
    /\ before' = Used(k)
    /\ UNCHANGED <<misses, clock, elapsed>>

Set(k, v, ttl) ==
    LET e == NewEntry(k, v, ttl) IN
    /\ \/ \E i \in DOMAIN cache : cache[i].key = k /\ cache' = MovedToEnd(i, e)
       \/ k \notin CachedKeys /\ Full /\ cache' = Append(OldestPopped, e)
       \/ k \notin CachedKeys /\ ~Full /\ cache' = Append(cache, e)
    /\ result' = [op |-> "set", key |-> k]
    /\ before' = Used(k)
    /\ UNCHANGED <<hits, misses, clock, elapsed>>

\* Positions of the entries that survive invalidate(p).
\* Faulty: the test is inverted.
OnlyThisPrefix(p) == {i \in DOMAIN cache : cache[i].key[1] = p}
Survivors(p) == {i \in DOMAIN cache : cache[i].key[1] # p}

InvalidatePrefix(p) ==
    LET n == Cardinality(Survivors(p)) IN
    /\ \E f \in [1..n -> Survivors(p)] :
        /\ \A a, b \in 1..n : a < b => f[a] < f[b]
        /\ \A i \in Survivors(p) : \E a \in 1..n : f[a] = i
        /\ cache' = [a \in 1..n |-> cache[f[a]]]
    /\ result' = [op |-> "invalidate", prefix |-> p, count |-> Len(cache) - n]
    /\ UNCHANGED <<hits, misses, clock, elapsed, before>>

InvalidateAll ==
    /\ cache' = << >>
    /\ result' = [op |-> "invalidate", prefix |-> None, count |-> Len(cache)]
    /\ UNCHANGED <<hits, misses, clock, elapsed, before>>

\* Time passes for everyone.
Tick ==
    /\ clock < MaxClock /\ elapsed < MaxClock
    /\ clock' = clock + 1
    /\ elapsed' = elapsed + 1
    /\ result' = NoResult
    /\ UNCHANGED <<cache, hits, misses, before>>

\* The wall clock alone is stepped.
ClockJump(d) ==
    /\ clock + d \in 0..MaxClock
    /\ clock' = clock + d
    /\ result' = NoResult
    /\ UNCHANGED <<cache, hits, misses, elapsed, before>>

Next ==
    \/ \E k \in Keys : MissAbsent(k) \/ MissExpired(k) \/ Hit(k)
    \/ \E k \in Keys, v \in Values, ttl \in Ttls : Set(k, v, ttl)
    \/ \E p \in KeyPrefixes : InvalidatePrefix(p)
    \/ InvalidateAll
    \/ Tick
    \/ \E d \in Jumps : ClockJump(d)

Spec == Init /\ [][Next]_vars

-----------------------------------------------------------------------------
(* Properties *)

\* Types, and the bound of cache.py:95: never more than max_size entries.
TypeOK ==
    /\ cache \in Seq(Entries)
    /\ Len(cache) <= MaxSize
    /\ hits \in Nat
    /\ misses \in Nat
    /\ clock \in Nat
    /\ elapsed \in Nat
    /\ before \subseteq {p \in Keys \X Keys : p[1] # p[2]}
    /\ result \in Results

\* The order of the OrderedDict is the order of the last uses, whatever mix of
\* hits, overwrites, expiries, evictions and invalidations led here.  As no key
\* precedes itself, no key is cached twice.
UseOrder ==
    \A i, j \in DOMAIN cache : i < j => <<cache[i].key, cache[j].key>> \in before

\* A set() that drops an entry drops the one whose last use is the oldest of
\* all cached keys (cache.py:95-96), and never the key being set.
EvictsOnlyLeastRecentlyUsed ==
    [][result'.op = "set" =>
        \A i \in DOMAIN cache :
            cache[i].key \notin {cache'[j].key : j \in DOMAIN cache'} =>
                \A j \in DOMAIN cache :
                    j # i => <<cache[i].key, cache[j].key>> \in before]_vars

\* "Time-to-live in seconds (uses default if None)" (cache.py:88, 29): an answer
\* taken from the cache was stored no longer ago, in true time, than the ttl its
\* caller stated, or the default where it stated none.
ServedWithinTtl ==
    result.op = "get" /\ result.value # None =>
        \E i \in DOMAIN cache :
            /\ cache[i].key = result.key
            /\ cache[i].value = result.value
            /\ elapsed <= cache[i].deadline

EntryOf(k) == cache[CHOOSE i \in DOMAIN cache : cache[i].key = k]
Stored == [k \in CachedKeys |-> [value |-> EntryOf(k).value, due |-> EntryOf(k).deadline]]

Contract == INSTANCE TtlStore WITH
    store <- Stored,
    now <- elapsed,
    Capacity <- MaxSize,
    Lifetimes <- {PromisedTtl(ttl) : ttl \in Ttls},
    steady <- clock = elapsed

\* The cache is a TtlStore: a lookup answers the latest put of its key or
\* nothing, an eviction costs one entry and only when full, an invalidation
\* drops exactly its prefix.
ImplementsTtlStore == Contract!Spec
=============================================================================
