------------------------------ MODULE TtlStore ------------------------------
(***************************************************************************)
(* What a caller of backend/services/cache.py may rely on, without saying  *)
(* how the entries are ordered, evicted or timed.  A store maps keys to    *)
(* values that are good until a due time measured in true elapsed time:    *)
(*   - a lookup answers the value of the LATEST put of that very key, and  *)
(*     never after it is due;                                              *)
(*   - a put drops at most one other entry, and only when the store is     *)
(*     full and the key is new;                                            *)
(*   - an invalidation drops exactly the entries it names and counts them; *)
(*   - as long as time is steady, a stored entry is not missed before it is *)
(*     due.                                                                *)
(* LRUCache implements it (LRUCache!ImplementsTtlStore).                   *)
(***************************************************************************)
EXTENDS Integers, FiniteSets

CONSTANTS
    KeyPrefixes,  \* the first halves of keys: one per kind of query
    Digests,      \* the second halves: one per set of query parameters
    Values,       \* what is stored
    None,         \* "no value"
    Capacity,     \* the most entries held
    Lifetimes     \* how long an entry may be good for

VARIABLES
    store,        \* key -> [value, due]: a function on the keys held
    now,          \* true elapsed time
    steady,       \* the clock the store reads has kept step with it so far
    result        \* what the operation that just ran returned

vars == <<store, now, steady, result>>

Keys == KeyPrefixes \X Digests

Restricted(keys) == [k \in keys |-> store[k]]

Init ==
    /\ store = << >>
    /\ now = 0
    /\ steady = TRUE
    /\ result = [op |-> "none"]

Put(k, v, life) ==
    \E victims \in SUBSET (DOMAIN store \ {k}) :
        /\ Cardinality(victims) <= 1
        /\ victims # {} => k \notin DOMAIN store /\ Cardinality(DOMAIN store) >= Capacity
        /\ store' = [x \in (DOMAIN store \ victims) \cup {k} |->
                        IF x = k THEN [value |-> v, due |-> now + life] ELSE store[x]]
        /\ result' = [op |-> "set", key |-> k]
        /\ UNCHANGED <<now, steady>>

Found(k) ==
    /\ k \in DOMAIN store
    /\ now <= store[k].due
    /\ result' = [op |-> "get", key |-> k, value |-> store[k].value]
    /\ UNCHANGED <<store, now, steady>>

NotFound(k) ==
    /\ k \in DOMAIN store /\ steady => now > store[k].due
    /\ store' = Restricted(DOMAIN store \ {k})
    /\ result' = [op |-> "get", key |-> k, value |-> None]
    /\ UNCHANGED <<now, steady>>

\* Without a prefix (None), every key.
Named(p) == IF p = None THEN Keys ELSE {p} \X Digests

Drop(p) ==
    /\ store' = Restricted(DOMAIN store \ Named(p))
    /\ result' = [op |-> "invalidate", prefix |-> p,
                  count |-> Cardinality(DOMAIN store \cap Named(p))]
    /\ UNCHANGED <<now, steady>>

\* Time passes, or the clock the store reads moves on its own: what it lost
\* of true time it does not regain.
Pass ==
    /\ now' \in {now, now + 1}
    /\ steady' \in {FALSE, steady}
    /\ result' = [op |-> "none"]
    /\ UNCHANGED store

Next ==
    \/ \E k \in Keys, v \in Values, life \in Lifetimes : Put(k, v, life)
    \/ \E k \in Keys : Found(k) \/ NotFound(k)
    \/ \E p \in KeyPrefixes \cup {None} : Drop(p)
    \/ Pass

Spec == Init /\ [][Next]_vars
=============================================================================
