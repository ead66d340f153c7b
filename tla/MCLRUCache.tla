---------------------------- MODULE MCLRUCache ----------------------------
(***************************************************************************)
(* A small LRUCache for TLC: two prefixes, two digests, capacity two, so   *)
(* that evictions, overwrites and prefix invalidations meet each other.    *)
(***************************************************************************)
EXTENDS LRUCache

\* The default, and a ttl longer than it, as the routers state.  Zero is left out:
\* set() takes it for the default, and ServedWithinTtl and ImplementsTtlStore do
\* not hold with it (set with ttl 0, one Tick, get).
MCTtls == {None, 2}
MCForward == {1}
MCBackward == {-1}

\* Keys and values are only compared, so permuting their parts changes nothing.
MCSymmetry ==
    Permutations(KeyPrefixes) \cup Permutations(Digests) \cup Permutations(Values)
===========================================================================
