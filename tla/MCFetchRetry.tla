---------------------------- MODULE MCFetchRetry ----------------------------
(***************************************************************************)
(* The shipped configuration, whose delays never reach their cap in five   *)
(* attempts, one that does, and the degenerate one without attempts.       *)
(***************************************************************************)
EXTENDS FetchRetry

Shipped == [maxRetries |-> 5, baseDelay |-> 1, maxDelay |-> 60, factor |-> 2]
Capped == [maxRetries |-> 5, baseDelay |-> 1, maxDelay |-> 5, factor |-> 2]
NoAttempt == [maxRetries |-> 0, baseDelay |-> 1, maxDelay |-> 60, factor |-> 2]

MCConfigs == {Shipped, Capped, NoAttempt}
=============================================================================
