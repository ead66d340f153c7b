---------------------------- MODULE FeedReplica ----------------------------
(***************************************************************************)
(* What the ingestion pipeline promises about the database, whatever fails *)
(* and however often it is run: the database is a replica of the BMRS feed *)
(* that may lag, but                                                       *)
(*   - a day's rows only ever move forward, to a version the feed has      *)
(*     really published;                                                   *)
(*   - one transaction touches one table and one batch's window of days.   *)
(* The feed itself only adds and revises.  Ingestion implements it         *)
(* (Ingestion!ImplementsFeedReplica).                                      *)
(***************************************************************************)
EXTENDS Integers

CONSTANTS
    Datasets,        \* the tables kept
    Days,            \* the days their rows belong to
    Batches,         \* the units of ingestion
    Window(_, _)     \* the days of a dataset that a batch asks for

VARIABLES
    feed,            \* feed[s][d]: version published, 0 when none
    db               \* db[s][d]: version stored, 0 when none

vars == <<feed, db>>

Init ==
    /\ feed \in [Datasets -> [Days -> Nat]]
    /\ db = [s \in Datasets |-> [d \in Days |-> 0]]

Publish ==
    /\ \A s \in Datasets, d \in Days : feed[s][d] <= feed'[s][d]
    /\ UNCHANGED db

Commit(s, b) ==
    /\ \A d \in Window(s, b) : db'[s][d] \in db[s][d]..feed[s][d]
    /\ \A t \in Datasets, d \in Days : t # s \/ d \notin Window(s, b) => db'[t][d] = db[t][d]
    /\ UNCHANGED feed

Next == Publish \/ \E s \in Datasets, b \in Batches : Commit(s, b)

Spec == Init /\ [][Next]_vars
=============================================================================
