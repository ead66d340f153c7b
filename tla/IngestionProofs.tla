--------------------------- MODULE IngestionProofs ---------------------------
(***************************************************************************)
(* Proofs about Ingestion for any number of batches, any look-back, any    *)
(* pattern of publications and revisions, and any number of failures,      *)
(* kills, dry runs and re-runs.                                            *)
(***************************************************************************)
EXTENDS Ingestion, TLAPS

\* The feed only grows: it is never behind what was read from it.
FeedLeads ==
    \A s \in Datasets, d \in Days :
        /\ db[s][d] <= feed[s][d]
        /\ feedAtStart[s][d] <= feed[s][d]

\* The frame in hand is at least as new as anything it is about to replace, and
\* holds nothing outside its window.
FrameLeads ==
    pc \in {"save", "load"} =>
        \A d \in Days :
            /\ df[d] <= feed[ds][d]
            /\ d \in Window(ds, batch) => df[d] >= db[ds][d] /\ df[d] >= feedAtStart[ds][d]
            /\ d \notin Window(ds, batch) => df[d] = 0

RunShape ==
    /\ pc = "idle" <=> exit # "running"
    /\ pc = "finish" => batch = NumDays

\* The run is past dataset s of batch b.
Passed(s, b) ==
    \/ b < batch
    \/ pc \in {"finish", "idle"}
    \/ b = batch /\ s = "actual" /\ ds = "forecast"

\* What a run is past is in the database or in the error list.
PassedIsLoaded ==
    exit \in {"running", "clean", "errors"} /\ ~dry =>
        \A s \in Datasets, b \in Batches :
            Passed(s, b) /\ b \notin errors =>
                \A d \in Window(s, b) : feedAtStart[s][d] <= db[s][d]

IngestInv == TypeOK /\ RunShape /\ FeedLeads /\ FrameLeads /\ PassedIsLoaded

-----------------------------------------------------------------------------
LEMMA WindowInDays ==
    \A s \in Datasets, b \in Batches : Window(s, b) \subseteq Days
<1> SUFFICES ASSUME NEW s \in Datasets, NEW b \in Batches, NEW d \in Window(s, b)
             PROVE  d \in Days
  OBVIOUS
<1>1. CASE s = "actual"
  BY <1>1, RangeAssumption DEF Window, Days, Batches
<1>2. CASE s # "actual"
  BY <1>2, RangeAssumption DEF Window, Days, Batches
<1> QED
  BY <1>1, <1>2

LEMMA NoRowsTyped == NoRows \in Frames /\ \A d \in Days : NoRows[d] = 0
BY DEF NoRows, Frames

LEMMA FilesTyped == Absent \in Files /\ Torn \in Files
BY NoRowsTyped DEF Absent, Torn, Files

LEMMA ResponseTyped ==
    ASSUME TypeOK
    PROVE  /\ Response(ds, batch) \in Frames
           /\ \A d \in Days :
                Response(ds, batch)[d] = IF d \in Window(ds, batch) THEN feed[ds][d] ELSE 0
BY DEF TypeOK, Response, Frames

LEMMA UpsertTyped ==
    ASSUME NEW rows \in Frames, NEW frame \in Frames
    PROVE  /\ Upserted(rows, frame) \in Frames
           /\ \A d \in Days :
                Upserted(rows, frame)[d] = IF frame[d] > 0 THEN frame[d] ELSE rows[d]
BY DEF Upserted, Frames

\* Where the ends of a dataset and of a batch lead.
LEMMA EndBatchShape ==
    ASSUME TypeOK, EndBatch
    PROVE  /\ ds' = "actual" /\ df' = NoRows /\ pc' \in {"fetch", "finish"}
           /\ batch' \in Batches
           /\ pc' = "finish" => batch' = NumDays
           /\ \/ batch' = batch + 1 /\ pc' = "fetch"
              \/ batch' = batch /\ batch = NumDays /\ pc' = "finish"
BY RangeAssumption DEF EndBatch, TypeOK, Batches

LEMMA EndDatasetShape ==
    ASSUME TypeOK, EndDataset
    PROVE  /\ ds' \in Datasets /\ df' = NoRows /\ pc' \in {"fetch", "finish"}
           /\ batch' \in Batches
           /\ pc' = "finish" => batch' = NumDays
           /\ \/ ds = "actual" /\ ds' = "forecast" /\ batch' = batch /\ pc' = "fetch"
              \/ ds = "forecast" /\ EndBatch
<1>1. CASE ds = "actual"
  BY <1>1 DEF EndDataset, TypeOK, Datasets
<1>2. CASE ds # "actual"
  BY <1>2, EndBatchShape DEF EndDataset, TypeOK, Datasets
<1> QED
  BY <1>1, <1>2

\* When a dataset ends, what the run is past is what it was past, and that one.
LEMMA PassedAfterDataset ==
    ASSUME TypeOK, EndDataset, NEW s \in Datasets, NEW b \in Batches, Passed(s, b)',
           pc \in {"fetch", "save", "load"}
    PROVE  Passed(s, b) \/ (s = ds /\ b = batch)
<1>0. b \in Int /\ batch \in Int /\ NumDays \in Int /\ b <= NumDays
  BY RangeAssumption DEF TypeOK, Batches
<1>1. CASE ds = "actual"
  <2>1. ds' = "forecast" /\ batch' = batch /\ pc' = "fetch"
    BY <1>1 DEF EndDataset
  <2> QED
    BY <1>1, <2>1 DEF Passed
<1>2. CASE ds = "forecast" /\ EndBatch
  <2>1. /\ ds' = "actual"
        /\ \/ batch' = batch + 1 /\ pc' = "fetch"
           \/ batch' = batch /\ batch = NumDays
    BY <1>2, EndBatchShape
  <2>2. b < batch \/ b = batch
    BY <1>0, <2>1 DEF Passed
  <2> QED
    BY <1>2, <2>2 DEF Passed, Datasets
<1> QED
  BY <1>1, <1>2, EndDatasetShape

\* The same at the end of a batch.
LEMMA PassedAfterBatch ==
    ASSUME TypeOK, EndBatch, NEW s \in Datasets, NEW b \in Batches, Passed(s, b)',
           pc \in {"fetch", "save", "load"}
    PROVE  Passed(s, b) \/ b = batch
<1>0. b \in Int /\ batch \in Int /\ NumDays \in Int /\ b <= NumDays
  BY RangeAssumption DEF TypeOK, Batches
<1>1. /\ ds' = "actual"
      /\ \/ batch' = batch + 1 /\ pc' = "fetch"
         \/ batch' = batch /\ batch = NumDays
  BY EndBatchShape
<1> QED
  BY <1>0, <1>1 DEF Passed

-----------------------------------------------------------------------------
(* The steps *)

LEMMA InitInv == Init => IngestInv
<1> SUFFICES ASSUME Init PROVE IngestInv
  OBVIOUS
<1>1. feed \in [Datasets -> Frames]
  BY DEF Init, Frames
<1>2. TypeOK
  <2>1. db \in [Datasets -> Frames] /\ df \in Frames
    BY NoRowsTyped DEF Init
  <2>2. archive \in [Datasets -> [Batches -> Files]]
    BY FilesTyped DEF Init
  <2>3. batch \in Batches /\ ds \in Datasets /\ faults \in 0..MaxFaults
    BY RangeAssumption, BoundAssumption DEF Init, Batches, Datasets
  <2> QED
    BY <1>1, <2>1, <2>2, <2>3 DEF Init, TypeOK
<1>3. FeedLeads
  <2>1. \A s \in Datasets, d \in Days : feed[s][d] \in Nat /\ db[s][d] = 0
    BY <1>1, NoRowsTyped DEF Init, Frames
  <2> QED
    BY <2>1 DEF FeedLeads, Init
<1> QED
  BY <1>2, <1>3 DEF Init, IngestInv, RunShape, FrameLeads, PassedIsLoaded

LEMMA StartInv ==
    ASSUME IngestInv, NEW asDry \in BOOLEAN, Start(asDry)
    PROVE  IngestInv'
<1>0. TypeOK
  BY DEF IngestInv
<1>1. TypeOK'
  BY <1>0, NoRowsTyped, RangeAssumption DEF Start, outside, disk, TypeOK, Batches, Datasets
<1>2. FeedLeads'
  <2>1. \A s \in Datasets, d \in Days : feed[s][d] \in Nat
    BY <1>0 DEF TypeOK, Frames
  <2> QED
    BY <2>1 DEF Start, disk, IngestInv, FeedLeads
<1>3. PassedIsLoaded'
  <2>1. \A s \in Datasets, b \in Batches : ~Passed(s, b)'
    BY DEF Start, Passed, Batches
  <2> QED
    BY <2>1 DEF PassedIsLoaded
<1> QED
  BY <1>1, <1>2, <1>3 DEF Start, IngestInv, RunShape, FrameLeads

\* A dataset ends with its window loaded (or nothing to load): what is passed
\* is loaded.
LEMMA DatasetLoaded ==
    ASSUME IngestInv, TypeOK', EndDataset, pc \in {"fetch", "save", "load"},
           UNCHANGED <<errors, exit, dry, feedAtStart>>,
           \A s \in Datasets, d \in Days : db[s][d] <= db'[s][d],
           ~dry => \A d \in Window(ds, batch) : feedAtStart[ds][d] <= db'[ds][d]
    PROVE  PassedIsLoaded'
<1>0. TypeOK
  BY DEF IngestInv
<1> SUFFICES ASSUME exit' \in {"running", "clean", "errors"}, ~dry',
                    NEW s \in Datasets, NEW b \in Batches, Passed(s, b)', b \notin errors',
                    NEW d \in Window(s, b)
             PROVE  feedAtStart'[s][d] <= db'[s][d]
  BY DEF PassedIsLoaded, Window
<1>1. CASE s = ds /\ b = batch
  BY <1>1
<1>2. CASE Passed(s, b)
  <2>1. d \in Days
    BY WindowInDays
  <2>2. feedAtStart[s][d] <= db[s][d]
    BY <1>2 DEF IngestInv, PassedIsLoaded
  <2>3. /\ db[s][d] \in Nat /\ feedAtStart[s][d] \in Nat /\ db'[s][d] \in Nat
        /\ db[s][d] <= db'[s][d]
    BY <1>0, <2>1 DEF TypeOK, Frames
  <2> QED
    BY <2>2, <2>3
<1> QED
  BY <1>0, <1>1, <1>2, PassedAfterDataset

LEMMA FetchInv ==
    ASSUME IngestInv, Fetch
    PROVE  IngestInv'
<1> DEFINE r == Response(ds, batch)
<1>0. TypeOK /\ pc = "fetch" /\ exit = "running" /\ ds \in Datasets /\ batch \in Batches
  BY DEF Fetch, IngestInv, RunShape, TypeOK
<1>1. r \in Frames /\ \A d \in Days : r[d] = IF d \in Window(ds, batch) THEN feed[ds][d] ELSE 0
  BY <1>0, ResponseTyped
<1>2. UNCHANGED <<feed, feedAtStart, dry, db, archive, errors, exit, faults>>
  BY DEF Fetch, outside, disk
<1>3. FeedLeads'
  BY <1>2 DEF IngestInv, FeedLeads
<1> HIDE DEF r
<1>4. CASE r = NoRows /\ EndDataset
  <2>1. TypeOK'
    BY <1>0, <1>2, <1>4, EndDatasetShape, NoRowsTyped DEF TypeOK
  <2>2. \A d \in Window(ds, batch) : feedAtStart[ds][d] <= db[ds][d]
    <3> SUFFICES ASSUME NEW d \in Window(ds, batch)
                 PROVE  feedAtStart[ds][d] <= db[ds][d]
      OBVIOUS
    <3>1. d \in Days
      BY <1>0, WindowInDays
    <3>2. feed[ds][d] = 0
      BY <1>1, <1>4, <3>1, NoRowsTyped
    <3>3. feedAtStart[ds][d] <= feed[ds][d]
      BY <1>0, <3>1 DEF IngestInv, FeedLeads
    <3>4. feedAtStart[ds][d] \in Nat /\ db[ds][d] \in Nat
      BY <1>0, <3>1 DEF TypeOK, Frames
    <3> QED
      BY <3>2, <3>3, <3>4
  <2>3. \A s \in Datasets, d \in Days : db[s][d] <= db'[s][d]
    BY <1>0, <1>2 DEF TypeOK, Frames
  <2>4. PassedIsLoaded'
    BY <1>0, <1>2, <1>4, <2>1, <2>2, <2>3, DatasetLoaded
  <2>5. FrameLeads' /\ RunShape'
    BY <1>0, <1>2, <1>4, EndDatasetShape DEF FrameLeads, RunShape
  <2> QED
    BY <1>3, <2>1, <2>4, <2>5 DEF IngestInv
<1>5. CASE df' = r /\ pc' = "save" /\ UNCHANGED <<batch, ds>>
  <2>1. TypeOK'
    BY <1>0, <1>1, <1>2, <1>5 DEF TypeOK
  <2>2. FrameLeads'
    <3> SUFFICES ASSUME NEW d \in Days
                 PROVE  /\ r[d] <= feed[ds][d]
                        /\ d \in Window(ds, batch) => r[d] >= db[ds][d] /\ r[d] >= feedAtStart[ds][d]
                        /\ d \notin Window(ds, batch) => r[d] = 0
      BY <1>2, <1>5 DEF FrameLeads, Window
    <3>1. /\ feed[ds][d] \in Nat /\ db[ds][d] \in Nat /\ feedAtStart[ds][d] \in Nat
          /\ db[ds][d] <= feed[ds][d] /\ feedAtStart[ds][d] <= feed[ds][d]
      BY <1>0 DEF IngestInv, FeedLeads, TypeOK, Frames
    <3> QED
      BY <1>1, <3>1
  <2>3. PassedIsLoaded'
    <3>1. \A s \in Datasets, b \in Batches : Passed(s, b)' <=> Passed(s, b)
      BY <1>0, <1>5 DEF Passed
    <3> QED
      BY <1>2, <3>1 DEF IngestInv, PassedIsLoaded, Window
  <2>4. RunShape'
    BY <1>0, <1>2, <1>5 DEF RunShape
  <2> QED
    BY <1>3, <2>1, <2>2, <2>3, <2>4 DEF IngestInv
<1> QED
  BY <1>4, <1>5 DEF Fetch, r

LEMMA SaveInv ==
    ASSUME IngestInv, Save
    PROVE  IngestInv'
<1>0. TypeOK /\ pc = "save" /\ exit = "running" /\ ds \in Datasets /\ batch \in Batches
  BY DEF Save, IngestInv, RunShape, TypeOK
<1>1. UNCHANGED <<feed, feedAtStart, dry, db, errors, exit, faults>>
  BY DEF Save, outside
<1>2. archive' \in [Datasets -> [Batches -> Files]]
  <2>1. Written \in Files
    BY <1>0 DEF Written, Files, TypeOK
  <2> QED
    BY <1>0, <2>1 DEF Save, TypeOK
<1>3. FeedLeads'
  BY <1>1 DEF IngestInv, FeedLeads
<1>4. CASE dry /\ EndDataset
  <2>1. TypeOK'
    BY <1>0, <1>1, <1>2, <1>4, EndDatasetShape, NoRowsTyped DEF TypeOK
  <2>2. PassedIsLoaded'
    BY <1>1, <1>4 DEF PassedIsLoaded
  <2>3. FrameLeads' /\ RunShape'
    BY <1>0, <1>1, <1>4, EndDatasetShape DEF FrameLeads, RunShape
  <2> QED
    BY <1>3, <2>1, <2>2, <2>3 DEF IngestInv
<1>5. CASE pc' = "load" /\ UNCHANGED <<batch, ds, df>>
  <2>1. TypeOK'
    BY <1>0, <1>1, <1>2, <1>5 DEF TypeOK
  <2>2. FrameLeads' /\ RunShape'
    BY <1>0, <1>1, <1>5 DEF IngestInv, FrameLeads, RunShape, Window
  <2>3. PassedIsLoaded'
    <3>1. \A s \in Datasets, b \in Batches : Passed(s, b)' <=> Passed(s, b)
      BY <1>0, <1>5 DEF Passed
    <3> QED
      BY <1>1, <3>1 DEF IngestInv, PassedIsLoaded, Window
  <2> QED
    BY <1>3, <2>1, <2>2, <2>3 DEF IngestInv
<1> QED
  BY <1>4, <1>5 DEF Save

\* What Load does to the table: the window takes the frame's versions, which
\* are no older, and everything else stays.
LEMMA LoadStores ==
    ASSUME IngestInv, Load
    PROVE  /\ db' \in [Datasets -> Frames]
           /\ \A d \in Window(ds, batch) :
                 /\ db[ds][d] <= db'[ds][d] /\ db'[ds][d] <= feed[ds][d]
                 /\ feedAtStart[ds][d] <= db'[ds][d]
           /\ \A s \in Datasets, d \in Days :
                 s # ds \/ d \notin Window(ds, batch) => db'[s][d] = db[s][d]
<1>0. TypeOK /\ pc = "load" /\ ds \in Datasets /\ batch \in Batches
  BY DEF Load, IngestInv, TypeOK
<1>1. db[ds] \in Frames /\ df \in Frames
  BY <1>0 DEF TypeOK
<1>2. /\ Upserted(db[ds], df) \in Frames
      /\ \A d \in Days : Upserted(db[ds], df)[d] = IF df[d] > 0 THEN df[d] ELSE db[ds][d]
  BY <1>1, UpsertTyped
<1>3. /\ db' \in [Datasets -> Frames]
      /\ db'[ds] = Upserted(db[ds], df)
      /\ \A s \in Datasets : s # ds => db'[s] = db[s]
  BY <1>0, <1>2 DEF Load, TypeOK
<1>4. ASSUME NEW d \in Days
      PROVE  /\ df[d] \in Nat /\ db[ds][d] \in Nat /\ feed[ds][d] \in Nat
             /\ feedAtStart[ds][d] \in Nat
             /\ db[ds][d] <= feed[ds][d] /\ df[d] <= feed[ds][d]
             /\ d \in Window(ds, batch) => df[d] >= db[ds][d] /\ df[d] >= feedAtStart[ds][d]
             /\ d \notin Window(ds, batch) => df[d] = 0
  BY <1>0, <1>1 DEF IngestInv, FeedLeads, FrameLeads, TypeOK, Frames
<1>5. ASSUME NEW d \in Window(ds, batch)
      PROVE  /\ db[ds][d] <= db'[ds][d] /\ db'[ds][d] <= feed[ds][d]
             /\ feedAtStart[ds][d] <= db'[ds][d]
  <2>1. d \in Days
    BY <1>0, WindowInDays
  <2>2. db'[ds][d] = IF df[d] > 0 THEN df[d] ELSE db[ds][d]
    BY <1>2, <1>3, <2>1
  <2> QED
    BY <1>4, <2>1, <2>2
<1>6. ASSUME NEW d \in Days, d \notin Window(ds, batch)
      PROVE  db'[ds][d] = db[ds][d]
  BY <1>2, <1>3, <1>4, <1>6
<1> QED
  BY <1>3, <1>5, <1>6

LEMMA LoadInv ==
    ASSUME IngestInv, Load
    PROVE  IngestInv'
<1>0. TypeOK /\ pc = "load" /\ exit = "running" /\ ds \in Datasets /\ batch \in Batches
  BY DEF Load, IngestInv, RunShape, TypeOK
<1>1. UNCHANGED <<feed, feedAtStart, dry, archive, errors, exit, faults>> /\ EndDataset
  BY DEF Load, outside
<1>2. TypeOK'
  BY <1>0, <1>1, LoadStores, EndDatasetShape, NoRowsTyped DEF TypeOK
<1>3. ASSUME NEW s \in Datasets, NEW d \in Days
      PROVE  db[s][d] <= db'[s][d] /\ db'[s][d] <= feed[s][d]
  <2>1. db[s][d] \in Nat /\ feed[s][d] \in Nat /\ db[s][d] <= feed[s][d]
    BY <1>0 DEF TypeOK, Frames, IngestInv, FeedLeads
  <2> QED
    BY <2>1, LoadStores
<1>4. FeedLeads'
  BY <1>1, <1>3 DEF IngestInv, FeedLeads
<1>5. PassedIsLoaded'
  BY <1>0, <1>1, <1>2, <1>3, LoadStores, DatasetLoaded
<1>6. FrameLeads' /\ RunShape'
  BY <1>0, <1>1, EndDatasetShape DEF FrameLeads, RunShape
<1> QED
  BY <1>2, <1>4, <1>5, <1>6 DEF IngestInv

LEMMA MaybeTornTyped ==
    ASSUME TypeOK, MaybeTorn
    PROVE  archive' \in [Datasets -> [Batches -> Files]]
BY FilesTyped DEF MaybeTorn, TypeOK

LEMMA RaiseInv ==
    ASSUME IngestInv, Raise
    PROVE  IngestInv'
<1>0. TypeOK /\ pc \in {"fetch", "save", "load"} /\ exit = "running" /\ batch \in Batches
  BY DEF Raise, IngestInv, RunShape, TypeOK
<1>1. /\ UNCHANGED <<feed, feedAtStart, dry, db, exit>>
      /\ EndBatch /\ errors' = errors \cup {batch}
  BY DEF Raise, outside, FailedBatch
<1>2. TypeOK'
  <2>1. faults' \in 0..MaxFaults
    BY <1>0, BoundAssumption DEF Raise, TypeOK
  <2> QED
    BY <1>0, <1>1, <2>1, MaybeTornTyped, EndBatchShape, NoRowsTyped
       DEF Raise, TypeOK, Datasets
<1>3. FeedLeads'
  BY <1>1 DEF IngestInv, FeedLeads
<1>4. PassedIsLoaded'
  <2> SUFFICES ASSUME exit' \in {"running", "clean", "errors"}, ~dry',
                      NEW s \in Datasets, NEW b \in Batches, Passed(s, b)', b \notin errors',
                      NEW d \in Window(s, b)
               PROVE  feedAtStart'[s][d] <= db'[s][d]
    BY DEF PassedIsLoaded, Window
  <2>1. Passed(s, b) /\ b \notin errors
    BY <1>0, <1>1, PassedAfterBatch
  <2> QED
    BY <1>1, <2>1 DEF IngestInv, PassedIsLoaded
<1>5. FrameLeads' /\ RunShape'
  BY <1>0, <1>1, EndBatchShape DEF FrameLeads, RunShape
<1> QED
  BY <1>2, <1>3, <1>4, <1>5 DEF IngestInv

LEMMA KillInv ==
    ASSUME IngestInv, Kill
    PROVE  IngestInv'
<1>0. TypeOK
  BY DEF IngestInv
<1>1. TypeOK'
  <2>1. faults' \in 0..MaxFaults
    BY <1>0, BoundAssumption DEF Kill, TypeOK
  <2> QED
    BY <1>0, <2>1, MaybeTornTyped, NoRowsTyped, RangeAssumption
       DEF Kill, outside, TypeOK, Datasets, Batches
<1> QED
  BY <1>1 DEF Kill, outside, IngestInv, FeedLeads, FrameLeads, RunShape, PassedIsLoaded

LEMMA FinishInv ==
    ASSUME IngestInv, Finish
    PROVE  IngestInv'
<1>0. TypeOK /\ pc = "finish" /\ exit = "running" /\ ~(pc' \in {"save", "load"})
  BY DEF Finish, IngestInv, RunShape
<1>1. TypeOK'
  BY <1>0 DEF Finish, outside, disk, TypeOK
<1>2. PassedIsLoaded'
  <2>1. \A s \in Datasets, b \in Batches : Passed(s, b)
    BY <1>0 DEF Passed
  <2> QED
    BY <1>0, <2>1 DEF Finish, outside, disk, IngestInv, PassedIsLoaded, Window
<1> QED
  BY <1>0, <1>1, <1>2 DEF Finish, outside, disk, IngestInv, FeedLeads, FrameLeads, RunShape

LEMMA ReviseInv ==
    ASSUME IngestInv, NEW p \in Revisable, Revise(p[1], p[2])
    PROVE  IngestInv'
<1>0. TypeOK /\ p[1] \in Datasets /\ p[2] \in Days
  BY BoundAssumption DEF IngestInv, Datasets, Days
<1>1. /\ feed' \in [Datasets -> Frames]
      /\ \A s \in Datasets, d \in Days : feed[s][d] <= feed'[s][d]
  BY <1>0 DEF Revise, TypeOK, Frames
<1>2. TypeOK'
  BY <1>0, <1>1 DEF Revise, disk, TypeOK
<1>3. \A s \in Datasets, d \in Days :
         /\ feed[s][d] \in Nat /\ feed'[s][d] \in Nat /\ db[s][d] \in Nat
         /\ feedAtStart[s][d] \in Nat /\ df[d] \in Nat
  BY <1>0, <1>1 DEF TypeOK, Frames
<1>4. FeedLeads'
  <2> SUFFICES ASSUME NEW s \in Datasets, NEW d \in Days
               PROVE  db[s][d] <= feed'[s][d] /\ feedAtStart[s][d] <= feed'[s][d]
    BY DEF Revise, disk, FeedLeads
  <2>1. db[s][d] <= feed[s][d] /\ feedAtStart[s][d] <= feed[s][d] /\ feed[s][d] <= feed'[s][d]
    BY <1>1 DEF IngestInv, FeedLeads
  <2> QED
    BY <1>3, <2>1
<1>5. FrameLeads'
  <2> SUFFICES ASSUME pc \in {"save", "load"}, NEW d \in Days
               PROVE  /\ df[d] <= feed'[ds][d]
                      /\ d \in Window(ds, batch) => df[d] >= db[ds][d] /\ df[d] >= feedAtStart[ds][d]
                      /\ d \notin Window(ds, batch) => df[d] = 0
    BY DEF Revise, disk, FrameLeads, Window
  <2>1. /\ df[d] <= feed[ds][d]
        /\ d \in Window(ds, batch) => df[d] >= db[ds][d] /\ df[d] >= feedAtStart[ds][d]
        /\ d \notin Window(ds, batch) => df[d] = 0
    BY DEF IngestInv, FrameLeads
  <2>2. ds \in Datasets
    BY <1>0 DEF TypeOK
  <2> QED
    BY <1>1, <1>3, <2>1, <2>2
<1> QED
  BY <1>2, <1>4, <1>5 DEF Revise, disk, IngestInv, RunShape, PassedIsLoaded, Passed, Window

LEMMA NextInv == IngestInv /\ [Next]_vars => IngestInv'
<1> SUFFICES ASSUME IngestInv, [Next]_vars
             PROVE  IngestInv'
  OBVIOUS
<1>1. CASE UNCHANGED vars
  BY <1>1 DEF vars, disk, outside, IngestInv, TypeOK, FeedLeads, FrameLeads, RunShape,
              PassedIsLoaded, Passed, Window
<1> QED
  BY <1>1, StartInv, FetchInv, SaveInv, LoadInv, FinishInv, RaiseInv, KillInv, ReviseInv
     DEF Next, Step

LEMMA SpecInv == Spec => []IngestInv
BY InitInv, NextInv, PTL DEF Spec

-----------------------------------------------------------------------------
(* What follows *)

\* Every reachable state is well typed.
THEOREM TypeCorrect == Spec => []TypeOK
<1>1. IngestInv => TypeOK
  BY DEF IngestInv
<1> QED
  BY <1>1, SpecInv, PTL

\* A finished run is missing a day only if every batch covering it is listed
\* among its errors; in particular a clean run is missing nothing.
THEOREM LossAlwaysReported == Spec => []LossIsReported
<1>1. IngestInv => LossIsReported
  <2> SUFFICES ASSUME IngestInv, exit \in {"clean", "errors"}, ~dry,
                      NEW s \in Datasets, NEW d \in Days, db[s][d] < feedAtStart[s][d],
                      NEW b \in Batches, d \in Window(s, b), b \notin errors
               PROVE  FALSE
    BY DEF LossIsReported
  <2>1. Passed(s, b)
    BY DEF IngestInv, RunShape, Passed
  <2>2. feedAtStart[s][d] <= db[s][d]
    BY <2>1 DEF IngestInv, PassedIsLoaded
  <2>3. feedAtStart[s][d] \in Nat /\ db[s][d] \in Nat
    BY DEF IngestInv, TypeOK, Frames
  <2> QED
    BY <2>2, <2>3
<1> QED
  BY <1>1, SpecInv, PTL

\* The pipeline implements FeedReplica: whatever fails, the database only moves
\* forward, one window of one table at a time, to versions the feed published.
THEOREM IngestionIsReplica == Spec => ImplementsFeedReplica
<1>1. Init => Replica!Init
  BY DEF Init, Replica!Init, Frames, NoRows
<1>2. IngestInv /\ [Next]_vars => [Replica!Next]_(Replica!vars)
  <2> SUFFICES ASSUME IngestInv, [Next]_vars
               PROVE  Replica!Next \/ UNCHANGED <<feed, db>>
    BY DEF Replica!vars
  <2>1. CASE Load
    <3>1. ds \in Datasets /\ batch \in Batches
      BY DEF IngestInv, TypeOK
    <3>2. UNCHANGED feed
      BY <2>1 DEF Load, outside
    <3>3. \A d \in Window(ds, batch) : db'[ds][d] \in db[ds][d]..feed[ds][d]
      <4> SUFFICES ASSUME NEW d \in Window(ds, batch)
                   PROVE  db'[ds][d] \in db[ds][d]..feed[ds][d]
        OBVIOUS
      <4>1. d \in Days
        BY <3>1, WindowInDays
      <4>2. db[ds][d] <= db'[ds][d] /\ db'[ds][d] <= feed[ds][d] /\ db'[ds][d] \in Nat
        BY <2>1, <3>1, <4>1, LoadStores DEF Frames
      <4>3. db[ds][d] \in Nat /\ feed[ds][d] \in Nat
        BY <3>1, <4>1 DEF IngestInv, TypeOK, Frames
      <4> QED
        BY <4>2, <4>3
    <3>4. \A s \in Datasets, d \in Days :
             s # ds \/ d \notin Window(ds, batch) => db'[s][d] = db[s][d]
      BY <2>1, LoadStores
    <3> QED
      BY <3>1, <3>2, <3>3, <3>4 DEF Replica!Next, Replica!Commit
  <2>2. ASSUME NEW p \in Revisable, Revise(p[1], p[2])
        PROVE  Replica!Next
    <3>1. p[1] \in Datasets /\ p[2] \in Days
      BY BoundAssumption DEF Datasets, Days
    <3>2. \A s \in Datasets, d \in Days : feed[s][d] <= feed'[s][d]
      BY <2>2, <3>1 DEF Revise, IngestInv, TypeOK, Frames
    <3> QED
      BY <2>2, <3>2 DEF Revise, disk, Replica!Next, Replica!Publish
  <2>3. CASE UNCHANGED <<feed, db>>
    BY <2>3
  <2> QED
    BY <2>1, <2>2, <2>3
       DEF Next, Step, Start, Fetch, Save, Finish, Raise, Kill, outside, disk, vars
<1> QED
  BY <1>1, <1>2, SpecInv, PTL DEF Spec, ImplementsFeedReplica, Replica!Spec

\* "Idempotent": after a clean run during which the feed stood still, the
\* database is the feed for every day that some batch covers (ingest.py:10).
THEOREM CleanRunCatchesUp ==
    Spec => [](exit = "clean" /\ ~dry /\ errors = {} /\ feed = feedAtStart =>
                 \A s \in Datasets, b \in Batches :
                   \A d \in Window(s, b) : db[s][d] = feed[s][d])
<1> DEFINE CaughtUp == exit = "clean" /\ ~dry /\ errors = {} /\ feed = feedAtStart =>
                         \A s \in Datasets, b \in Batches :
                           \A d \in Window(s, b) : db[s][d] = feed[s][d]
<1>1. IngestInv => CaughtUp
  <2> SUFFICES ASSUME IngestInv, exit = "clean", ~dry, errors = {}, feed = feedAtStart,
                      NEW s \in Datasets, NEW b \in Batches, NEW d \in Window(s, b)
               PROVE  db[s][d] = feed[s][d]
    OBVIOUS
  <2>1. d \in Days
    BY WindowInDays
  <2>2. Passed(s, b)
    BY DEF IngestInv, RunShape, Passed
  <2>3. feed[s][d] <= db[s][d]
    BY <2>2 DEF IngestInv, PassedIsLoaded
  <2>4. db[s][d] <= feed[s][d] /\ db[s][d] \in Nat /\ feed[s][d] \in Nat
    BY <2>1 DEF IngestInv, FeedLeads, TypeOK, Frames
  <2> QED
    BY <2>3, <2>4
<1> HIDE DEF CaughtUp
<1>2. Spec => []CaughtUp
  BY <1>1, SpecInv, PTL
<1> QED
  BY <1>2 DEF CaughtUp

-----------------------------------------------------------------------------
(* Runs end *)

\* The steps a run can still take: three per dataset, two datasets per batch,
\* and the summary.
StepsOfDataset ==
    CASE pc = "fetch" -> 3
      [] pc = "save" -> 2
      [] OTHER -> 1
Work ==
    CASE pc = "idle" -> 0
      [] pc = "finish" -> 1
      [] OTHER -> 1 + StepsOfDataset + (IF ds = "actual" THEN 3 ELSE 0) + 6 * (NumDays - batch)

WorkBounded == Work \in 0..(6 * NumDays + 1) /\ (Work = 0 <=> pc = "idle")

LEMMA WorkTyped == TypeOK => WorkBounded
<1> SUFFICES ASSUME TypeOK PROVE WorkBounded
  OBVIOUS
<1>1. NumDays \in Nat /\ NumDays >= 1 /\ batch \in Nat /\ 1 <= batch /\ batch <= NumDays
  BY RangeAssumption DEF TypeOK, Batches
<1>2. StepsOfDataset \in 1..3
  BY DEF StepsOfDataset
<1> QED
  BY <1>1, <1>2 DEF Work, WorkBounded

\* Going on to the next dataset or batch leaves less to do.
LEMMA EndDatasetWorks ==
    ASSUME TypeOK, EndDataset \/ EndBatch, pc \in {"fetch", "save", "load"}
    PROVE  Work' < Work
<1>1. NumDays \in Nat /\ batch \in Nat /\ batch <= NumDays
  BY RangeAssumption DEF TypeOK, Batches
<1>2. StepsOfDataset \in 1..3 /\ (pc' = "fetch" => StepsOfDataset' = 3)
  BY DEF StepsOfDataset
<1>3. CASE ds = "actual" /\ ds' = "forecast" /\ batch' = batch /\ pc' = "fetch"
  BY <1>1, <1>2, <1>3 DEF Work
<1>4. CASE EndBatch
  <2>1. /\ ds' = "actual"
        /\ \/ batch' = batch + 1 /\ pc' = "fetch"
           \/ batch' = batch /\ batch = NumDays /\ pc' = "finish"
    BY <1>4, EndBatchShape
  <2>2. Work \in Nat /\ Work >= 2 + 6 * (NumDays - batch)
    BY <1>1, <1>2 DEF Work
  <2>3. CASE batch' = batch + 1 /\ pc' = "fetch"
    BY <1>1, <1>2, <2>1, <2>2, <2>3 DEF Work
  <2>4. CASE batch = NumDays /\ pc' = "finish"
    <3>1. Work' = 1
      BY <2>4 DEF Work
    <3>2. NumDays - batch = 0
      BY <1>1, <2>4
    <3> QED
      BY <2>2, <3>1, <3>2
  <2> QED
    BY <2>1, <2>3, <2>4
<1> QED
  BY <1>3, <1>4, EndDatasetShape

\* Every step of a run, failures included, leaves less to do, so a run of
\* run_ingestion ends within 6 * NumDays + 1 steps of its own whatever BMRS does
\* meanwhile (ingest.py:384-405): the loop cannot be caught in a batch.
THEOREM RunsGetShorter ==
    Spec => /\ []WorkBounded
            /\ [][pc # "idle" => Work' < Work \/ (Work' = Work /\ feed' # feed)]_vars
<1> DEFINE Shorter == pc # "idle" => Work' < Work \/ (Work' = Work /\ feed' # feed)
<1>1. IngestInv => WorkBounded
  BY WorkTyped DEF IngestInv
<1>2. ASSUME IngestInv, WorkBounded, WorkBounded', Next PROVE Shorter
  <2> SUFFICES ASSUME pc # "idle"
               PROVE  Work' < Work \/ (Work' = Work /\ feed' # feed)
    OBVIOUS
  <2>0. TypeOK /\ WorkBounded /\ Work \in Nat /\ Work # 0 /\ Work' \in Nat
    BY <1>2, RangeAssumption DEF IngestInv, WorkBounded
  <2>1. NumDays \in Nat /\ batch \in Nat /\ batch <= NumDays
    BY <2>0, RangeAssumption DEF TypeOK, Batches
  <2>2. CASE Fetch
    <3>1. CASE EndDataset
      BY <2>0, <2>2, <3>1, EndDatasetWorks DEF Fetch
    <3>2. CASE pc' = "save" /\ UNCHANGED <<batch, ds>>
      BY <2>1, <2>2, <3>2 DEF Fetch, Work, StepsOfDataset
    <3> QED
      BY <2>2, <3>1, <3>2 DEF Fetch
  <2>3. CASE Save
    <3>1. CASE EndDataset
      BY <2>0, <2>3, <3>1, EndDatasetWorks DEF Save
    <3>2. CASE pc' = "load" /\ UNCHANGED <<batch, ds, df>>
      BY <2>1, <2>3, <3>2 DEF Save, Work, StepsOfDataset
    <3> QED
      BY <2>3, <3>1, <3>2 DEF Save
  <2>4. CASE Load
    BY <2>0, <2>4, EndDatasetWorks DEF Load
  <2>5. CASE Raise
    BY <2>0, <2>5, EndDatasetWorks DEF Raise, FailedBatch
  <2>6. CASE Finish \/ Kill
    <3>1. Work' = 0
      BY <2>6 DEF Finish, Kill, Work
    <3> QED
      BY <2>0, <3>1
  <2>7. ASSUME NEW p \in Revisable, Revise(p[1], p[2]) PROVE Work' = Work /\ feed' # feed
    <3>1. p[1] \in Datasets /\ p[2] \in Days
      BY BoundAssumption DEF Datasets, Days
    <3>2. feed'[p[1]][p[2]] = feed[p[1]][p[2]] + 1 /\ feed[p[1]][p[2]] \in Nat
      BY <2>0, <2>7, <3>1 DEF Revise, TypeOK, Frames
    <3>3. Work' = Work
      BY <2>7 DEF Revise, Work, StepsOfDataset
    <3> QED
      BY <3>2, <3>3
  <2> QED
    BY <1>2, <2>2, <2>3, <2>4, <2>5, <2>6, <2>7 DEF Next, Step, Start
<1>3. IngestInv /\ WorkBounded /\ WorkBounded' /\ [Next]_vars => [Shorter]_vars
  BY <1>2
<1> HIDE DEF Shorter
<1>4. Spec => []WorkBounded /\ [][Shorter]_vars
  BY <1>1, <1>3, SpecInv, PTL DEF Spec
<1> QED
  BY <1>4 DEF Shorter

-----------------------------------------------------------------------------
(* The archive *)

Backed(s, d, b) ==
    /\ d \in Window(s, b)
    /\ archive[s][b].state = "torn" \/ archive[s][b].rows[d] >= db[s][d]

\* What is about to be loaded has been archived.
ArchivedFirst ==
    pc = "load" => archive[ds][batch].rows = df

ArchiveInv == IngestInv /\ ArchivedFirst /\ ArchiveBacksDatabase

\* A file written at <<ds, batch>> that is torn, or that holds the frame in
\* hand, backs whatever the old one did.
LEMMA FileWritten ==
    ASSUME IngestInv, ArchiveBacksDatabase, UNCHANGED db,
           pc = "save",
           NEW f \in Files, f.state = "torn" \/ f.rows = df,
           archive' = [archive EXCEPT ![ds][batch] = f]
    PROVE  ArchiveBacksDatabase'
<1>0. TypeOK /\ ds \in Datasets /\ batch \in Batches
  BY DEF IngestInv, TypeOK
<1> SUFFICES ASSUME NEW s \in Datasets, NEW d \in Days, db[s][d] > 0
             PROVE  \E b \in Batches : Backed(s, d, b)'
  BY DEF ArchiveBacksDatabase, Backed, Window
<1>1. PICK b \in Batches : Backed(s, d, b)
  BY DEF ArchiveBacksDatabase, Backed
<1>2. CASE s = ds /\ b = batch
  <2>1. archive'[ds][batch] = f
    BY <1>0 DEF TypeOK
  <2>2. df[d] >= db[ds][d]
    BY <1>1, <1>2 DEF Backed, IngestInv, FrameLeads
  <2> QED
    BY <1>1, <1>2, <2>1, <2>2 DEF Backed, Window
<1>3. CASE ~(s = ds /\ b = batch)
  <2>1. archive'[s][b] = archive[s][b]
    BY <1>0, <1>3 DEF TypeOK
  <2> QED
    BY <1>1, <2>1 DEF Backed, Window
<1> QED
  BY <1>2, <1>3

LEMMA NextArchive == ArchiveInv /\ [Next]_vars => ArchiveInv'
<1> SUFFICES ASSUME ArchiveInv, [Next]_vars
             PROVE  ArchiveInv'
  OBVIOUS
<1>0. IngestInv /\ TypeOK /\ ArchivedFirst /\ ArchiveBacksDatabase
      /\ ds \in Datasets /\ batch \in Batches
  BY DEF ArchiveInv, IngestInv, TypeOK
<1>1. IngestInv'
  BY <1>0, NextInv
<1>2. CASE Save
  <2>1. Written \in Files /\ Written.rows = df
    BY <1>0 DEF Written, Files, TypeOK
  <2>2. ArchiveBacksDatabase'
    BY <1>0, <1>2, <2>1, FileWritten DEF Save
  <2>3. ArchivedFirst'
    <3>1. CASE pc' = "load" /\ UNCHANGED <<batch, ds, df>>
      BY <1>0, <1>2, <2>1, <3>1 DEF Save, ArchivedFirst, TypeOK
    <3>2. CASE EndDataset
      BY <1>0, <3>2, EndDatasetShape DEF ArchivedFirst
    <3> QED
      BY <1>2, <3>1, <3>2 DEF Save
  <2> QED
    BY <1>1, <2>2, <2>3 DEF ArchiveInv
<1>3. CASE Load
  <2>1. ArchivedFirst'
    BY <1>0, <1>3, EndDatasetShape DEF Load, ArchivedFirst
  <2>2. UNCHANGED archive /\ archive[ds][batch].rows = df
    BY <1>0, <1>3 DEF Load, ArchivedFirst
  <2>3. ArchiveBacksDatabase'
    <3> SUFFICES ASSUME NEW s \in Datasets, NEW d \in Days, db'[s][d] > 0
                 PROVE  \E b \in Batches : Backed(s, d, b)'
      BY DEF ArchiveBacksDatabase, Backed, Window
    <3>1. CASE s = ds /\ d \in Window(ds, batch)
      <4>1. db[ds] \in Frames /\ df \in Frames
        BY <1>0 DEF TypeOK
      <4>2. db'[ds] = Upserted(db[ds], df)
        BY <1>0, <1>3 DEF Load, TypeOK
      <4>3. db'[ds][d] = IF df[d] > 0 THEN df[d] ELSE db[ds][d]
        BY <4>1, <4>2, UpsertTyped
      <4>4. df[d] >= db[ds][d] /\ df[d] \in Nat /\ db[ds][d] \in Nat
        BY <1>0, <1>3, <3>1, <4>1 DEF Load, IngestInv, FrameLeads, Frames
      <4>5. df[d] >= db'[ds][d]
        BY <4>3, <4>4
      <4> QED
        BY <1>0, <2>2, <3>1, <4>5 DEF Backed, Window
    <3>2. CASE ~(s = ds /\ d \in Window(ds, batch))
      <4>1. db'[s][d] = db[s][d]
        BY <1>0, <1>3, <3>2, LoadStores
      <4>2. PICK b \in Batches : Backed(s, d, b)
        BY <1>0, <4>1 DEF ArchiveBacksDatabase, Backed
      <4> QED
        BY <2>2, <4>1, <4>2 DEF Backed, Window
    <3> QED
      BY <3>1, <3>2
  <2> QED
    BY <1>1, <2>1, <2>3 DEF ArchiveInv
<1>4. ASSUME MaybeTorn, UNCHANGED db, pc' # "load"
      PROVE  ArchiveInv'
  <2>1. ArchivedFirst'
    BY <1>4 DEF ArchivedFirst
  <2>2. ArchiveBacksDatabase'
    <3>1. CASE UNCHANGED archive
      BY <1>0, <1>4, <3>1 DEF ArchiveBacksDatabase, Window
    <3>2. CASE pc = "save" /\ archive' = [archive EXCEPT ![ds][batch] = Torn]
      BY <1>0, <1>4, <3>2, FileWritten, FilesTyped DEF Torn
    <3> QED
      BY <1>4, <3>1, <3>2 DEF MaybeTorn
  <2> QED
    BY <1>1, <2>1, <2>2 DEF ArchiveInv
<1>5. ASSUME UNCHANGED disk, pc' # "load" \/ UNCHANGED <<pc, ds, batch, df>>
      PROVE  ArchiveInv'
  <2>1. ArchivedFirst'
    BY <1>0, <1>5 DEF ArchivedFirst, disk
  <2>2. ArchiveBacksDatabase'
    BY <1>0, <1>5 DEF ArchiveBacksDatabase, Window, disk
  <2> QED
    BY <1>1, <2>1, <2>2 DEF ArchiveInv
<1>6. CASE Raise
  BY <1>0, <1>4, <1>6, EndBatchShape DEF Raise, FailedBatch
<1>7. CASE Kill
  BY <1>4, <1>7 DEF Kill
<1>8. CASE Fetch
  BY <1>0, <1>5, <1>8, EndDatasetShape DEF Fetch
<1> QED
  BY <1>2, <1>3, <1>5, <1>6, <1>7, <1>8 DEF Next, Step, Start, Finish, Revise, vars, disk

\* Whatever is in the database can be reprocessed from an archived file at
\* least as new, unless a later write of that file was cut short.
THEOREM ArchiveAlwaysBacks == Spec => []ArchiveBacksDatabase
<1>1. Init => ArchiveInv
  <2> SUFFICES ASSUME Init PROVE ArchiveInv
    OBVIOUS
  <2>1. \A s \in Datasets, d \in Days : ~(db[s][d] > 0)
    BY NoRowsTyped DEF Init
  <2> QED
    BY <2>1, InitInv DEF Init, ArchiveInv, ArchivedFirst, ArchiveBacksDatabase
<1>2. ArchiveInv => ArchiveBacksDatabase
  BY DEF ArchiveInv
<1> QED
  BY <1>1, <1>2, NextArchive, PTL DEF Spec
=============================================================================
