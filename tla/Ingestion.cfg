CONSTANTS
    NumDays = 2
    LookBack = 1
    MaxVersion = 2
    Revisable <- MCRevisable
    MaxFaults = 2
SPECIFICATION FairSpec
INVARIANTS TypeOK LossIsReported ArchiveBacksDatabase
PROPERTIES ImplementsFeedReplica RunsEnd CatchesUp
