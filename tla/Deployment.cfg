CONSTANTS
    Workers = {w1, w2}
    MaxVersion = 1
    MaxRuns = 2
    MaxCrashes = 1
    MaxStops = 1
SPECIFICATION FairSpec
INVARIANTS TypeOK AnswersAreCurrent IncompleteOnlyAfterCrash
PROPERTY EventuallyServes
