CONSTANT
    Configs <- MCConfigs
SPECIFICATION FairSpec
INVARIANTS TypeOK BackoffSchedule GivesUpOnlyWhenExhausted
PROPERTY Ends
\* The call returns: nothing happens after its outcome.
CHECK_DEADLOCK FALSE
