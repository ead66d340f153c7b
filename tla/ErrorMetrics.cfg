CONSTANTS
    None = None
    Kinds <- MCKinds
    Blocks = {1, 2, 50}
    MaxLoads = 5
SPECIFICATION Spec
INVARIANTS TypeOK PercentilesSplitSample FiguresAgree HourlyAddsUp LevelsAreReliable
CHECK_DEADLOCK FALSE
