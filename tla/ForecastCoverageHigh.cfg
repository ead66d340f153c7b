CONSTANTS
    Slots <- MCSlots
    PublishTimes <- MCNotAtMidnight
    Powers <- MCPowers
    Horizons <- MCHorizons
    MaxFrame = 0
    NumDays = 2
    DayLength = 2
    LookBack = 2
SPECIFICATION CoverageSpec
INVARIANT HighHorizonsCovered
