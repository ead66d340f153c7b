CONSTANTS
    Slots <- MCSlots
    PublishTimes <- MCPublishTimes
    Powers <- MCPowers
    Horizons <- MCHorizons
    MaxFrame = 0
    NumDays = 2
    DayLength = 2
    LookBack = 2
SPECIFICATION CoverageSpec
INVARIANTS OneWindowIsEnough OnlyEarlyPublishesMissed
