CONSTANTS
    Slots <- MCSlots
    PublishTimes <- MCPublishTimes
    Powers <- MCPowers
    Horizons <- MCHorizons
    MaxFrame = 2
SPECIFICATION Spec
INVARIANTS TypeOK SelectsLatestEligible AnswersEachSlotOnce LongerHorizonIsOlder MetricsMatchChart
PROPERTY HindsightChangesNothing
