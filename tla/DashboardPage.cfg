CONSTANTS
    Ranges = {"week", "gap", "reversed"}
    Horizons = {4, 24}
    Refused = {"reversed"}
    Blank = {"gap"}
    Initial <- MCInitial
    NoData = NoData
    Themes = {"light", "dark"}
    NoTheme = NoTheme
    NoDrawing = NoDrawing
    MaxChanges = 2
    MaxReloads = 1
    MaxToggles = 2
    MaxFaults = 1
SPECIFICATION FairSpec
INVARIANTS TypeOK SpinnerHasLoad PanelsShowSelection BannerTellsFailure NoLeak DrawingIsCurrent OneTheme
PROPERTY SettlesDown
CHECK_DEADLOCK FALSE
