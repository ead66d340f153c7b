CONSTANTS
    Ranges = {"week", "reversed"}
    Horizons = {4, 24}
    Refused = {"reversed"}
    Blank = {}
    Initial <- MCInitial
    NoData = NoData
    Themes = {"light", "dark"}
    NoTheme = NoTheme
    NoDrawing = NoDrawing
    MaxChanges = 1
    MaxReloads = 0
    MaxToggles = 0
    MaxFaults = 0
SPECIFICATION Spec
INVARIANT LegendTellsForecast
CHECK_DEADLOCK FALSE
