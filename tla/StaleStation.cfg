SPECIFICATION AppSpec
CONSTANTS
    URLs = {u1, u2}
    DefaultURL = u1
    Assets = {a1, a2}
    NoURL = NoURL
    NoItem = NoItem
    Links = {"wifi"}
    isAutoPlay = TRUE
    MaxQueue = 1
    MaxRechecks = 1
SYMMETRY Symmetry
INVARIANTS
    CurrentStationPlays
