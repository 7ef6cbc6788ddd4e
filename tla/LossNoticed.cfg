SPECIFICATION FairSpec
CONSTANTS
    URLs = {u1}
    Assets = {a1}
    NoURL = NoURL
    NoItem = NoItem
    Links = {"wifi"}
    isAutoPlay = TRUE
    MaxQueue = 2
    MaxRechecks = 1
PROPERTIES
    ConnectionLossNoticed
