SPECIFICATION FairSpec
CONSTANTS
    URLs = {u1}
    Assets = {a1, a2}
    NoURL = NoURL
    NoItem = NoItem
    Links = {"wifi"}
    isAutoPlay = TRUE
    MaxQueue = 1
    MaxRechecks = 1
PROPERTIES
    LoadSettles
    ImplementsFairPlayback
    RecoveryIsNoticed
