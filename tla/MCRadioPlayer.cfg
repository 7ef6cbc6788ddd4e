SPECIFICATION Spec
CONSTANTS
    URLs = {u1, u2}
    Assets = {a1, a2}
    NoURL = NoURL
    NoItem = NoItem
    Links = {"wifi", "cellular"}
    isAutoPlay = TRUE
    MaxQueue = 2
    MaxRechecks = 1
SYMMETRY Symmetry
INVARIANTS
    TypeOK
    ObserversBalanced
    PlayingHasItem
    AudibleOnlyWhenPlaying
    SilentPlayingHasCause
    OnlyOverlapPlaysAnotherStation
    ConnectivityViewSettles
PROPERTIES
    
    StartsAreAskedFor
    ImplementsPlayback
