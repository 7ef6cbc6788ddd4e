SPECIFICATION Spec
CONSTANTS
    Songs = {s1, s2, s3}
    NoSong = NoSong
    NoImage = NoImage
    Station = Station
    NoTrack = NoTrack
    MaxAsks = 2
SYMMETRY Symmetry
INVARIANTS
    TypeOK
    OnlyOverlapMislabels
    OnlyOverlapBlanksCover
    OnlyLateBlocksMiscover
    ScreensAgree
