SPECIFICATION Spec
CONSTANTS
    a1 = a1
    a2 = a2
    a3 = a3
    Ads = {a1, a2, a3}
    Pictures = {a1, a3}
    AdLists <- MCAdLists
    NoAd = NoAd
    NoImage = NoImage
    Operations = {o1, o2}
    NoOperation = NoOperation
    Width = 4
    Offset = 1
    Reach = 1
    NoPlayer = NoPlayer
INVARIANTS
    TypeOK
    PictureBelongsToAd
    FailedNeverShown
    OnlyNewPlayerForgetsVolume
PROPERTIES
    EveryAdComesRound
