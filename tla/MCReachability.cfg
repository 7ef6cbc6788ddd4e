SPECIFICATION FairSpec
CONSTANTS
    FlagSets <- MCFlagSets
    NoFlags = NoFlags
    Check = Check
    MaxPending = 4
INVARIANTS
    TypeOK
    FlagsFollowNetwork
    RecordFollowsFlags
    FailedStartIsDeaf
PROPERTIES
    RecordCatchesUp
    ImplementsFeed
