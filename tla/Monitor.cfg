SPECIFICATION FairSpec
CONSTANTS
    Users = {a1}
    NoUser = NoUser
    FlagSets <- DeviceFlags
    NoFlags = NoFlags
    OnDevice = TRUE
    MaxChecks = 2
    MaxObservers = 2
    MaxBlocks = 3
INVARIANT TypeOK
INVARIANT QuietMeansReported
INVARIANT CallbacksHaveUser
INVARIANT ReturnIsPending
PROPERTY ArmedReturnResends
