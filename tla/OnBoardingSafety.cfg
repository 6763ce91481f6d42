SPECIFICATION HSpec
CONSTANTS
    Instances = {n1, n2}
    UserIds = {u1, u2}
    NoId = NoId
    Keys = {k1, k2}
    Values = {v1, v2}
    NoValue = NoValue
    NoDate = NoDate
    Offsets = {0}
    ClockMayGoBack = TRUE
    TicksPerSecond = 1
    SecondsPerDay = 1
    MaxTime = 1
    MaxSends = 2
SYMMETRY Interchangeable
INVARIANT TypeOK
INVARIANT WriteAhead
INVARIANT NoAnonymousTraffic
INVARIANT OnlyWrittenValues
PROPERTY NoLostUpdate
PROPERTY RequestsCarrySavedMap
PROPERTY ImplementsDelivery
