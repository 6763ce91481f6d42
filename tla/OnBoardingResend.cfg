SPECIFICATION FairSpec
CONSTANTS
    Instances = {n1}
    UserIds = {u1}
    NoId = NoId
    Keys = {k1, k2}
    Values = {v1}
    NoValue = NoValue
    NoDate = NoDate
    Offsets = {0}
    ClockMayGoBack = FALSE
    TicksPerSecond = 1
    SecondsPerDay = 2
    MaxTime = 1
    MaxSends = 2
PROPERTY FailedSendRetried
