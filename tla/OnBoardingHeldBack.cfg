SPECIFICATION Spec
CONSTANTS
    Instances = {n1, n2}
    UserIds = {u1}
    NoId = NoId
    Keys = {k1, k2}
    Values = {v1, v2}
    NoValue = NoValue
    NoDate = NoDate
    Offsets = {0}
    ClockMayGoBack = FALSE
    TicksPerSecond = 1
    SecondsPerDay = 2
    MaxTime = 2
    MaxSends = 2
INVARIANT HeldBackOnlyWhenSent
