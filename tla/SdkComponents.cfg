SPECIFICATION Spec
CONSTANTS
    Instances = {n1, n2}
    UserIds = {u1, u2}
    NoId = NoId
    Keys = {k1}
    Values = {v1}
    NoValue = NoValue
    NoDate = NoDate
    NoSegments = NoSegments
    ErrorAnswer = ErrorAnswer
    Offsets = {0}
    ClockMayGoBack = TRUE
    TicksPerSecond = 1
    SecondsPerDay = 2
    MaxTime = 1
    MaxSends = 1
    MaxVersion = 1
    MaxOutstanding = 1
PROPERTY ImplementsOnBoarding
PROPERTY ImplementsSegments
