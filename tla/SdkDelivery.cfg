SPECIFICATION FairSpec
CONSTANTS
    Instances = {n1}
    UserIds = {u1}
    NoId = NoId
    Keys = {k1}
    Values = {v1}
    NoValue = NoValue
    NoDate = NoDate
    NoSegments = NoSegments
    ErrorAnswer = ErrorAnswer
    Offsets = {0, 2}
    ClockMayGoBack = FALSE
    TicksPerSecond = 2
    SecondsPerDay = 2
    MaxTime = 5
    MaxSends = 2
    MaxVersion = 2
    MaxOutstanding = 1
INVARIANT OwedSegmentsAreDue
PROPERTY OwedSegmentsArrive
