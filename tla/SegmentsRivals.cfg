SPECIFICATION FairSpec
CONSTANTS
    Instances = {n1, n2}
    UserIds = {u1, u2}
    NoId = NoId
    NoSegments = NoSegments
    ErrorAnswer = ErrorAnswer
    NoDate = NoDate
    Offsets = {0, 1}
    ClockMayGoBack = FALSE
    TicksPerSecond = 1
    SecondsPerDay = 2
    MaxTime = 1
    MaxVersion = 0
    MaxOutstanding = 1
PROPERTY AskedSegmentsArrive
