SPECIFICATION FairSpec
CONSTANTS
    Instances = {n1}
    UserIds = {u1}
    NoId = NoId
    NoSegments = NoSegments
    ErrorAnswer = ErrorAnswer
    NoDate = NoDate
    Offsets = {0, 1}
    ClockMayGoBack = TRUE
    TicksPerSecond = 1
    SecondsPerDay = 2
    MaxTime = 3
    MaxVersion = 1
    MaxOutstanding = 2
PROPERTY DictionaryEventually
