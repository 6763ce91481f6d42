SPECIFICATION Spec
CONSTANTS
    Instances = {n1, n2}
    UserIds = {u1, u2}
    NoId = NoId
    NoSegments = NoSegments
    ErrorAnswer = ErrorAnswer
    NoDate = NoDate
    Offsets = {0, 1}
    ClockMayGoBack = FALSE
    TicksPerSecond = 2
    SecondsPerDay = 2
    MaxTime = 5
    MaxVersion = 1
    MaxOutstanding = 1
INVARIANT TypeOK
INVARIANT DatedSegmentsAreSaved
INVARIANT SavedSegmentsHaveAnOwner
INVARIANT DailyRefreshNeedsClockBack
INVARIANT SilencedOnlyByRival
