SPECIFICATION Spec
CONSTANTS
    Instances = {n1, n2}
    UserIds = {u1, u2}
    NoId = NoId
    Keys = {k1}
    Values = {v1}
    NoValue = NoValue
    NoDate = NoDate
    NoSegments = NoSegments
    ErrorAnswer = ErrorAnswer
    Offsets = {0}
    ClockMayGoBack = FALSE
    TicksPerSecond = 1
    SecondsPerDay = 4
    MaxTime = 1
    MaxSends = 2
    MaxVersion = 1
    MaxOutstanding = 1
INVARIANT OwedSegmentsAreDue
SYMMETRY Interchangeable
