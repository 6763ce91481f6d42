SPECIFICATION Spec
CONSTANTS
    Instances = {n1, n2, n3}
    UserIds = {u1, u2}
    NoId = NoId
    OnMain = {n1, n2}
INVARIANT TypeOK
INVARIANT OneCreateInFlight
INVARIANT KnownIdStopsCreation
INVARIANT SavedIdHasAnOwner
PROPERTY OwnIdWriteOnce
PROPERTY SavedIdRewrittenOnlyByRival
PROPERTY UnmadeRequestIsFinal
PROPERTY ImplementsAccount
