SPECIFICATION FairSpec
CONSTANTS
    Instances = {n1}
    UserIds = {u1, u2}
    NoId = NoId
    OnMain = {n1}
PROPERTY WillRetryLater
