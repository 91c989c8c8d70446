CONSTANTS
    Calls = {"s", "j", "f"}
    KindOf <- TwoKinds
    Capacity = 1
    Notices <- SomeNotices
    MaxNotices = 1

SPECIFICATION FairSpec

INVARIANTS
    AnswersMatch
    OneStory
    SessionsInOrder

PROPERTIES
    CallsSettle
CHECK_DEADLOCK FALSE
