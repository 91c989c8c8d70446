CONSTANTS
    NoSession = NoSession
    child = child
    root = root
    other = other
    w1 = w1
    w2 = w2
    Sessions <- ThreeSessions
    Home <- Homes
    Projects <- Listing
    Ancestries <- Families
    MaxChanges = 3

SPECIFICATION FairPollerSpec

INVARIANTS
    PollsTellTruth
    AttachedOnce

PROPERTY SourceIsShown
CHECK_DEADLOCK FALSE
