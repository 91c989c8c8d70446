CONSTANTS
    MaxVersion = 1
    MaxTickSeq = 1

SPECIFICATION FairSpec

INVARIANTS
    FlagsAgree
    VerdictIsTrue
    QuitsForReason

PROPERTIES
    NothingStale
    RefreshFollows
    SnapshotsSettle
CHECK_DEADLOCK FALSE
