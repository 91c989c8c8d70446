CONSTANTS
    Never = 99
    StaleSecs = 1
    Score <- MatchScore
    Snapshots <- TmuxAnswers
    HeadlessLists <- HeadlessAnswers
    LaunchSession = 1
    LaunchPane = 1
    NewPane = 3
    Minute = 2
    Hour = 4
    Day = 8
    VerificationTimeout = 1
    ScreenHeight = 4
    Keys = {"j", "k", "h", "Tab", "z", "a", "s", "x", "y", "n", "q", "?", "/", "Enter", "Esc", "Backspace", "C-s"}
    QueryKeys = {"x", "s"}
    MaxQuery = 1
    MaxKeys = 4
    MaxUpdates = 2
    MaxEvents = 5
    MaxTime = 4
    StartTime = 3

SPECIFICATION Spec

INVARIANTS
    ScreenIsCurrent
    FocusOnScreen

PROPERTIES
    AgesFresh
    ActsOnWhatIsShown
CHECK_DEADLOCK FALSE
