CONSTANTS
    p1 = p1
    p2 = p2
    NoPane = NoPane
    Panes <- TwoPanes
    LineCounts = {0, 4}
    Areas <- Terminals
    MaxAlerts = 1
    HelpLines <- HelpText
    MaxSequence = 3

SPECIFICATION FairSpec

INVARIANTS
    FrameIsOfSelection
    ScreenFollows

PROPERTIES
    HoldsStill
    PreviewAnswers
CHECK_DEADLOCK FALSE
