CONSTANTS
    MaxCreations = 2

SPECIFICATION FairSpec

INVARIANTS
    NoPaneForgotten
    ResolutionIsTrue
    NeverCutsShort

PROPERTIES
    CreationConcludes
CHECK_DEADLOCK FALSE
