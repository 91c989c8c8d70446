SPECIFICATION Spec
CONSTANTS
    Configs <- TwoConfigs
    Versioned <- OpenCode
    Versions = {1, 2}
    Selections <- AnyOfThem
    Limit <- Some
CHECK_DEADLOCK FALSE
INVARIANTS
    RecoveryRestores
    AllOrNothing
    EditsSurvive
PROPERTIES
    NeverDangles
